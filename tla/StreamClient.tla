---------------------------- MODULE StreamClient ----------------------------
(***************************************************************************)
(* What the user of one thread sees: the conversation state of the client  *)
(* libraries (useAgentStream.ts, AgentStream.swift), driven by the events  *)
(* of the server's run queue over links that break, and by the two sample  *)
(* hosts: the web ChatView and the iPad ChatViewModel.                     *)
(*                                                                         *)
(* A React callback changes the state when its packet arrives.  In Swift   *)
(* it leaves a task for the main actor, which runs them in their order:    *)
(* connect() removes the callbacks of the old socket, not its tasks.       *)
(* What the client sends is at the server at once, or lost; what the       *)
(* server sends stays on the wire for as long as it likes, in order.       *)
(***************************************************************************)
EXTENDS Naturals, FiniteSets, SequencesExt

CONSTANTS Typed,      \* messages the user may type, each one once
          FollowUps,  \* runs the server starts on a local tool's answer
          Clears,     \* clear_context requests the user may make
          MayFail,    \* runs whose agent may throw
          MayThrow,   \* runs whose context or runner may throw before the agent starts
          Chunks,     \* agent_response events of a run, the last one done
          None,       \* no task, no pending message
          Clients,    \* hosts to look at: "web", "ipad"
          MaxBreaks,  \* bound: connections that fail or are cut
          MaxConnects,\* bound: calls of connect() after the first
          MaxWire,    \* bound: packets on the wire, tasks, before others wait
          MaxTasks    \* bound, by client: messages, follow-ups and clears

Runs  == Typed \cup FollowUps
Tasks == Runs \cup Clears

ASSUME StreamAssumption ==
  /\ Typed \cap FollowUps = {} /\ Runs \cap Clears = {} /\ None \notin Tasks
  /\ MayFail \cup MayThrow \subseteq Runs /\ Clients \subseteq {"web", "ipad"}
  /\ Chunks \in Nat \ {0} /\ \A k \in Clients : MaxTasks[k] \in Nat
  /\ {MaxBreaks, MaxConnects, MaxWire} \subseteq Nat

VARIABLES client,  \* which of Clients this is; it never changes
          link,    \* none, opening, up; broken, closed: not noticed yet
          socket,  \* number of the server's socket of the latest link
          wire,    \* packets on their way to the client
          todo,    \* Swift: the main actor's tasks
          ui,      \* status, messages, isStreaming, isWorking, thought
          pending, \* pendingSend: typed while there was no connection
          stage, before, step, \* task: what is chained to what, how far
          home,    \* home[t]: the socket that task t sends to
          tail,    \* the thread's entry in the queue's map, or None
          breaks, connects

server == <<stage, before, step, home, tail>>
bounds == <<breaks, connects>>
vars == <<client, link, socket, wire, todo, ui, pending, server, bounds>>

Swift == client = "ipad"
Fresh(t) == stage[t] = "idle" /\ Cardinality({u \in Tasks : stage[u] # "idle"}) < MaxTasks[client]
Message(role, parts, streaming) == [role |-> role, parts |-> parts, streaming |-> streaming]
Event(kind) == [kind |-> kind]

(* The host calls connect() when it starts.                                *)
Init ==
  /\ client \in Clients
  /\ link = "opening" /\ socket = 0 /\ wire = <<>> /\ todo = <<>>
  /\ ui = [status |-> "connecting", messages |-> <<>>, streaming |-> FALSE, working |-> FALSE, thought |-> {}]
  /\ pending = None
  /\ stage = [t \in Tasks |-> "idle"] /\ before = [t \in Tasks |-> None]
  /\ step = [r \in Runs |-> 0] /\ home = [t \in Tasks |-> 0] /\ tail = None
  /\ breaks = 0 /\ connects = 0

-----------------------------------------------------------------------------
(* The handlers of the server's events.                                    *)

Streams(m) == m.role = "assistant" /\ m.streaming
(* Seeded fault: a chunk always goes to the last assistant message.        *)
AppendedToOld(ms, p) ==
  LET old == {i \in DOMAIN ms : ms[i].role = "assistant"}
  IN  IF old = {} THEN Append(ms, Message("assistant", <<<<p.run, p.part>>>>, ~p.done))
      ELSE [ms EXCEPT ![CHOOSE i \in old : \A j \in old : j <= i].parts = Append(@, <<p.run, p.part>>)]
Appended(ms, p) ==
  IF ms # <<>> /\ Streams(Last(ms))
  THEN [ms EXCEPT ![Len(ms)] = Message("assistant", Append(@.parts, <<p.run, p.part>>), ~p.done)]
  ELSE Append(ms, Message("assistant", <<<<p.run, p.part>>>>, ~p.done))

(* Seeded fault: a lost connection leaves the flags.                       *)
DarkNot(u) == u
Dark(u)   == [u EXCEPT !.streaming = FALSE, !.working = FALSE]
Forgot(u) == [u EXCEPT !.messages = <<>>, !.streaming = FALSE, !.thought = {}]

Handled(u, p) ==
  CASE p.kind = "connect"       -> [u EXCEPT !.status = "connected"]
    [] p.kind = "disconnect"    -> [Dark(u) EXCEPT !.status = "disconnected"]
    [] p.kind = "inactive"      -> [Dark(u) EXCEPT !.status = "disconnected"]
    [] p.kind = "version"       -> [u EXCEPT !.status = "error"]
    [] p.kind = "connect_error" -> [u EXCEPT !.status = "error", !.streaming = FALSE]
    [] p.kind = "working"       -> [u EXCEPT !.working = p.on]
    [] p.kind = "token"         -> [u EXCEPT !.thought = @ \cup {p.run}]
    [] p.kind = "response"      -> [u EXCEPT !.streaming = ~p.done,
                                             !.thought = IF p.done THEN {} ELSE @,
                                             !.messages = Appended(@, p)]
    [] p.kind = "cleared"       -> Forgot(u)
    [] p.kind = "error"         -> [u EXCEPT !.streaming = FALSE,
                                             !.status = IF Swift THEN "error" ELSE @]

(* Seeded fault: connect() leaves the callbacks on and adds them again.    *)
ArrivesTwice(p) ==
  LET again == connects > 0 /\ p.kind = "response"
  IN  IF Swift THEN todo' = todo \o (IF again THEN <<p, p>> ELSE <<p>>) /\ UNCHANGED ui
      ELSE ui' = (IF again THEN Handled(Handled(ui, p), p) ELSE Handled(ui, p)) /\ UNCHANGED todo
(* An event of the socket reaches its callback.                            *)
Arrives(p) == IF Swift THEN todo' = Append(todo, p) /\ UNCHANGED ui
              ELSE ui' = Handled(ui, p) /\ UNCHANGED todo

Receive ==
  /\ wire # <<>> /\ Cardinality({i \in DOMAIN todo : todo[i].kind # "observe"}) < MaxWire
  /\ wire' = Tail(wire)
  /\ Arrives(Head(wire))
  /\ UNCHANGED <<client, link, socket, pending, server, bounds>>

-----------------------------------------------------------------------------
(* The link.  "connect" is the first thing a client hears on it.           *)

Connected == link \in {"up", "broken", "closed"} /\ Event("connect") \notin ToSet(wire)

Open ==
  /\ link = "opening"
  /\ link' = "up" /\ socket' = socket + 1 /\ wire' = <<Event("connect")>>
  /\ UNCHANGED <<client, todo, ui, pending, server, bounds>>

(* connect_error: the transport fails and is tried again, or the server's  *)
(* authentication refuses and it is not.                                   *)
Refuse ==
  /\ link = "opening" /\ breaks < MaxBreaks
  /\ breaks' = breaks + 1
  /\ link' \in {"opening", "none"}
  /\ Arrives(Event("connect_error"))
  /\ UNCHANGED <<client, socket, wire, pending, server, connects>>

(* The network fails; what was on the wire is lost from some point on.     *)
Break ==
  /\ link = "up" /\ Connected /\ breaks < MaxBreaks
  /\ breaks' = breaks + 1
  /\ link' = "broken"
  /\ \E n \in 0..Len(wire) : wire' = SubSeq(wire, 1, n)
  /\ UNCHANGED <<client, socket, todo, ui, pending, server, connects>>

(* The server says why and disconnects the socket.                         *)
Close ==
  /\ link = "up" /\ breaks < MaxBreaks
  /\ breaks' = breaks + 1
  /\ link' = "closed"
  /\ \E why \in {"inactive", "version"} : wire' = Append(wire, Event(why))
  /\ UNCHANGED <<client, socket, todo, ui, pending, server, connects>>

(* The socket tries again by itself, but not when the server closed it.    *)
Notice ==
  /\ link \in {"broken", "closed"} /\ wire = <<>>
  /\ link' = IF link = "broken" THEN "opening" ELSE "none"
  /\ Arrives(Event("disconnect"))
  /\ UNCHANGED <<client, socket, wire, pending, server, bounds>>

-----------------------------------------------------------------------------
(* The server's queue, as in ThreadQueue, and what its runs emit.          *)

Send(t, ps) == wire' = IF link = "up" /\ home[t] = socket THEN wire \o ps ELSE wire
Light(on)   == [kind |-> "working", on |-> on]

Enqueue(t) ==
  /\ stage' = [stage EXCEPT ![t] = "queued"]
  /\ before' = [before EXCEPT ![t] = tail]
  /\ home' = [home EXCEPT ![t] = socket]
  /\ tail' = t
  /\ wire' = IF t \in Runs /\ tail = None THEN Append(wire, Light(TRUE)) ELSE wire
  /\ UNCHANGED step

Ready(t) == stage[t] = "queued" /\ (before[t] # None => stage[before[t]] = "done")
Ended(t) ==
  /\ stage' = [stage EXCEPT ![t] = "done"]
  /\ tail' = IF tail = t THEN None ELSE tail
  /\ UNCHANGED <<before, step, home>>
Drained(t) == IF tail \in {t, None} THEN <<Light(FALSE)>> ELSE <<>>

(* A run emits a token, and then its chunks.                               *)
EmitNext(r) ==
  /\ Ready(r) /\ step[r] <= Chunks
  /\ step' = [step EXCEPT ![r] = @ + 1]
  /\ Send(r, IF step[r] = 0 THEN <<[kind |-> "token", run |-> r]>>
             ELSE <<[kind |-> "response", run |-> r, part |-> step[r], done |-> step[r] = Chunks]>>)
  /\ UNCHANGED <<stage, before, home, tail>>

(* What throws outside the try of the task, the queue swallows: no error   *)
(* is emitted.                                                             *)
EndRun(r) ==
  /\ Ready(r)
  /\ \/ step[r] > Chunks /\ Send(r, Drained(r))
     \/ r \in MayFail /\ step[r] <= Chunks /\ Send(r, <<Event("error")>> \o Drained(r))
     \/ r \in MayThrow /\ step[r] = 0 /\ Send(r, Drained(r))
  /\ Ended(r)

(* The clear's own body deletes the entry and tells the whole room.        *)
EndClear(c) ==
  /\ Ready(c)
  /\ stage' = [stage EXCEPT ![c] = "done"] /\ tail' = None
  /\ wire' = IF link = "up" THEN Append(wire, Event("cleared")) ELSE wire
  /\ UNCHANGED <<before, step, home>>

Serve ==
  /\ Len(wire) < MaxWire
  /\ (\E r \in Runs : EmitNext(r) \/ EndRun(r)) \/ (\E c \in Clears : EndClear(c))
  /\ UNCHANGED <<client, link, socket, todo, ui, pending, bounds>>

(* A local tool's answer came in from the present socket.                  *)
FollowUp(f) ==
  /\ Fresh(f) /\ link = "up" /\ Connected /\ Len(wire) < MaxWire
  /\ \E r \in Runs \ {f} : step[r] > 0
  /\ Enqueue(f)
  /\ UNCHANGED <<client, link, socket, todo, ui, pending, bounds>>

-----------------------------------------------------------------------------
(* sendMessage and clearContext of the libraries.                          *)

AtServer(t) ==
  IF link = "up" THEN Enqueue(t)
  ELSE stage' = [stage EXCEPT ![t] = "lost"] /\ UNCHANGED <<before, step, home, tail, wire>>

(* Nothing at all happens when the socket is not connected.                *)
SendMessage(r) ==
  IF Connected
  THEN /\ ui' = [ui EXCEPT !.messages = Append(@, Message("user", <<<<r, 0>>>>, FALSE)),
                           !.thought = {}, !.streaming = TRUE]
       /\ AtServer(r)
  ELSE /\ stage' = [stage EXCEPT ![r] = "lost"]
       /\ UNCHANGED <<ui, before, step, home, tail, wire>>

-----------------------------------------------------------------------------
(* The main actor.  What is published wakes the iPad's status loop if it   *)
(* waits for the next status; a status published before it has run is      *)
(* dropped, since the subject keeps nothing.                               *)

Publish(tasks, u) ==
  IF ~Swift \/ \E p \in ToSet(tasks) : p.kind = "observe" THEN tasks
  ELSE Append(tasks, [kind |-> "observe", on |-> u.status = "connected"])

(* The status loop sends what is pending, whatever the status is by now.   *)
Observe ==
  /\ todo # <<>> /\ Head(todo).kind = "observe"
  /\ todo' = Tail(todo)
  /\ IF Head(todo).on /\ pending # None
     THEN SendMessage(pending) /\ pending' = None
     ELSE UNCHANGED <<pending, ui, server, wire>>
  /\ UNCHANGED <<client, link, socket, bounds>>

(* On inactive_close the client disconnects whatever socket there is now.  *)
RunTask ==
  /\ todo # <<>> /\ Head(todo).kind # "observe"
  /\ LET p    == Head(todo)
         lost == p.kind = "inactive" /\ link # "none"
         rest == IF lost THEN Append(Tail(todo), Event("disconnect")) ELSE Tail(todo)
     IN  /\ ui' = Handled(ui, p)
         /\ todo' = IF p.kind = "token" THEN rest ELSE Publish(rest, ui')
         /\ link' = IF lost THEN "none" ELSE link
         /\ wire' = IF lost THEN <<>> ELSE wire
  /\ UNCHANGED <<client, socket, pending, server, bounds>>

-----------------------------------------------------------------------------
(* The hosts and what they call.                                           *)

Connect ==
  /\ connects < MaxConnects /\ connects' = connects + 1
  /\ link' = "opening" /\ wire' = <<>>
  /\ ui' = [ui EXCEPT !.status = "connecting"]
  /\ todo' = Publish(todo, ui')
  /\ UNCHANGED <<client, socket, server, breaks>>

Offline == ui.status \in {"disconnected", "error"}
CanSend == IF Swift THEN ~ui.streaming
           ELSE Offline \/ (ui.status = "connected" /\ ~ui.streaming /\ ~ui.working)

Due == pending # None /\ ui.status = "connected"

(* handleSubmit, send: now, or when a new connection is there.  React runs *)
(* the effect that sends before it handles another click.                  *)
Submit(r) ==
  /\ Fresh(r) /\ pending # r /\ CanSend /\ (Due => Swift)
  /\ IF ui.status = "connected"
     THEN /\ SendMessage(r)
          /\ todo' = IF Connected THEN Publish(todo, ui') ELSE todo
          /\ UNCHANGED <<client, link, socket, pending, bounds>>
     ELSE pending' = r /\ Connect

(* The web host's effect on the status.                                    *)
SendPending ==
  /\ ~Swift /\ Due
  /\ SendMessage(pending)
  /\ pending' = None
  /\ UNCHANGED <<client, link, socket, todo, bounds>>

Reconnect == Offline /\ Connect /\ UNCHANGED pending

(* The iPad's Disconnect button.                                           *)
Disconnect ==
  /\ Swift /\ ui.status = "connected"
  /\ link' = "none" /\ wire' = <<>>
  /\ ui' = [Dark(Forgot(ui)) EXCEPT !.status = "disconnected"]
  /\ todo' = Publish(todo, ui')
  /\ UNCHANGED <<client, socket, pending, server, bounds>>

ClearContext(c) ==
  /\ Fresh(c) /\ Connected
  /\ Swift => ui.status = "connected"
  /\ AtServer(c)
  /\ UNCHANGED <<client, link, socket, todo, ui, pending, bounds>>

User == (\E r \in Typed : Submit(r)) \/ Reconnect \/ Disconnect \/ (\E c \in Clears : ClearContext(c))
Link == Open \/ Refuse \/ Break \/ Close \/ Notice
Next == Receive \/ Observe \/ RunTask \/ Link \/ Serve \/ (\E f \in FollowUps : FollowUp(f)) \/ User \/ SendPending

(* Agents end, what was sent arrives, and a dead link is noticed; nobody   *)
(* has to do anything.                                                     *)
Fairness == WF_vars(Receive) /\ WF_vars(Observe \/ RunTask) /\ WF_vars(Serve) /\ WF_vars(Notice)
Spec == Init /\ [][Next]_vars /\ Fairness

-----------------------------------------------------------------------------
(* Every part of every message is a message typed or a chunk of a run, and *)
(* only an assistant message can be in flight.                             *)
Messages == [role : {"user"}, parts : {<<<<r, 0>>>> : r \in Typed}, streaming : {FALSE}]
            \cup [role : {"assistant"}, parts : Seq(Runs \X (1..Chunks)), streaming : BOOLEAN]
Screens == [status : {"disconnected", "connecting", "connected", "error"}, messages : Seq(Messages),
            streaming : BOOLEAN, working : BOOLEAN, thought : SUBSET Runs]
TypeOK ==
  /\ client \in Clients /\ link \in {"none", "opening", "up", "broken", "closed"}
  /\ ui \in Screens /\ pending \in Typed \cup {None} /\ tail \in Tasks \cup {None}

(* The chunks of a run on the screen: the n-th of them is part j of        *)
(* message i.                                                              *)
Shows(i, j, r, n) == ui.messages[i].parts[j] = <<r, n>> /\ n > 0
Shown(r, n) == \E i \in DOMAIN ui.messages : \E j \in DOMAIN ui.messages[i].parts : Shows(i, j, r, n)

(* What the screen shows of a run is a piece of what the run said: its     *)
(* chunks in their order, none twice and none missing in between, whatever *)
(* was lost with a link or cleared (useAgentStream.ts:154-185,             *)
(* AgentStream.swift:494-523).                                             *)
NothingSkippedOrRepeated ==
  \A r \in Runs, m, n \in 1..Chunks :
    /\ \A i, k \in DOMAIN ui.messages :
         \A j \in DOMAIN ui.messages[i].parts, l \in DOMAIN ui.messages[k].parts :
           Shows(i, j, r, m) /\ Shows(k, l, r, n) /\ (i < k \/ (i = k /\ j < l)) => m < n
    /\ Shown(r, m) /\ Shown(r, n) => \A o \in m..n : Shown(r, o)

(* In the web client, while no clear has broken the queue's chain, the     *)
(* answer to a typed message is on one message of the screen, whatever is  *)
(* typed meanwhile, and on one of its own: cut off or not it is not        *)
(* continued by the next one, unless its run failed                        *)
(* (useAgentStream.ts:158-185, 207-211, ChatView.tsx:68-69).               *)
Failed(r)  == stage[r] = "done" /\ step[r] <= Chunks
Answers(i) == {r \in Typed : \E j \in DOMAIN ui.messages[i].parts, n \in 1..Chunks : Shows(i, j, r, n)}
AnswersStayWhole ==
  (client = "web" /\ \A c \in Clears : stage[c] # "done") =>
    \A i, k \in DOMAIN ui.messages :
      IF i = k THEN \A r, s \in Answers(i) : r = s \/ Failed(r) \/ Failed(s)
      ELSE Answers(i) \cap Answers(k) = {}

(* Two things leave isStreaming, which closes the input, on: connect(),    *)
(* which drops the callbacks of the socket and keeps the flag, and a run   *)
(* that threw outside the try of its task, whose client only hears         *)
(* working = false.  Silenced: that happened to the last message typed, on *)
(* a link that is still up.                                                *)
Silent(r) == r \in MayThrow /\ stage[r] = "done" /\ step[r] = 0
Silenced ==
  /\ link = "up"
  /\ \E i \in DOMAIN ui.messages :
       /\ ui.messages[i].role = "user" /\ Silent(ui.messages[i].parts[1][1])
       /\ \A k \in DOMAIN ui.messages : k > i => ui.messages[k].role # "user"

(* Otherwise isStreaming ends: when the run does, well or with an error,   *)
(* or when its link or the conversation is lost.  (In Swift a late task    *)
(* may set it once more after disconnect().)                               *)
(* (useAgentStream.ts:101-106, 109-115, 154-156, 188-211)                  *)
StreamingEnds ==
  (ui.streaming /\ ui.status # "disconnected" /\ connects = 0) ~> (~ui.streaming \/ connects > 0 \/ Silenced)
=============================================================================
