--------------------------- MODULE AgentListener ---------------------------
(***************************************************************************)
(* The conversation side of createAgentSocketListener                      *)
(* (src/agent-streemr/src/server/listener.ts): sockets of one or several   *)
(* threads put messages, tool responses and clears to the server, which    *)
(* serialises agent runs with a ThreadQueue, tracks tool requests in a     *)
(* LocalToolRegistry, keeps one context object per agent and thread, and   *)
(* tells the client whether the agent works.                               *)
(*                                                                         *)
(* The server is one event loop.  A socket event, a timer callback or the  *)
(* end of a stream is one action, and is handled only when the reactions   *)
(* of the queue (cleanup, drain check, start of the successor, body of a   *)
(* clear) have run.  One exception is the code's: events that arrive in    *)
(* one payload are handled back to back, so a task enqueued on an idle     *)
(* queue may start after further events.                                   *)
(***************************************************************************)
EXTENDS Naturals, FiniteSets

CONSTANTS Threads, NoThread, MaxTasks,            \* see ThreadQueue
          Requests, Tools, ToolOf, Statuses,      \* see LocalToolRegistry
          EmitTtl, AwaitTtl, MaxTime, MaxDispatches,
          ThreadOf,       \* ThreadOf[r]: the thread in which r is requested
          ModeOf,         \* ModeOf[r]: sync, async or fire_and_forget
          Sockets,        \* connected sockets
          ThreadOfSocket, \* the room each socket joined
          AgentOf,        \* socketAgentId, NoAgent when the client named none
          NoAgent,
          MaxUpdates,     \* bound: context updates the host applies (onContextUpdate)
          MaxClears       \* bound: clear_context events

ASSUME ListenerAssumption ==
  /\ ThreadOfSocket \in [Sockets -> Threads]
  /\ ModeOf \in [Requests -> {"sync", "async", "fire_and_forget"}]
  /\ MaxUpdates \in Nat /\ MaxClears \in Nat

VARIABLES issued, threadOf, after, stage, pending,  \* the queue
          reg, now,                                 \* the registry
          job,       \* job[t]: what task t does, for whom
          drained,   \* tasks whose drain check has run (or that have none)
          learnt,    \* learnt[k]: tool results processors put into context k
          told,      \* told[k]: what clients put into context k: NoTask stands
                     \* for set_context, a task for the inline context of its message
          seen,      \* seen[t]: the context as the run of task t found it
          owner,     \* owner[r]: the run that made request r
          fnf,       \* fireAndForgetByThread: request ids, whatever their thread
          fnfUntil,  \* when their memory lapses
          acked,     \* requests whose response was acknowledged
          light,     \* light[s]: the last agent_working socket s was sent
          updates,   \* context updates so far
          clears     \* clear_context events so far

queueVars   == <<issued, threadOf, after, stage, pending>>
contextVars == <<learnt, told, updates>>
toolVars    == <<owner, fnf, fnfUntil, acked>>
vars == <<queueVars, reg, now, job, drained, contextVars, seen, toolVars, light, clears>>

Q == INSTANCE ThreadQueue
R == INSTANCE LocalToolRegistry

ASSUME ComponentAssumption == Q!QueueAssumption /\ R!RegistryAssumption

Tasks    == Q!Tasks
Agents   == {AgentOf[s] : s \in Sockets} \cup {NoAgent}
Contexts == Agents \X Threads        \* the keys of contextStore
NoJob    == [kind |-> "none", sock |-> "none", agent |-> NoAgent, about |-> "none",
             knew |-> {}, last |-> FALSE, done |-> FALSE]

(* contextKey(threadId, agentId) *)
ContextKey(t) == <<job[t].agent, threadOf[t]>>
SocketKey(s)  == <<AgentOf[s], ThreadOfSocket[s]>>

Facts == Tasks \cup {Q!NoTask}        \* what clients can tell

(* knew: what the context held when the message was accepted. *)
Jobs == [kind : {"none", "message", "followup", "clear"}, sock : Sockets \cup {"none"},
         agent : Agents, about : Requests \cup {"none"},
         knew : SUBSET Facts, last : BOOLEAN, done : BOOLEAN]

TypeOK ==
  /\ Q!TypeOK
  /\ R!TypeOK
  /\ job \in [Tasks -> Jobs]
  /\ drained \subseteq Tasks
  /\ learnt \in [Contexts -> SUBSET Requests]
  /\ told \in [Contexts -> SUBSET Facts]
  /\ seen \in [Tasks -> [learnt : SUBSET Requests, told : SUBSET Facts]]
  /\ owner \in [Requests -> Tasks \cup {Q!NoTask}]
  /\ fnf \subseteq Requests
  /\ fnfUntil \in [Requests -> Nat]
  /\ acked \subseteq Requests
  /\ light \in [Sockets -> BOOLEAN]
  /\ updates \in 0..MaxUpdates /\ clears \in 0..MaxClears

Init ==
  /\ Q!Init
  /\ reg = [R!Empty EXCEPT !.processors = Tools] /\ now = 0
  /\ job = [t \in Tasks |-> NoJob]
  /\ drained = {}
  /\ learnt = [k \in Contexts |-> {}]
  /\ told = [k \in Contexts |-> {}]
  /\ seen = [t \in Tasks |-> [learnt |-> {}, told |-> {}]]
  /\ owner = [r \in Requests |-> Q!NoTask]
  /\ fnf = {} /\ fnfUntil = [r \in Requests |-> 0] /\ acked = {}
  /\ light = [s \in Sockets |-> FALSE]
  /\ updates = 0 /\ clears = 0
-----------------------------------------------------------------------------
(***************************************************************************)
(* Turns of the event loop.                                                *)
(***************************************************************************)

(* Reactions still to run before the loop takes the next event. *)
Reacting ==
  \E t \in Tasks :
    \/ stage[t] = "settled"
    \/ stage[t] = "reaped" /\ t \notin drained
    \/ stage[t] = "running" /\ job[t].kind = "clear"
    \/ stage[t] = "waiting" /\ after[t] # Q!NoTask /\ Q!Released(t)

(* enqueueRun: announce work on an idle queue, then chain the run. *)
EnqueueRun(s, kind, agent, r, knew, last) ==
  /\ light' = IF Q!Has(ThreadOfSocket[s]) THEN light ELSE [light EXCEPT ![s] = TRUE]
  /\ Q!Enqueue(ThreadOfSocket[s])
  /\ job' = [job EXCEPT ![Q!NextTask] =
               [kind |-> kind, sock |-> s, agent |-> agent, about |-> r,
                knew |-> knew, last |-> last, done |-> FALSE]]

(* Seeded fault: each run gets a new context object. *)
StartRunAfresh(t) ==
  /\ after[t] # Q!NoTask => after[t] \in drained
  /\ Q!Start(t)
  /\ UNCHANGED <<reg, now, job, drained, contextVars, seen, toolVars, light, clears>>

(* getOrCreateContext hands the run the context of its key as it is now.   *)
StartRun(t) ==
  /\ after[t] # Q!NoTask => after[t] \in drained
  /\ Q!Start(t)
  /\ seen' = IF job[t].kind = "clear" THEN seen
             ELSE [seen EXCEPT ![t] = [learnt |-> learnt[ContextKey(t)],
                                       told   |-> told[ContextKey(t)]]]
  /\ UNCHANGED <<reg, now, job, drained, contextVars, toolVars, light, clears>>

(* emitLocalTool for a tracked tool; a sync tool awaits the response in    *)
(* the same breath.                                                        *)
CallTrackedTool(t, r) ==
  LET emitted == R!TrackEmit(R!ClearExpired(reg, threadOf[t], now), r, now)
  IN /\ ModeOf[r] \in {"sync", "async"}
     /\ now + AwaitTtl <= MaxTime
     /\ reg' = IF ModeOf[r] = "sync" THEN R!AwaitResponse(emitted, r, now) ELSE emitted
     /\ UNCHANGED <<fnf, fnfUntil>>

(* rememberFireAndForget: forget what has lapsed, remember r. *)
LapsedFireAndForget(th) == {q \in fnf : ThreadOf[q] = th /\ fnfUntil[q] <= now}

CallUntrackedTool(t, r) ==
  /\ ModeOf[r] = "fire_and_forget"
  /\ fnf' = (fnf \ LapsedFireAndForget(threadOf[t])) \cup {r}
  /\ fnfUntil' = [fnfUntil EXCEPT ![r] = now + EmitTtl]
  /\ UNCHANGED reg

(* A run in progress calls a tool of the client. *)
CallTool(t, r) ==
  /\ ~Reacting
  /\ stage[t] = "running" /\ threadOf[t] = ThreadOf[r] /\ owner[r] = Q!NoTask
  /\ CallTrackedTool(t, r) \/ CallUntrackedTool(t, r)
  /\ owner' = [owner EXCEPT ![r] = t]
  /\ UNCHANGED <<queueVars, now, job, drained, contextVars, seen, acked, light, clears>>

(* The stream of a run ends, normally or with an error that was reported;  *)
(* not while one of its sync tools is awaited.                             *)
FinishRun(t) ==
  /\ ~Reacting
  /\ job[t].kind # "clear"
  /\ \A r \in Requests : owner[r] = t => reg.promise[r] # "pending"
  /\ Q!Settle(t)
  /\ UNCHANGED <<reg, now, job, drained, contextVars, seen, toolVars, light, clears>>

(* The body of the task clear_context enqueued. *)
ClearBody(t) ==
  LET th  == threadOf[t]
      key == SocketKey(job[t].sock)
  IN /\ stage[t] = "running" /\ job[t].kind = "clear" /\ ~job[t].done
     /\ learnt' = [learnt EXCEPT ![key] = {}]
     /\ told' = [told EXCEPT ![key] = {}]
     /\ fnf' = {q \in fnf : ThreadOf[q] # th}
     /\ reg' = R!ClearThread(reg, th)
     /\ Q!Clear(t)
     /\ job' = [job EXCEPT ![t].done = TRUE]
     /\ UNCHANGED <<now, drained, updates, seen, owner, fnfUntil, acked, light, clears>>

FinishClear(t) ==
  /\ job[t].kind = "clear" /\ job[t].done
  /\ Q!Settle(t)
  /\ UNCHANGED <<reg, now, job, drained, contextVars, seen, toolVars, light, clears>>

Reap(t) ==
  /\ Q!Reap(t)
  /\ UNCHANGED <<reg, now, job, drained, contextVars, seen, toolVars, light, clears>>

(* Seeded fault: every run that ends is announced as the last. *)
DrainCheckOmitted(t) ==
  /\ stage[t] = "reaped" /\ t \notin drained
  /\ drained' = drained \cup {t}
  /\ light' = [light EXCEPT ![job[t].sock] = FALSE]
  /\ UNCHANGED <<queueVars, reg, now, job, contextVars, seen, toolVars, clears>>

(* The reaction enqueueRun adds: announce an idle queue. *)
DrainCheck(t) ==
  /\ stage[t] = "reaped" /\ t \notin drained
  /\ drained' = drained \cup {t}
  /\ light' = IF Q!Has(threadOf[t]) THEN light ELSE [light EXCEPT ![job[t].sock] = FALSE]
  /\ UNCHANGED <<queueVars, reg, now, job, contextVars, seen, toolVars, clears>>
-----------------------------------------------------------------------------
(***************************************************************************)
(* Socket events and the clock.                                            *)
(***************************************************************************)

(* onContextUpdate: fact goes into the context object of socket s at once. *)
Update(s, fact) ==
  /\ updates < MaxUpdates
  /\ updates' = updates + 1
  /\ told' = [told EXCEPT ![SocketKey(s)] = @ \cup {fact}]

(* Seeded fault: a message that has to wait loses its inline context. *)
MessageWhenIdle(s, inline) ==
  /\ ~Reacting
  /\ IF inline /\ ~Q!Has(ThreadOfSocket[s]) THEN Update(s, Q!NextTask) ELSE UNCHANGED <<told, updates>>
  /\ EnqueueRun(s, "message", AgentOf[s], "none",
                told[SocketKey(s)] \cup {t \in {Q!NextTask} : inline}, FALSE)
  /\ UNCHANGED <<reg, now, drained, learnt, seen, toolVars, clears>>

(* message: inline context goes into the shared context at once, the run   *)
(* waits for its turn.                                                     *)
Message(s, inline) ==
  /\ ~Reacting
  /\ IF inline THEN Update(s, Q!NextTask) ELSE UNCHANGED <<told, updates>>
  /\ EnqueueRun(s, "message", AgentOf[s], "none", told'[SocketKey(s)], FALSE)
  /\ UNCHANGED <<reg, now, drained, learnt, seen, toolVars, clears>>

(* set_context goes into the shared context at once. *)
SetContext(s) ==
  /\ ~Reacting
  /\ Update(s, Q!NoTask)
  /\ UNCHANGED <<queueVars, reg, now, job, drained, learnt, seen, toolVars, light, clears>>

(* clear_context: the clear waits for its turn like a run. *)
ClearContext(s) ==
  /\ ~Reacting
  /\ clears < MaxClears
  /\ clears' = clears + 1
  /\ Q!Enqueue(ThreadOfSocket[s])
  /\ job' = [job EXCEPT ![Q!NextTask] =
               [NoJob EXCEPT !.kind = "clear", !.sock = s, !.agent = AgentOf[s]]]
  /\ drained' = drained \cup {Q!NextTask}
  /\ UNCHANGED <<reg, now, contextVars, seen, toolVars, light>>

(* local_tool_response: sweep, hand the response to the registry, then by  *)
(* what the registry says of it.  ThreadOf[r] is the thread of s: the      *)
(* client that was asked answers.                                          *)
Refused(g, r) ==
  /\ ~R!Accepts(g, r)
  /\ fnf' = (fnf \ LapsedFireAndForget(ThreadOf[r])) \ {r}
  /\ UNCHANGED <<queueVars, job, acked, light>>

AcceptedSync(g, r) ==
  /\ R!Accepts(g, r) /\ r \in g.awaiters
  /\ acked' = acked \cup {r}
  /\ UNCHANGED <<queueVars, job, fnf, light>>

AcceptedAsync(g, h, s, r) ==
  /\ R!Accepts(g, r) /\ r \notin g.awaiters
  /\ acked' = acked \cup {r}
  /\ EnqueueRun(s, "followup", NoAgent, r, {}, R!AwaitingCount(h, ThreadOf[r]) = 0)
  /\ UNCHANGED fnf

(* Seeded fault: the handler does not sweep before it asks the registry. *)
RespondUnswept(s, r, status) ==
  LET h == R!HandleResponse(reg, r, status)
  IN /\ ~Reacting
     /\ owner[r] # Q!NoTask /\ job[owner[r]].sock = s
     /\ reg.dispatched[r] < MaxDispatches
     /\ reg' = h
     /\ learnt' = IF h.dispatched[r] > reg.dispatched[r]
                  THEN [learnt EXCEPT ![SocketKey(s)] = @ \cup {r}] ELSE learnt
     /\ Refused(reg, r) \/ AcceptedSync(reg, r) \/ AcceptedAsync(reg, h, s, r)
     /\ UNCHANGED <<now, drained, told, updates, seen, owner, fnfUntil, clears>>

Respond(s, r, status) ==
  LET g == R!ClearExpired(reg, ThreadOf[r], now)
      h == R!HandleResponse(g, r, status)
  IN /\ ~Reacting
     /\ owner[r] # Q!NoTask /\ job[owner[r]].sock = s
     /\ reg.dispatched[r] < MaxDispatches
     /\ reg' = h
     /\ learnt' = IF h.dispatched[r] > g.dispatched[r]
                  THEN [learnt EXCEPT ![SocketKey(s)] = @ \cup {r}] ELSE learnt
     /\ Refused(g, r) \/ AcceptedSync(g, r) \/ AcceptedAsync(g, h, s, r)
     /\ UNCHANGED <<now, drained, told, updates, seen, owner, fnfUntil, clears>>

(* The timer of an awaited tool fires. *)
AwaitTimesOut(r) ==
  /\ ~Reacting
  /\ R!FireTimer(r)
  /\ UNCHANGED <<queueVars, job, drained, contextVars, seen, toolVars, light, clears>>

Tick ==
  /\ ~Reacting
  /\ R!Tick
  /\ UNCHANGED <<queueVars, job, drained, contextVars, seen, toolVars, light, clears>>

TaskStep(t) ==
  StartRun(t) \/ FinishRun(t) \/ ClearBody(t) \/ FinishClear(t) \/ Reap(t) \/ DrainCheck(t)

Next ==
  \/ \E t \in Tasks : TaskStep(t)
  \/ \E t \in Tasks, r \in Requests : CallTool(t, r)
  \/ \E s \in Sockets, inline \in BOOLEAN : Message(s, inline)
  \/ \E s \in Sockets : SetContext(s) \/ ClearContext(s)
  \/ \E s \in Sockets, r \in Requests, status \in Statuses : Respond(s, r, status)
  \/ \E r \in Requests : AwaitTimesOut(r)
  \/ Tick

(* Reactions run, time passes, due timers fire, and a stream that waits    *)
(* for no tool ends.  Clients owe nothing.                                 *)
Fairness ==
  /\ \A t \in Tasks : WF_vars(TaskStep(t))
  /\ \A r \in Requests : WF_vars(AwaitTimesOut(r))
  /\ WF_vars(Tick)

Spec == Init /\ [][Next]_vars /\ Fairness
-----------------------------------------------------------------------------
(***************************************************************************)
(* Properties.                                                             *)
(***************************************************************************)
IsRun(t)    == job[t].kind \in {"message", "followup"}
Open(t)     == stage[t] \in {"waiting", "running"}
FollowUps(r) == {t \in Tasks : job[t].kind = "followup" /\ job[t].about = r}

(* PROTOCOL.md: the server processes at most one agent run at a time per   *)
(* thread, whatever mix of messages, tool responses and clears arrives.    *)
OneRunPerThread ==
  \A t, u \in Tasks :
    IsRun(t) /\ IsRun(u) /\ threadOf[t] = threadOf[u]
    /\ stage[t] = "running" /\ stage[u] = "running" => t = u

(* A thread with nothing left to do leaves no client showing a working     *)
(* agent: whoever was told working=true is told working=false.             *)
IdleThreadIsDark ==
  \A s \in Sockets :
    (\A t \in Tasks : threadOf[t] = ThreadOfSocket[s] => stage[t] = "reaped" /\ t \in drained)
      => ~light[s]

(* working=false is sent only when the queue has drained: never while a    *)
(* run of the thread is in progress or waits for its turn.                 *)
LightOutMeansDrained ==
  [][\A s \in Sockets :
       light[s] /\ ~light'[s] =>
         \A t \in Tasks : threadOf[t] = ThreadOfSocket[s] /\ IsRun(t) => ~Open(t)]_vars

(* An async response that was acknowledged leads to one follow-up run, and *)
(* a retry of it to no second one.                                         *)
OneFollowUpPerAnswer ==
  \A r \in Requests :
    Cardinality(FollowUps(r)) = IF r \in acked /\ ModeOf[r] = "async" THEN 1 ELSE 0

(* The run that follows a tool response finds in its context what the      *)
(* processor recorded for that response.                                   *)
FollowUpSeesItsResult ==
  \A t \in Tasks :
    job[t].kind = "followup" /\ stage[t] = "running" => job[t].about \in seen[t].learnt

(* What the client told with a message or before it is in the context the  *)
(* run starts with, however long the run waited for its turn.              *)
ContextReachesRun ==
  \A t \in Tasks : stage[t] = "running" => job[t].knew \subseteq seen[t].told

(* A response that comes after the request expired is not accepted: no     *)
(* acknowledgement, no follow-up run.                                      *)
NoLateAcceptance ==
  [][\A r \in Requests :
       reg'.answers[r] # reg.answers[r] => now < reg.expiresAt[r]]_vars

(* A run whose client never answers still ends, and so does everything     *)
(* queued behind it.                                                       *)
EveryTaskEnds == \A t \in Tasks : stage[t] = "waiting" ~> stage[t] = "reaped"

=============================================================================
