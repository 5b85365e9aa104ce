---------------------------- MODULE ToolHandler ----------------------------
(***************************************************************************)
(* A tool request on its way to the client and back: the tool the agent    *)
(* calls (langchain/localTool.ts), the registry and the response handler   *)
(* of the server, the connection, and one of three clients: the hooks      *)
(* useLocalToolHandler and useLocalToolFallback of React, Swift's          *)
(* LocalToolCoordinator, and Swift's executeApprovedTool, which runs what  *)
(* a user has allowed.                                                     *)
(*                                                                         *)
(* In React the listeners of an event run in one turn: the hook as far as  *)
(* its first await, then the fallback.  The coordinator is an actor: its   *)
(* methods run one at a time, from one await to the next.  The allow list  *)
(* and the tool's own handler take as long as they like.                   *)
(*                                                                         *)
(* A connection delivers in order and loses what is in flight when it      *)
(* breaks.  What the client emits while it reconnects is kept by           *)
(* socket.io-client and sent on the next connection, and thrown away by    *)
(* the Swift socket; the server keeps nothing.                             *)
(***************************************************************************)
EXTENDS Naturals, Sequences, FiniteSets

CONSTANTS Threads, Requests, ThreadOf, Tools, ToolOf, Statuses,
          EmitTtl, AwaitTtl, MaxTime, MaxDispatches,  \* see LocalToolRegistry
          Settings,       \* tools and clients to look at
          Second,         \* the safety margin of the retry
          MaxConnections, \* bound: connections
          MaxUnmounts     \* bound: times the handler hook is unmounted

(* mode: the mode of each request's tool; wired: the runner hands the tools *)
(* emit and registry; sdk: the client; hook: it handles these tools;       *)
(* fallback: it answers for any tool (useLocalToolFallback) or for those it*)
(* does not handle (the coordinator, the web client); retry: retryOnNoAck; *)
(* results: what its handlers return, by the discriminants they set.  A    *)
(* response says what it is by one of four fields.                         *)
Modes       == {"sync", "async", "fire_and_forget"}
StatusOf    == [response_json |-> "success", allowed |-> "denied",
                notSupported |-> "not_supported", error |-> "error"]
Discriminants == DOMAIN StatusOf

AllSettings == [mode : [Requests -> Modes], wired : BOOLEAN, hook : BOOLEAN, retry : BOOLEAN,
                fallback : {"none", "any", "unhandled"}, sdk : {"react", "coordinator", "approved"},
                results : SUBSET (SUBSET Discriminants)]

ASSUME HandlerAssumption ==
  /\ Settings \subseteq AllSettings
  /\ {StatusOf[d] : d \in Discriminants} \subseteq Statuses
  /\ Second \in Nat /\ MaxConnections \in Nat \ {0} /\ MaxUnmounts \in Nat

VARIABLES reg, now,   \* the server's registry and the clock
          asked,      \* requests that were emitted
          setting,    \* which of Settings this is; it never changes
          up, conn,   \* the connection is up; connections so far
          s2c, c2s,   \* packets in flight
          outbox,     \* what the client emitted while it was not connected
          mounted, unmounts,
          stage,      \* stage[r]: how far the hook has come with r
          answered,   \* answered[r]: what the handler's side emitted for r
          armed,      \* pendingAcksRef: requests with a retry timer
          retryAt,    \* when the timer of r is due
          repeated,   \* responses that were emitted again
          due,        \* responses emitted early enough to be repeated
          heard       \* acknowledgements the hook received

wire == <<up, conn, s2c, c2s, outbox>>
hook == <<mounted, unmounts, stage, answered, armed, retryAt, repeated, due, heard>>
vars == <<reg, now, asked, setting, wire, hook>>

R == INSTANCE LocalToolRegistry

ASSUME ComponentAssumption == R!RegistryAssumption

React       == setting.sdk = "react"
Approves    == setting.sdk = "approved"
Tracked(r)  == setting.mode[r] \in {"sync", "async"}
Deadline(r) == reg.expiresAt[r]        \* expires_at of the request
Stages      == {"none", "checking", "handling", "over"}

Packets  == [id : Requests, active : SUBSET Discriminants]
Incoming == [kind : {"ask", "ack"}, id : Requests]

TypeOK ==
  /\ R!TypeOK
  /\ asked \subseteq Requests
  /\ setting \in Settings
  /\ up \in BOOLEAN /\ conn \in 1..MaxConnections
  /\ s2c \in Seq(Incoming) /\ c2s \in Seq(Packets) /\ outbox \in Seq(Packets)
  /\ mounted \in BOOLEAN /\ unmounts \in 0..MaxUnmounts
  /\ stage \in [Requests -> Stages]
  /\ answered \in [Requests -> SUBSET Discriminants]
  /\ armed \subseteq Requests /\ retryAt \in [Requests -> Nat]
  /\ repeated \subseteq Requests /\ due \subseteq Requests /\ heard \subseteq Requests
  /\ \A r \in armed : Tracked(r) /\ stage[r] = "over"

Init ==
  /\ reg = R!Empty /\ now = 0
  /\ asked = {}
  /\ setting \in Settings
  /\ up = TRUE /\ conn = 1 /\ s2c = <<>> /\ c2s = <<>> /\ outbox = <<>>
  /\ mounted = setting.hook /\ unmounts = 0
  /\ stage = [r \in Requests |-> "none"]
  /\ answered = [r \in Requests |-> {}]
  /\ armed = {} /\ retryAt = [r \in Requests |-> 0]
  /\ repeated = {} /\ due = {} /\ heard = {}
-----------------------------------------------------------------------------
(***************************************************************************)
(* The server.                                                             *)
(***************************************************************************)

(* A run calls a tool; without emit or registry it returns a placeholder.  *)
(* The request is lost when the socket of the run is not, or no longer, the *)
(* client's connection.  The clock must be able to reach the deadline,     *)
(* hence the bound.                                                        *)
Ask(r, arrives) ==
  /\ r \notin asked
  /\ now + EmitTtl <= MaxTime
  /\ asked' = asked \cup {r}
  /\ arrives => up
  /\ ~arrives => ~up \/ conn > 1
  /\ LET emitted == R!TrackEmit(R!ClearExpired(reg, ThreadOf[r], now), r, now)
     IN reg' = CASE ~setting.wired -> reg
                 [] setting.mode[r] = "sync"  -> R!AwaitResponse(emitted, r, now)
                 [] setting.mode[r] = "async" -> emitted
                 [] OTHER               -> reg
  /\ s2c' = IF arrives /\ setting.wired THEN Append(s2c, [kind |-> "ask", id |-> r]) ELSE s2c
  /\ UNCHANGED <<now, setting, up, conn, c2s, outbox, hook>>

(* The status of a response with exactly one discriminant; others are      *)
(* ignored.                                                                *)
Parsed(p) == IF Cardinality(p.active) = 1 THEN StatusOf[CHOOSE d \in p.active : TRUE] ELSE R!None

(* Seeded fault: the acknowledgement only says that the response came in. *)
HandleResponseAcksAll ==
  /\ c2s # <<>>
  /\ c2s' = Tail(c2s)
  /\ LET p == Head(c2s)
         g == R!ClearExpired(reg, ThreadOf[p.id], now)
     IN /\ reg' = IF Parsed(p) = R!None THEN g ELSE R!HandleResponse(g, p.id, Parsed(p))
        /\ s2c' = Append(s2c, [kind |-> "ack", id |-> p.id])
  /\ UNCHANGED <<now, asked, setting, up, conn, outbox, hook>>

(* local_tool_response: sweep, parse, hand over, acknowledge what was      *)
(* accepted.                                                               *)
HandleResponse ==
  /\ c2s # <<>>
  /\ c2s' = Tail(c2s)
  /\ LET p == Head(c2s)
         g == R!ClearExpired(reg, ThreadOf[p.id], now)
     IN /\ reg' = IF Parsed(p) = R!None THEN g ELSE R!HandleResponse(g, p.id, Parsed(p))
        /\ s2c' = IF Parsed(p) # R!None /\ R!Accepts(g, p.id) THEN Append(s2c, [kind |-> "ack", id |-> p.id]) ELSE s2c
  /\ UNCHANGED <<now, asked, setting, up, conn, outbox, hook>>

AwaitTimesOut(r) ==
  /\ R!FireTimer(r)
  /\ UNCHANGED <<asked, setting, wire, hook>>

Tick ==
  /\ R!Tick
  /\ UNCHANGED <<asked, setting, wire, hook>>
-----------------------------------------------------------------------------
(***************************************************************************)
(* The connection.                                                         *)
(***************************************************************************)
LinkLost ==
  /\ up
  /\ up' = FALSE
  /\ s2c' = <<>> /\ c2s' = <<>>
  /\ UNCHANGED <<reg, now, asked, setting, conn, outbox, hook>>

LinkUp ==
  /\ ~up /\ conn < MaxConnections
  /\ up' = TRUE /\ conn' = conn + 1
  /\ c2s' = outbox /\ outbox' = <<>>
  /\ UNCHANGED <<reg, now, asked, setting, s2c, hook>>

(* socket.emit("local_tool_response", ...) *)
Emit(packets) ==
  /\ c2s' = IF up THEN c2s \o packets ELSE c2s
  /\ outbox' = IF ~up /\ React THEN outbox \o packets ELSE outbox
-----------------------------------------------------------------------------
(***************************************************************************)
(* The client.                                                             *)
(***************************************************************************)
Response(r, active) == [id |-> r, active |-> active]

(* onLocalTool, handle up to the first await: skip what has expired.  The  *)
(* user's approval has no such gate.                                       *)
Takes(r) == Approves \/ (mounted /\ (Tracked(r) => now < Deadline(r)))

(* onFallback, in the same turn.  The web client's answers whatever the    *)
(* tool's mode.                                                            *)
FallbackAnswers(r) ==
  \/ setting.fallback = "any" /\ Tracked(r)
  \/ setting.fallback = "unhandled" /\ ~setting.hook /\ (React \/ Tracked(r))

ReceiveRequest ==
  /\ s2c # <<>> /\ Head(s2c).kind = "ask"
  /\ s2c' = Tail(s2c)
  /\ LET r == Head(s2c).id
     IN /\ stage' = IF Takes(r) THEN [stage EXCEPT ![r] = "checking"] ELSE stage
        /\ IF FallbackAnswers(r) THEN Emit(<<Response(r, {"notSupported"})>>)
                                 ELSE UNCHANGED <<c2s, outbox>>
  /\ UNCHANGED <<reg, now, asked, setting, up, conn, mounted, unmounts, answered,
                 armed, retryAt, repeated, due, heard>>

(* The allow list decides; without one everything is allowed, and what it  *)
(* does not know is denied.  A user's refusal is told whatever the mode,   *)
(* and approving a tool nobody has registered tells nobody anything.       *)
Decide(r, decision) ==
  /\ stage[r] = "checking" /\ (Approves => decision # "expired")
  /\ stage' = [stage EXCEPT ![r] = IF decision = "allowed" /\ (Approves => mounted)
                                   THEN "handling" ELSE "over"]
  /\ IF decision = "denied" /\ (Tracked(r) \/ Approves)
     THEN /\ answered' = [answered EXCEPT ![r] = {"allowed"}]
          /\ Emit(<<Response(r, {"allowed"})>>)
     ELSE UNCHANGED <<answered, c2s, outbox>>
  /\ UNCHANGED <<reg, now, asked, setting, up, conn, s2c, mounted, unmounts,
                 armed, retryAt, repeated, due, heard>>

(* The handler returns, or throws: emit the response and arm the retry.    *)
(* Swift builds the response from an enum, React from any object.          *)
Retriable(r) == setting.retry /\ ~Approves /\ now + Second < Deadline(r)

Finish(r, active) ==
  /\ stage[r] = "handling"
  /\ React \/ Cardinality(active) = 1
  /\ stage' = [stage EXCEPT ![r] = "over"]
  /\ IF Tracked(r) \/ Approves
     THEN /\ answered' = [answered EXCEPT ![r] = active]
          /\ Emit(<<Response(r, active)>>)
          /\ armed' = IF Retriable(r) THEN armed \cup {r} ELSE armed
          /\ retryAt' = IF Retriable(r) THEN [retryAt EXCEPT ![r] = Deadline(r) - Second]
                        ELSE retryAt
          /\ due' = IF Retriable(r) THEN due \cup {r} ELSE due
     ELSE UNCHANGED <<answered, c2s, outbox, armed, retryAt, due>>
  /\ UNCHANGED <<reg, now, asked, setting, up, conn, s2c, mounted, unmounts,
                 repeated, heard>>

(* Seeded fault: the retry reports what the hook gives up with. *)
RetryFiresAfresh(r) ==
  /\ r \in armed /\ retryAt[r] <= now
  /\ armed' = armed \ {r}
  /\ repeated' = repeated \cup {r}
  /\ Emit(<<Response(r, {"notSupported"})>>)
  /\ UNCHANGED <<reg, now, asked, setting, up, conn, s2c, mounted, unmounts,
                 stage, answered, retryAt, due, heard>>

(* The retry timer: the same response once more. *)
RetryFires(r) ==
  /\ r \in armed /\ retryAt[r] <= now
  /\ armed' = armed \ {r}
  /\ repeated' = repeated \cup {r}
  /\ Emit(<<Response(r, answered[r])>>)
  /\ UNCHANGED <<reg, now, asked, setting, up, conn, s2c, mounted, unmounts,
                 stage, answered, retryAt, due, heard>>

(* Seeded fault: an acknowledgement cancels every timer of the hook. *)
ReceiveAckCancelsAll ==
  /\ s2c # <<>> /\ Head(s2c).kind = "ack"
  /\ s2c' = Tail(s2c)
  /\ armed' = IF mounted THEN {} ELSE armed
  /\ heard' = IF mounted THEN heard \cup {Head(s2c).id} ELSE heard
  /\ UNCHANGED <<reg, now, asked, setting, up, conn, c2s, outbox, mounted, unmounts,
                 stage, answered, retryAt, repeated, due>>

(* Seeded fault: the acknowledgement is noted, the timer runs on. *)
ReceiveAckLeavesTimer ==
  /\ s2c # <<>> /\ Head(s2c).kind = "ack"
  /\ s2c' = Tail(s2c)
  /\ heard' = IF mounted THEN heard \cup {Head(s2c).id} ELSE heard
  /\ UNCHANGED <<reg, now, asked, setting, up, conn, c2s, outbox, mounted, unmounts,
                 stage, answered, armed, retryAt, repeated, due>>

(* onAck *)
ReceiveAck ==
  /\ s2c # <<>> /\ Head(s2c).kind = "ack"
  /\ s2c' = Tail(s2c)
  /\ armed' = IF mounted THEN armed \ {Head(s2c).id} ELSE armed
  /\ heard' = IF mounted THEN heard \cup {Head(s2c).id} ELSE heard
  /\ UNCHANGED <<reg, now, asked, setting, up, conn, c2s, outbox, mounted, unmounts,
                 stage, answered, retryAt, repeated, due>>

(* The effect's cleanup: no listeners, no timers.  What awaits goes on.    *)
Unmount ==
  /\ React /\ mounted /\ unmounts < MaxUnmounts
  /\ mounted' = FALSE /\ unmounts' = unmounts + 1
  /\ armed' = {}
  /\ UNCHANGED <<reg, now, asked, setting, wire, stage, answered, retryAt, repeated,
                 due, heard>>

Mount ==
  /\ ~mounted /\ setting.hook
  /\ mounted' = TRUE
  /\ UNCHANGED <<reg, now, asked, setting, wire, unmounts, stage, answered, armed,
                 retryAt, repeated, due, heard>>

Next ==
  \/ \E r \in Requests, arrives \in BOOLEAN : Ask(r, arrives)
  \/ HandleResponse
  \/ \E r \in Requests : AwaitTimesOut(r) \/ RetryFires(r)
  \/ Tick \/ LinkLost \/ LinkUp
  \/ ReceiveRequest \/ ReceiveAck
  \/ \E r \in Requests, decision \in {"allowed", "denied", "expired"} : Decide(r, decision)
  \/ \E r \in Requests, active \in setting.results : Finish(r, active)
  \/ Unmount \/ Mount

(* Time passes, due timers fire, and a connection that stays up delivers.  *)
(* Allow lists, handlers and reconnects owe nothing.                       *)
Fairness ==
  /\ WF_vars(Tick) /\ WF_vars(HandleResponse) /\ WF_vars(ReceiveRequest) /\ WF_vars(ReceiveAck)
  /\ \A r \in Requests : WF_vars(AwaitTimesOut(r)) /\ WF_vars(RetryFires(r))

Safety == Init /\ [][Next]_vars
Spec   == Safety /\ Fairness
-----------------------------------------------------------------------------
(***************************************************************************)
(* Properties.                                                             *)
(***************************************************************************)

(* A client that was told its response has arrived may forget it: the      *)
(* registry has accepted a response to that request.                       *)
AckedMeansAccepted == \A r \in heard : reg.answers[r] > 0

(* The answer the agent works with is the one of the hook that took the    *)
(* request, repeated or not; the fallback is for requests nobody takes.    *)
HandlerAnswerPrevails ==
  \A r \in Requests :
    stage[r] # "none" /\ reg.answer[r] # R!None => answered[r] # {} /\ reg.answer[r] = Parsed(Response(r, answered[r]))

(* A response that was acknowledged is not sent again.                     *)
NoRepeatAfterAck == [][\A r \in repeated' \ repeated : r \notin heard]_vars

(* A response that was sent in time and may have been lost is sent again,  *)
(* unless the hook is unmounted.                                           *)
LostAnswerIsRepeated ==
  \A r \in Requests : r \in due ~> r \in repeated \cup heard \/ unmounts > 0
=============================================================================
