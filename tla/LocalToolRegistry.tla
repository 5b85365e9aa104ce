------------------------- MODULE LocalToolRegistry -------------------------
(***************************************************************************)
(* The in-flight tool requests of                                          *)
(* src/agent-streemr/src/server/registry.ts.                               *)
(*                                                                         *)
(* A request is an id the server made up (a random UUID) for one thread    *)
(* and one tool, so ThreadOf and ToolOf are constants.  The maps keyed by  *)
(* thread and request are sets and functions over requests: an inner map   *)
(* that is empty and one that is absent are the same thing, as the code    *)
(* removes empty ones.                                                     *)
(*                                                                         *)
(* The methods are operators from a registry to a registry, because the    *)
(* socket listener runs several of them in one turn of the event loop.     *)
(* The actions call them one at a time, in any order a caller may.         *)
(***************************************************************************)
EXTENDS Integers, FiniteSets

CONSTANTS Threads,      \* conversation threads
          Requests,     \* request ids, each used for one trackEmit
          ThreadOf,     \* ThreadOf[r]: the thread r is emitted for
          Tools,        \* tool names
          ToolOf,       \* ToolOf[r]: the tool r calls
          Statuses,     \* the statuses a client answers with
          EmitTtl,      \* ttlMs of trackEmit
          AwaitTtl,     \* ttlMs of awaitResponse
          MaxTime,      \* bound: the clock stops here
          MaxDispatches \* bound: processor calls per request

None     == "none"
Failures == {"timeout", "cleared"}
Outcomes == Statuses \cup Failures

ASSUME RegistryAssumption ==
  /\ ThreadOf \in [Requests -> Threads]
  /\ ToolOf \in [Requests -> Tools]
  /\ EmitTtl \in Nat /\ AwaitTtl \in Nat /\ MaxTime \in Nat /\ MaxDispatches \in Nat
  /\ Statuses \cap (Failures \cup {None, "pending"}) = {}

VARIABLES reg,  \* the registry, and what it did to its callers
          now   \* Date.now(), in steps of a clock

vars == <<reg, now>>

Registry ==
  [ processors : SUBSET Tools,                           \* names in _processors
    emitted    : SUBSET Requests,                        \* ids made up so far
    awaiting   : SUBSET Requests,                        \* _awaiting
    expiresAt  : [Requests -> Nat],                      \* AwaitingEntry.expiresAtMs
    awaiters   : SUBSET Requests,                        \* _syncAwaiters
    timers     : SUBSET Requests,                        \* armed setTimeout handles
    firesAt    : [Requests -> Nat],                      \* when they are due
    early      : [Requests -> Statuses \cup {None}],     \* _earlyResults
    promise    : [Requests -> Outcomes \cup {None, "pending"}], \* what awaitResponse returned
    resolves   : [Requests -> Nat],                      \* calls of resolve on it
    answers    : [Requests -> Nat],                      \* responses that were not refused
    answer     : [Requests -> Statuses \cup {None}],     \* the last of those
    dispatched : [Requests -> Nat],                      \* processor calls
    dropped    : SUBSET Requests ]                       \* early results clearThread threw away

TypeOK == reg \in Registry /\ now \in Nat

Empty ==
  [ processors |-> {}, emitted |-> {}, awaiting |-> {}, awaiters |-> {}, timers |-> {},
    expiresAt  |-> [r \in Requests |-> 0],
    firesAt    |-> [r \in Requests |-> 0],
    early      |-> [r \in Requests |-> None],
    promise    |-> [r \in Requests |-> None],
    resolves   |-> [r \in Requests |-> 0],
    answers    |-> [r \in Requests |-> 0],
    answer     |-> [r \in Requests |-> None],
    dispatched |-> [r \in Requests |-> 0],
    dropped    |-> {} ]
-----------------------------------------------------------------------------
(***************************************************************************)
(* The methods.                                                            *)
(***************************************************************************)
Of(th) == {r \in Requests : ThreadOf[r] = th}

(* getAwaitingCount(threadId) *)
AwaitingCount(g, th) == Cardinality(g.awaiting \cap Of(th))

(* resolve(value) on the promises of R: a promise settles once. *)
Resolve(g, R, value) ==
  [g EXCEPT
    !.promise  = [r \in Requests |-> IF r \in R /\ g.promise[r] = "pending"
                                     THEN value ELSE g.promise[r]],
    !.resolves = [r \in Requests |-> IF r \in R THEN g.resolves[r] + 1 ELSE g.resolves[r]]]

(* Seeded fault: the entry is born expired. *)
TrackEmitBackwards(g, r, t) ==
  [g EXCEPT !.emitted      = @ \cup {r},
            !.awaiting     = @ \cup {r},
            !.expiresAt[r] = t - EmitTtl]

(* trackEmit *)
TrackEmit(g, r, t) ==
  [g EXCEPT !.emitted      = @ \cup {r},
            !.awaiting     = @ \cup {r},
            !.expiresAt[r] = t + EmitTtl]

(* Seeded fault: the early result is not looked at. *)
AwaitResponseIgnoresEarly(g, r, t) ==
  [g EXCEPT !.promise[r]  = "pending",
            !.awaiters    = @ \cup {r},
            !.timers      = @ \cup {r},
            !.firesAt[r]  = t + AwaitTtl]

(* awaitResponse: take the early result, or wait for an answer or the timer. *)
AwaitResponse(g, r, t) ==
  IF g.early[r] # None
  THEN [g EXCEPT !.early[r]    = None,
                 !.promise[r]  = g.early[r],
                 !.resolves[r] = @ + 1]
  ELSE [g EXCEPT !.promise[r]  = "pending",
                 !.awaiters    = @ \cup {r},
                 !.timers      = @ \cup {r},
                 !.firesAt[r]  = t + AwaitTtl]

(* Seeded fault: the timer leaves the request on _awaiting. *)
TimeoutKeepsEntry(g, r) ==
  Resolve([g EXCEPT !.timers = @ \ {r}, !.awaiters = @ \ {r}], {r}, "timeout")

(* The callback of the timer awaitResponse armed. *)
Timeout(g, r) ==
  Resolve([g EXCEPT !.timers   = @ \ {r},
                    !.awaiters = @ \ {r},
                    !.awaiting = @ \ {r}],
          {r}, "timeout")

(* The processor runs whenever the thread awaits anything at all. *)
Dispatch(g, r) ==
  IF ToolOf[r] \in g.processors /\ g.awaiting \cap Of(ThreadOf[r]) # {}
  THEN [g EXCEPT !.dispatched[r] = @ + 1]
  ELSE g

(* handleResponse returns a result, not null. *)
Accepts(g, r) ==
  /\ g.awaiting \cap Of(ThreadOf[r]) # {}
  /\ r \in g.awaiters \cup g.awaiting

(* Seeded fault: the request stays on _awaiting once it is answered. *)
DeliverKeepsEntry(g, r, status) ==
  LET a == [g EXCEPT !.answers[r] = @ + 1, !.answer[r] = status]
  IN IF r \in g.awaiters
     THEN Resolve([a EXCEPT !.awaiters = @ \ {r}, !.timers = @ \ {r}], {r}, status)
     ELSE [a EXCEPT !.early[r] = status]

(* Seeded fault: no clearTimeout when the response wins the race. *)
DeliverLeavesTimer(g, r, status) ==
  LET a == [g EXCEPT !.awaiting   = @ \ {r},
                     !.answers[r] = @ + 1,
                     !.answer[r]  = status]
  IN IF r \in g.awaiters
     THEN Resolve([a EXCEPT !.awaiters = @ \ {r}], {r}, status)
     ELSE [a EXCEPT !.early[r] = status]

(* An accepted response goes to the awaiter if there is one, and is kept   *)
(* for an awaiter to come if not.                                          *)
Deliver(g, r, status) ==
  LET a == [g EXCEPT !.awaiting   = @ \ {r},
                     !.answers[r] = @ + 1,
                     !.answer[r]  = status]
  IN IF r \in g.awaiters
     THEN Resolve([a EXCEPT !.awaiters = @ \ {r}, !.timers = @ \ {r}], {r}, status)
     ELSE [a EXCEPT !.early[r] = status]

(* handleResponse *)
HandleResponse(g, r, status) ==
  LET d == Dispatch(g, r) IN IF Accepts(g, r) THEN Deliver(d, r, status) ELSE d

(* clearExpired(threadId, nowMs) *)
Expired(g, th, t) == {r \in g.awaiting \cap Of(th) : g.expiresAt[r] <= t}

(* Seeded fault: a sweep drops the awaiter and forgets to resolve it. *)
ClearExpiredStrands(g, th, t) ==
  LET E == Expired(g, th, t)
      W == E \cap g.awaiters
  IN [g EXCEPT !.awaiting = @ \ E, !.awaiters = @ \ W, !.timers = @ \ W]

ClearExpired(g, th, t) ==
  LET E == Expired(g, th, t)
      W == E \cap g.awaiters
  IN Resolve([g EXCEPT !.awaiting = @ \ E, !.awaiters = @ \ W, !.timers = @ \ W],
             W, "timeout")

(* Seeded fault: clearing a thread leaves the timers armed. *)
ClearThreadLeavesTimers(g, th) ==
  LET W == g.awaiters \cap Of(th)
      D == {r \in Of(th) : g.early[r] # None}
  IN Resolve([g EXCEPT !.awaiting = @ \ Of(th),
                       !.awaiters = @ \ W,
                       !.early    = [r \in Requests |-> IF r \in D THEN None ELSE g.early[r]],
                       !.dropped  = @ \cup D],
             W, "cleared")

(* clearThread(threadId) *)
ClearThread(g, th) ==
  LET W == g.awaiters \cap Of(th)
      D == {r \in Of(th) : g.early[r] # None}
  IN Resolve([g EXCEPT !.awaiting = @ \ Of(th),
                       !.awaiters = @ \ W,
                       !.timers   = @ \ W,
                       !.early    = [r \in Requests |-> IF r \in D THEN None ELSE g.early[r]],
                       !.dropped  = @ \cup D],
             W, "cleared")
-----------------------------------------------------------------------------
(***************************************************************************)
(* The actions.                                                            *)
(***************************************************************************)
Init == reg = Empty /\ now = 0

Register(tn) ==
  /\ reg' = [reg EXCEPT !.processors = @ \cup {tn}]
  /\ UNCHANGED now

Emit(r) ==
  /\ r \notin reg.emitted
  /\ reg' = TrackEmit(reg, r, now)
  /\ UNCHANGED now

(* A caller awaits a request it emitted, at most once. *)
Await(r) ==
  /\ r \in reg.emitted
  /\ reg.promise[r] = None
  /\ reg' = AwaitResponse(reg, r, now)
  /\ UNCHANGED now

(* A response arrives; the client may send it again, and may be late. *)
Respond(r, status) ==
  /\ r \in reg.emitted
  /\ reg.dispatched[r] < MaxDispatches
  /\ reg' = HandleResponse(reg, r, status)
  /\ UNCHANGED now

FireTimer(r) ==
  /\ r \in reg.timers
  /\ reg.firesAt[r] <= now
  /\ reg' = Timeout(reg, r)
  /\ UNCHANGED now

Sweep(th) ==
  /\ reg' = ClearExpired(reg, th, now)
  /\ UNCHANGED now

Forget(th) ==
  /\ reg' = ClearThread(reg, th)
  /\ UNCHANGED now

Tick ==
  /\ now < MaxTime
  /\ now' = now + 1
  /\ UNCHANGED reg

Next ==
  \/ \E tn \in Tools : Register(tn)
  \/ \E r \in Requests : Emit(r) \/ Await(r) \/ FireTimer(r)
  \/ \E r \in Requests, status \in Statuses : Respond(r, status)
  \/ \E th \in Threads : Sweep(th) \/ Forget(th)
  \/ Tick

(* Time passes and due timers fire; nobody owes a response or a sweep. *)
Fairness == WF_vars(Tick) /\ \A r \in Requests : WF_vars(FireTimer(r))

Safety == Init /\ [][Next]_vars
Spec   == Safety /\ Fairness
-----------------------------------------------------------------------------
(***************************************************************************)
(* Properties.                                                             *)
(***************************************************************************)

(* A caller that waits is always reachable: its promise is pending exactly *)
(* while an awaiter is on the map and its timer is armed.  An awaiter      *)
(* dropped without its promise would hang a run; a timer left behind would *)
(* fire into a request that is over.                                       *)
WaitersAreReachable ==
  \A r \in Requests : /\ reg.promise[r] = "pending" <=> r \in reg.awaiters
                      /\ r \in reg.awaiters <=> r \in reg.timers

(* Response, timer, sweep and clear race for a promise; exactly one of     *)
(* them resolves it.                                                       *)
ResolvedOnce ==
  \A r \in Requests :
    reg.resolves[r] = IF reg.promise[r] \in {None, "pending"} THEN 0 ELSE 1

(* A client that repeats its response because the acknowledgement is late  *)
(* gets it accepted once, so there is one follow-up run for it.  (Where    *)
(* the thread was cleared between an early answer and the await, the       *)
(* request is waited for afresh and takes one more.)                       *)
AnsweredOnce == \A r \in Requests : r \notin reg.dropped => reg.answers[r] <= 1

(* No lost wake-up: a result stored for a caller to come is never stored   *)
(* while that caller is already waiting, and never beside a live request.  *)
NoLostWakeup ==
  \A r \in Requests : reg.early[r] # None => r \notin reg.awaiting /\ reg.promise[r] = None

(* The caller of awaitResponse learns the answer the registry accepted,    *)
(* whether it came before or after the call, unless the thread was cleared *)
(* in between.                                                             *)
AcceptedAnswerReachesCaller ==
  \A r \in Requests :
    reg.answer[r] # None /\ reg.promise[r] # None /\ r \notin reg.dropped
      => reg.promise[r] = reg.answer[r]

(* An await ends: the run that made it does not hang, answer or not.  The  *)
(* clock must be able to reach the deadline, hence the bound.              *)
EveryAwaitEnds ==
  \A r \in Requests :
    reg.promise[r] = "pending" /\ reg.firesAt[r] <= MaxTime ~> reg.promise[r] \in Outcomes
=============================================================================
