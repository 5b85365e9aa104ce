---------------------- MODULE LocalToolRegistryProofs ----------------------
(***************************************************************************)
(* Proofs about the tool registry for any threads, requests, statuses and  *)
(* ttls: every method keeps the registry well formed (its lemma), hence    *)
(* every behaviour does, whatever order the methods are called in.         *)
(***************************************************************************)
EXTENDS LocalToolRegistry, TLAPS

(* What holds of one request at any time.  The parts: an id nobody emitted *)
(* is nowhere; pending promise, awaiter and timer go together, and a live  *)
(* request has no settled promise; a promise was resolved once if it is    *)
(* settled; an early result has nobody waiting; an accepted answer is with *)
(* the caller, or kept for it.                                             *)
Unused(g, r) ==
  r \notin g.emitted =>
    r \notin g.awaiting /\ g.promise[r] = None /\ g.early[r] = None /\ g.answers[r] = 0

Reachable(g, r) ==
  /\ g.promise[r] = "pending" <=> r \in g.awaiters
  /\ r \in g.awaiters <=> r \in g.timers
  /\ r \in g.awaiting => g.promise[r] \in {None, "pending"}

Resolved(g, r) == g.resolves[r] = IF g.promise[r] \in {None, "pending"} THEN 0 ELSE 1

Kept(g, r) == g.early[r] # None => r \notin g.awaiting /\ g.promise[r] = None

Answered(g, r) ==
  /\ g.answer[r] # None <=> g.answers[r] # 0
  /\ r \notin g.dropped /\ g.answers[r] # 0 =>
       /\ g.answers[r] = 1
       /\ r \notin g.awaiting
       /\ g.promise[r] = g.answer[r] \/ (g.promise[r] = None /\ g.early[r] = g.answer[r])

SoundAt(g, r) ==
  Unused(g, r) /\ Reachable(g, r) /\ Resolved(g, r) /\ Kept(g, r) /\ Answered(g, r)

Sound(g) == g \in Registry /\ \A r \in Requests : SoundAt(g, r)

-----------------------------------------------------------------------------
(* The empty registry is well formed. *)
LEMMA EmptySound == Sound(Empty)
  BY RegistryAssumption
  DEF Sound, Registry, Empty, SoundAt, Unused, Reachable, Resolved, Kept, Answered, None

(* trackEmit keeps the registry well formed when the id is new. *)
LEMMA TrackEmitSound ==
  ASSUME NEW g, Sound(g), NEW r \in Requests, r \notin g.emitted, NEW t \in Nat
  PROVE  Sound(TrackEmit(g, r, t))
<1> DEFINE h == TrackEmit(g, r, t)
<1>1. g \in Registry /\ \A q \in Requests : SoundAt(g, q)
  BY DEF Sound
<1>2. h \in Registry
  <2>1. t + EmitTtl \in Nat
    BY RegistryAssumption
  <2>2. [g.expiresAt EXCEPT ![r] = t + EmitTtl] \in [Requests -> Nat]
    BY <1>1, <2>1 DEF Registry
  <2> QED
    BY <1>1, <2>1 DEF TrackEmit, Registry
<1>3. /\ h.emitted = g.emitted \cup {r} /\ h.awaiting = g.awaiting \cup {r}
      /\ h.awaiters = g.awaiters /\ h.timers = g.timers /\ h.early = g.early
      /\ h.promise = g.promise /\ h.resolves = g.resolves /\ h.answers = g.answers
      /\ h.answer = g.answer /\ h.dropped = g.dropped
  BY <1>1 DEF TrackEmit, Registry
<1> HIDE DEF h
<1>4. ASSUME NEW q \in Requests PROVE SoundAt(h, q)
  BY <1>1, <1>3 DEF SoundAt, Unused, Reachable, Resolved, Kept, Answered
<1> QED
  BY <1>2, <1>4 DEF Sound, h

(* awaitResponse keeps the registry well formed for a first await. *)
LEMMA AwaitResponseSound ==
  ASSUME NEW g, Sound(g), NEW r \in Requests, r \in g.emitted, g.promise[r] = None, NEW t \in Nat
  PROVE  Sound(AwaitResponse(g, r, t))
<1> DEFINE h == AwaitResponse(g, r, t)
<1>1. g \in Registry /\ \A q \in Requests : SoundAt(g, q)
  BY DEF Sound
<1>2. CASE g.early[r] # None
  <2>1. g.resolves[r] + 1 \in Nat /\ g.early[r] \in Outcomes /\ g.early[r] \in Statuses
    BY <1>1, <1>2 DEF Registry, Outcomes
  <2>2. h \in Registry
    BY <1>1, <1>2, <2>1 DEF AwaitResponse, Registry
  <2>3. /\ h.emitted = g.emitted /\ h.awaiting = g.awaiting /\ h.awaiters = g.awaiters
        /\ h.timers = g.timers /\ h.answers = g.answers /\ h.answer = g.answer
        /\ h.dropped = g.dropped
        /\ h.early = [g.early EXCEPT ![r] = None]
        /\ h.promise = [g.promise EXCEPT ![r] = g.early[r]]
        /\ h.resolves = [g.resolves EXCEPT ![r] = g.resolves[r] + 1]
    BY <1>1, <1>2 DEF AwaitResponse, Registry
  <2>4. g.early[r] \notin {None, "pending"} /\ None # "pending"
    BY <2>1, RegistryAssumption DEF None
  <2> HIDE DEF h
  <2>5. ASSUME NEW q \in Requests PROVE SoundAt(h, q)
    BY <1>1, <1>2, <2>3, <2>4
    DEF Registry, SoundAt, Unused, Reachable, Resolved, Kept, Answered
  <2> QED
    BY <2>2, <2>5 DEF Sound, h
<1>3. CASE g.early[r] = None
  <2>1. t + AwaitTtl \in Nat
    BY RegistryAssumption
  <2>2. h \in Registry
    BY <1>1, <1>3, <2>1 DEF AwaitResponse, Registry
  <2>3. /\ h.emitted = g.emitted /\ h.awaiting = g.awaiting
        /\ h.awaiters = g.awaiters \cup {r} /\ h.timers = g.timers \cup {r}
        /\ h.early = g.early /\ h.resolves = g.resolves /\ h.answers = g.answers
        /\ h.answer = g.answer /\ h.dropped = g.dropped
        /\ h.promise = [g.promise EXCEPT ![r] = "pending"]
    BY <1>1, <1>3 DEF AwaitResponse, Registry
  <2>4. None # "pending"
    BY DEF None
  <2>5. g.answer[r] # None /\ r \notin g.dropped => FALSE
    BY <1>1, <1>3, <2>4 DEF SoundAt, Answered
  <2> HIDE DEF h
  <2>6. ASSUME NEW q \in Requests PROVE SoundAt(h, q)
    BY <1>1, <1>3, <2>3, <2>4, <2>5
    DEF Registry, SoundAt, Unused, Reachable, Resolved, Kept, Answered
  <2> QED
    BY <2>2, <2>6 DEF Sound, h
<1> QED
  BY <1>2, <1>3

(* resolve touches promises and their counters, and nothing else. *)
LEMMA ResolveFields ==
  ASSUME NEW g \in Registry, NEW R, NEW v \in Outcomes
  PROVE  LET h == Resolve(g, R, v)
         IN /\ h \in Registry
            /\ h.emitted = g.emitted /\ h.awaiting = g.awaiting /\ h.awaiters = g.awaiters
            /\ h.timers = g.timers /\ h.early = g.early /\ h.answers = g.answers
            /\ h.answer = g.answer /\ h.dropped = g.dropped
            /\ h.processors = g.processors /\ h.dispatched = g.dispatched
            /\ \A q \in Requests :
                 /\ h.promise[q] = IF q \in R /\ g.promise[q] = "pending" THEN v ELSE g.promise[q]
                 /\ h.resolves[q] = IF q \in R THEN g.resolves[q] + 1 ELSE g.resolves[q]
<1> DEFINE P == [r \in Requests |-> IF r \in R /\ g.promise[r] = "pending" THEN v ELSE g.promise[r]]
           C == [r \in Requests |-> IF r \in R THEN g.resolves[r] + 1 ELSE g.resolves[r]]
<1>1. P \in [Requests -> Outcomes \cup {None, "pending"}] /\ C \in [Requests -> Nat]
  BY DEF Registry
<1>2. Resolve(g, R, v) = [g EXCEPT !.promise = P, !.resolves = C]
  BY DEF Resolve
<1> HIDE DEF P, C
<1>3. /\ Resolve(g, R, v) \in Registry
      /\ Resolve(g, R, v).promise = P /\ Resolve(g, R, v).resolves = C
  BY <1>1, <1>2 DEF Registry
<1>4. /\ Resolve(g, R, v).emitted = g.emitted /\ Resolve(g, R, v).awaiting = g.awaiting
      /\ Resolve(g, R, v).awaiters = g.awaiters /\ Resolve(g, R, v).timers = g.timers
      /\ Resolve(g, R, v).early = g.early /\ Resolve(g, R, v).answers = g.answers
      /\ Resolve(g, R, v).answer = g.answer /\ Resolve(g, R, v).dropped = g.dropped
      /\ Resolve(g, R, v).processors = g.processors
      /\ Resolve(g, R, v).dispatched = g.dispatched
  BY <1>2 DEF Registry
<1> QED
  BY <1>3, <1>4 DEF P, C

(* The failures are outcomes, and no outcome is a pending promise. *)
LEMMA OutcomesApart ==
  /\ "timeout" \in Outcomes /\ "cleared" \in Outcomes
  /\ Statuses \subseteq Outcomes
  /\ Outcomes \cap {None, "pending"} = {}
  /\ None # "pending"
  BY RegistryAssumption DEF Outcomes, Failures, None

(* The timer's callback keeps the registry well formed. *)
LEMMA TimeoutSound ==
  ASSUME NEW g, Sound(g), NEW r \in g.timers
  PROVE  Sound(Timeout(g, r))
<1> DEFINE k == [g EXCEPT !.timers = @ \ {r}, !.awaiters = @ \ {r}, !.awaiting = @ \ {r}]
           h == Resolve(k, {r}, "timeout")
<1>1. g \in Registry /\ (\A q \in Requests : SoundAt(g, q)) /\ r \in Requests
  BY DEF Sound, Registry
<1>2. k \in Registry
  BY <1>1 DEF Registry
<1>3. /\ k.timers = g.timers \ {r} /\ k.awaiters = g.awaiters \ {r}
      /\ k.awaiting = g.awaiting \ {r}
      /\ k.emitted = g.emitted /\ k.early = g.early /\ k.answers = g.answers
      /\ k.answer = g.answer /\ k.dropped = g.dropped /\ k.promise = g.promise
      /\ k.resolves = g.resolves
  BY <1>1 DEF Registry
<1> HIDE DEF k
<1>4. h \in Registry
  BY <1>2, ResolveFields, OutcomesApart
<1>5. /\ h.timers = g.timers \ {r} /\ h.awaiters = g.awaiters \ {r}
      /\ h.awaiting = g.awaiting \ {r}
      /\ h.emitted = g.emitted /\ h.early = g.early /\ h.answers = g.answers
      /\ h.answer = g.answer /\ h.dropped = g.dropped
      /\ \A q \in Requests :
           /\ h.promise[q] = IF q = r /\ g.promise[q] = "pending" THEN "timeout" ELSE g.promise[q]
           /\ h.resolves[q] = IF q = r THEN g.resolves[q] + 1 ELSE g.resolves[q]
  BY <1>2, <1>3, ResolveFields, OutcomesApart
<1> HIDE DEF h
<1>6. g.promise[r] = "pending" /\ g.resolves[r] = 0 /\ g.answer[r] # "pending"
  BY <1>1, OutcomesApart DEF SoundAt, Reachable, Resolved, Registry
<1>7. ASSUME NEW q \in Requests PROVE SoundAt(h, q)
  <2>1. CASE q = r
    BY <1>1, <1>5, <1>6, <2>1, OutcomesApart
    DEF SoundAt, Unused, Reachable, Resolved, Kept, Answered
  <2>2. CASE q # r
    BY <1>1, <1>5, <2>2
    DEF SoundAt, Unused, Reachable, Resolved, Kept, Answered
  <2> QED
    BY <2>1, <2>2
<1> QED
  BY <1>4, <1>7 DEF Sound, Timeout, h, k

(* A sweep keeps the registry well formed: the awaiters it drops are       *)
(* exactly those it resolves.                                              *)
LEMMA ClearExpiredSound ==
  ASSUME NEW g, Sound(g), NEW th \in Threads, NEW t \in Nat
  PROVE  Sound(ClearExpired(g, th, t))
<1> DEFINE E == Expired(g, th, t)
           W == E \cap g.awaiters
           k == [g EXCEPT !.awaiting = @ \ E, !.awaiters = @ \ W, !.timers = @ \ W]
           h == Resolve(k, W, "timeout")
<1>1. g \in Registry /\ \A q \in Requests : SoundAt(g, q)
  BY DEF Sound
<1>2. E \subseteq g.awaiting
  BY DEF Expired
<1> HIDE DEF E
<1>3. k \in Registry
  BY <1>1 DEF Registry
<1>4. /\ k.timers = g.timers \ W /\ k.awaiters = g.awaiters \ W
      /\ k.awaiting = g.awaiting \ E
      /\ k.emitted = g.emitted /\ k.early = g.early /\ k.answers = g.answers
      /\ k.answer = g.answer /\ k.dropped = g.dropped /\ k.promise = g.promise
      /\ k.resolves = g.resolves
  BY <1>1 DEF Registry
<1> HIDE DEF k
<1>5. h \in Registry
  BY <1>3, ResolveFields, OutcomesApart
<1>6. /\ h.timers = g.timers \ W /\ h.awaiters = g.awaiters \ W
      /\ h.awaiting = g.awaiting \ E
      /\ h.emitted = g.emitted /\ h.early = g.early /\ h.answers = g.answers
      /\ h.answer = g.answer /\ h.dropped = g.dropped
      /\ \A q \in Requests :
           /\ h.promise[q] = IF q \in W /\ g.promise[q] = "pending" THEN "timeout" ELSE g.promise[q]
           /\ h.resolves[q] = IF q \in W THEN g.resolves[q] + 1 ELSE g.resolves[q]
  BY <1>3, <1>4, ResolveFields, OutcomesApart
<1> HIDE DEF h
<1>7. ASSUME NEW q \in Requests PROVE SoundAt(h, q)
  <2>1. CASE q \in W
    <3>1. g.promise[q] = "pending" /\ g.resolves[q] = 0 /\ g.answer[q] # "pending"
      BY <1>1, <2>1, OutcomesApart DEF SoundAt, Reachable, Resolved, Registry
    <3> QED
      BY <1>1, <1>6, <2>1, <3>1, OutcomesApart
      DEF SoundAt, Unused, Reachable, Resolved, Kept, Answered
  <2>2. CASE q \notin W
    BY <1>1, <1>2, <1>6, <2>2
    DEF SoundAt, Unused, Reachable, Resolved, Kept, Answered
  <2> QED
    BY <2>1, <2>2
<1> QED
  BY <1>5, <1>7 DEF Sound, ClearExpired, h, k, E

(* Clearing a thread keeps the registry well formed: its waiters learn it, *)
(* its early results are dropped.                                          *)
LEMMA ClearThreadSound ==
  ASSUME NEW g, Sound(g), NEW th \in Threads
  PROVE  Sound(ClearThread(g, th))
<1> DEFINE W == g.awaiters \cap Of(th)
           D == {r \in Of(th) : g.early[r] # None}
           N == [r \in Requests |-> IF r \in D THEN None ELSE g.early[r]]
           k == [g EXCEPT !.awaiting = @ \ Of(th), !.awaiters = @ \ W, !.timers = @ \ W,
                          !.early = N, !.dropped = @ \cup D]
           h == Resolve(k, W, "cleared")
<1>1. g \in Registry /\ \A q \in Requests : SoundAt(g, q)
  BY DEF Sound
<1>2. /\ D \subseteq Requests
      /\ N \in [Requests -> Statuses \cup {None}]
      /\ \A q \in Requests : N[q] = IF q \in D THEN None ELSE g.early[q]
  BY <1>1 DEF Of, Registry
<1> HIDE DEF D, N
<1>3. k \in Registry
  BY <1>1, <1>2 DEF Registry
<1>4. /\ k.timers = g.timers \ W /\ k.awaiters = g.awaiters \ W
      /\ k.awaiting = g.awaiting \ Of(th)
      /\ k.early = N /\ k.dropped = g.dropped \cup D
      /\ k.emitted = g.emitted /\ k.answers = g.answers
      /\ k.answer = g.answer /\ k.promise = g.promise /\ k.resolves = g.resolves
  BY <1>1 DEF Registry
<1> HIDE DEF k
<1>5. h \in Registry
  BY <1>3, ResolveFields, OutcomesApart
<1>6. /\ h.timers = g.timers \ W /\ h.awaiters = g.awaiters \ W
      /\ h.awaiting = g.awaiting \ Of(th)
      /\ h.early = N /\ h.dropped = g.dropped \cup D
      /\ h.emitted = g.emitted /\ h.answers = g.answers /\ h.answer = g.answer
      /\ \A q \in Requests :
           /\ h.promise[q] = IF q \in W /\ g.promise[q] = "pending" THEN "cleared" ELSE g.promise[q]
           /\ h.resolves[q] = IF q \in W THEN g.resolves[q] + 1 ELSE g.resolves[q]
  BY <1>3, <1>4, ResolveFields, OutcomesApart
<1> HIDE DEF h
<1>7. ASSUME NEW q \in Requests PROVE SoundAt(h, q)
  <2>1. CASE q \in W
    <3>1. g.promise[q] = "pending" /\ g.resolves[q] = 0 /\ g.answer[q] # "pending"
      BY <1>1, <2>1, OutcomesApart DEF SoundAt, Reachable, Resolved, Registry
    <3>2. g.early[q] = None
      BY <1>1, <3>1, OutcomesApart DEF SoundAt, Kept
    <3>3. N[q] = None
      BY <1>2, <3>2
    <3> QED
      BY <1>1, <1>6, <2>1, <3>1, <3>3, OutcomesApart
      DEF SoundAt, Unused, Reachable, Resolved, Kept, Answered
  <2>2. CASE q \notin W
    <3>1. N[q] = g.early[q] \/ (N[q] = None /\ q \in D)
      BY <1>2
    <3> QED
      BY <1>1, <1>6, <2>2, <3>1
      DEF SoundAt, Unused, Reachable, Resolved, Kept, Answered
  <2> QED
    BY <2>1, <2>2
<1> QED
  BY <1>5, <1>7 DEF Sound, ClearThread, h, k, N, D

(* A processor call counts, and changes nothing else. *)
LEMMA DispatchFields ==
  ASSUME NEW g \in Registry, NEW r \in Requests
  PROVE  LET d == Dispatch(g, r)
         IN /\ d \in Registry
            /\ d.emitted = g.emitted /\ d.awaiting = g.awaiting /\ d.awaiters = g.awaiters
            /\ d.timers = g.timers /\ d.early = g.early /\ d.answers = g.answers
            /\ d.answer = g.answer /\ d.dropped = g.dropped /\ d.promise = g.promise
            /\ d.resolves = g.resolves
<1>1. g.dispatched[r] + 1 \in Nat
  BY DEF Registry
<1>2. CASE Dispatch(g, r) = g
  BY <1>2
<1>3. CASE Dispatch(g, r) = [g EXCEPT !.dispatched[r] = g.dispatched[r] + 1]
  <2> DEFINE d == [g EXCEPT !.dispatched[r] = g.dispatched[r] + 1]
  <2>1. d \in Registry
    BY <1>1 DEF Registry
  <2>2. /\ d.emitted = g.emitted /\ d.awaiting = g.awaiting /\ d.awaiters = g.awaiters
        /\ d.timers = g.timers /\ d.early = g.early /\ d.answers = g.answers
        /\ d.answer = g.answer /\ d.dropped = g.dropped /\ d.promise = g.promise
        /\ d.resolves = g.resolves
    BY DEF Registry
  <2> QED
    BY <1>3, <2>1, <2>2
<1> QED
  BY <1>2, <1>3 DEF Dispatch

(* Delivering an accepted response keeps the registry well formed: it is   *)
(* handed to the waiter, or kept for the one to come.                      *)
LEMMA DeliverSound ==
  ASSUME NEW g, Sound(g), NEW r \in Requests, r \in g.emitted, r \in g.awaiters \cup g.awaiting,
         NEW status \in Statuses
  PROVE  Sound(Deliver(g, r, status))
<1> DEFINE a == [g EXCEPT !.awaiting = @ \ {r}, !.answers[r] = @ + 1, !.answer[r] = status]
<1>1. g \in Registry /\ \A q \in Requests : SoundAt(g, q)
  BY DEF Sound
<1>2. g.answers[r] + 1 \in Nat /\ status \in Outcomes /\ status \notin {None, "pending"}
  BY <1>1, OutcomesApart DEF Registry
<1>3. a \in Registry
  BY <1>1, <1>2 DEF Registry
<1>4. /\ a.awaiting = g.awaiting \ {r}
      /\ a.answers = [g.answers EXCEPT ![r] = g.answers[r] + 1]
      /\ a.answer = [g.answer EXCEPT ![r] = status]
      /\ a.emitted = g.emitted /\ a.awaiters = g.awaiters /\ a.timers = g.timers
      /\ a.early = g.early /\ a.dropped = g.dropped /\ a.promise = g.promise
      /\ a.resolves = g.resolves
  BY <1>1 DEF Registry
<1>5. \A q \in Requests :
        /\ a.answers[q] = IF q = r THEN g.answers[q] + 1 ELSE g.answers[q]
        /\ a.answer[q] = IF q = r THEN status ELSE g.answer[q]
  BY <1>1, <1>4 DEF Registry
<1> HIDE DEF a
<1>6. r \notin g.dropped => g.answers[r] = 0
  BY <1>1, OutcomesApart DEF SoundAt, Reachable, Answered, Registry
<1>7. CASE r \in g.awaiters
  <2> DEFINE k == [a EXCEPT !.awaiters = @ \ {r}, !.timers = @ \ {r}]
             h == Resolve(k, {r}, status)
  <2>1. k \in Registry
    BY <1>3 DEF Registry
  <2>2. /\ k.awaiters = a.awaiters \ {r} /\ k.timers = a.timers \ {r}
        /\ k.awaiting = a.awaiting /\ k.answers = a.answers /\ k.answer = a.answer
        /\ k.emitted = a.emitted /\ k.early = a.early /\ k.dropped = a.dropped
        /\ k.promise = a.promise /\ k.resolves = a.resolves
    BY <1>3 DEF Registry
  <2> HIDE DEF k
  <2>3. h \in Registry
    BY <1>2, <2>1, ResolveFields
  <2>4. /\ h.awaiters = g.awaiters \ {r} /\ h.timers = g.timers \ {r}
        /\ h.awaiting = g.awaiting \ {r} /\ h.answers = a.answers /\ h.answer = a.answer
        /\ h.emitted = g.emitted /\ h.early = g.early /\ h.dropped = g.dropped
        /\ \A q \in Requests :
             /\ h.promise[q] = IF q = r /\ g.promise[q] = "pending" THEN status ELSE g.promise[q]
             /\ h.resolves[q] = IF q = r THEN g.resolves[q] + 1 ELSE g.resolves[q]
    BY <1>2, <1>4, <2>1, <2>2, ResolveFields
  <2> HIDE DEF h
  <2>5. g.promise[r] = "pending" /\ g.resolves[r] = 0
    BY <1>1, <1>7, OutcomesApart DEF SoundAt, Reachable, Resolved
  <2>6. SoundAt(h, r)
    <3>1. h.promise[r] = status /\ h.resolves[r] = 1 /\ h.answer[r] = status
          /\ r \notin h.awaiting /\ r \notin h.awaiters /\ r \notin h.timers
          /\ r \in h.emitted
      BY <1>5, <2>4, <2>5
    <3>2. r \notin h.dropped => h.answers[r] = 1
      BY <1>5, <1>6, <2>4
    <3>3. h.answers[r] # 0
      BY <1>1, <1>5, <2>4 DEF Registry
    <3>4. h.early[r] = None
      BY <1>1, <2>4, <2>5, OutcomesApart DEF SoundAt, Kept
    <3> QED
      BY <1>2, <3>1, <3>2, <3>3, <3>4
      DEF SoundAt, Unused, Reachable, Resolved, Kept, Answered
  <2>7. ASSUME NEW q \in Requests, q # r PROVE SoundAt(h, q)
    BY <1>1, <1>5, <2>4, <2>7
    DEF SoundAt, Unused, Reachable, Resolved, Kept, Answered
  <2> QED
    BY <1>7, <2>3, <2>6, <2>7 DEF Sound, Deliver, h, k, a
<1>8. CASE r \notin g.awaiters
  <2> DEFINE h == [a EXCEPT !.early[r] = status]
  <2>1. h \in Registry
    BY <1>3 DEF Registry
  <2>2. /\ h.early = [a.early EXCEPT ![r] = status]
        /\ h.awaiters = a.awaiters /\ h.timers = a.timers
        /\ h.awaiting = a.awaiting /\ h.answers = a.answers /\ h.answer = a.answer
        /\ h.emitted = a.emitted /\ h.dropped = a.dropped
        /\ h.promise = a.promise /\ h.resolves = a.resolves
    BY <1>3 DEF Registry
  <2> HIDE DEF h
  <2>3. \A q \in Requests : h.early[q] = IF q = r THEN status ELSE g.early[q]
    BY <1>1, <1>4, <2>2 DEF Registry
  <2>4. ASSUME NEW q \in Requests, q # r PROVE SoundAt(h, q)
    BY <1>1, <1>4, <1>5, <2>2, <2>3, <2>4
    DEF SoundAt, Unused, Reachable, Resolved, Kept, Answered
  <2>5. SoundAt(h, r)
    <3>1. /\ h.early[r] = status /\ h.answer[r] = status
          /\ h.promise[r] = g.promise[r] /\ h.resolves[r] = g.resolves[r]
          /\ r \notin h.awaiting /\ r \notin h.awaiters /\ r \notin h.timers
          /\ r \in h.emitted
      BY <1>1, <1>4, <1>5, <1>8, <2>2, <2>3 DEF SoundAt, Reachable
    <3>2. r \notin h.dropped => h.answers[r] = 1
      BY <1>4, <1>5, <1>6, <2>2
    <3>3. h.answers[r] # 0
      BY <1>1, <1>5, <2>2 DEF Registry
    <3>4. g.promise[r] = None
      BY <1>1, <1>8 DEF SoundAt, Reachable
    <3>5. g.resolves[r] = 0
      BY <1>1, <3>4 DEF SoundAt, Resolved
    <3> QED
      BY <1>2, <3>1, <3>2, <3>3, <3>4, <3>5, OutcomesApart
      DEF SoundAt, Unused, Reachable, Resolved, Kept, Answered
  <2> QED
    BY <1>8, <2>1, <2>4, <2>5 DEF Sound, Deliver, h, a
<1> QED
  BY <1>7, <1>8

(* handleResponse keeps the registry well formed, whatever the state of    *)
(* the request the response is for.                                        *)
LEMMA HandleResponseSound ==
  ASSUME NEW g, Sound(g), NEW r \in Requests, NEW status \in Statuses
  PROVE  Sound(HandleResponse(g, r, status))
<1> DEFINE d == Dispatch(g, r)
<1>1. g \in Registry /\ \A q \in Requests : SoundAt(g, q)
  BY DEF Sound
<1>2. /\ d \in Registry
      /\ d.emitted = g.emitted /\ d.awaiting = g.awaiting /\ d.awaiters = g.awaiters
      /\ d.timers = g.timers /\ d.early = g.early /\ d.answers = g.answers
      /\ d.answer = g.answer /\ d.dropped = g.dropped /\ d.promise = g.promise
      /\ d.resolves = g.resolves
  BY <1>1, DispatchFields
<1> HIDE DEF d
<1>3. Sound(d)
  BY <1>1, <1>2 DEF Sound, SoundAt, Unused, Reachable, Resolved, Kept, Answered
<1>4. CASE Accepts(g, r)
  <2>1. r \in d.emitted /\ r \in d.awaiters \cup d.awaiting
    BY <1>1, <1>2, <1>4, OutcomesApart DEF Accepts, SoundAt, Unused, Reachable
  <2> QED
    BY <1>3, <1>4, <2>1, DeliverSound DEF HandleResponse, d
<1>5. CASE ~Accepts(g, r)
  BY <1>3, <1>5 DEF HandleResponse, d
<1> QED
  BY <1>4, <1>5

(* Registering a processor touches no request. *)
LEMMA RegisterSound ==
  ASSUME NEW g, Sound(g), NEW tn \in Tools
  PROVE  Sound([g EXCEPT !.processors = @ \cup {tn}])
<1> DEFINE h == [g EXCEPT !.processors = @ \cup {tn}]
<1>1. g \in Registry /\ \A q \in Requests : SoundAt(g, q)
  BY DEF Sound
<1>2. h \in Registry
  BY <1>1 DEF Registry
<1>3. /\ h.emitted = g.emitted /\ h.awaiting = g.awaiting /\ h.awaiters = g.awaiters
      /\ h.timers = g.timers /\ h.early = g.early /\ h.answers = g.answers
      /\ h.answer = g.answer /\ h.dropped = g.dropped /\ h.promise = g.promise
      /\ h.resolves = g.resolves
  BY <1>1 DEF Registry
<1> HIDE DEF h
<1>4. Sound(h)
  BY <1>1, <1>2, <1>3 DEF Sound, SoundAt, Unused, Reachable, Resolved, Kept, Answered
<1> QED
  BY <1>4 DEF h

-----------------------------------------------------------------------------
(***************************************************************************)
(* What each method does to the sets that decide who is asked and answered *)
(* (emitted, awaiting, awaiters) and to the count of accepted answers.     *)
(***************************************************************************)

(* Emitting puts the id on _awaiting. *)
LEMMA TrackEmitFields ==
  ASSUME NEW g \in Registry, NEW r \in Requests, NEW t \in Nat
  PROVE  LET h == TrackEmit(g, r, t)
         IN /\ h.emitted = g.emitted \cup {r} /\ h.awaiting = g.awaiting \cup {r}
            /\ h.awaiters = g.awaiters /\ h.answers = g.answers /\ h.processors = g.processors
            /\ h.early = g.early /\ h.promise = g.promise /\ h.answer = g.answer
  BY DEF TrackEmit, Registry

(* Awaiting an id nobody answered yet puts an awaiter on the map. *)
LEMMA AwaitResponseFields ==
  ASSUME NEW g \in Registry, NEW r \in Requests, g.early[r] = None, NEW t \in Nat
  PROVE  LET h == AwaitResponse(g, r, t)
         IN /\ h.emitted = g.emitted /\ h.awaiting = g.awaiting
            /\ h.awaiters = g.awaiters \cup {r} /\ h.answers = g.answers
            /\ h.answer = g.answer /\ h.processors = g.processors
  BY DEF AwaitResponse, Registry

(* The timer takes the id off both maps. *)
LEMMA TimeoutFields ==
  ASSUME NEW g \in Registry, NEW r \in Requests
  PROVE  LET h == Timeout(g, r)
         IN /\ h.emitted = g.emitted /\ h.awaiting = g.awaiting \ {r}
            /\ h.awaiters = g.awaiters \ {r} /\ h.answers = g.answers
            /\ h.answer = g.answer /\ h.processors = g.processors
<1> DEFINE k == [g EXCEPT !.timers = @ \ {r}, !.awaiters = @ \ {r}, !.awaiting = @ \ {r}]
<1>1. /\ k \in Registry /\ k.emitted = g.emitted /\ k.awaiting = g.awaiting \ {r}
      /\ k.awaiters = g.awaiters \ {r} /\ k.answers = g.answers
      /\ k.answer = g.answer /\ k.processors = g.processors
  BY DEF Registry
<1> HIDE DEF k
<1>2. Timeout(g, r) = Resolve(k, {r}, "timeout")
  BY DEF Timeout, k
<1> QED
  BY <1>1, <1>2, ResolveFields, OutcomesApart

(* A sweep takes the expired ids of the thread off both maps. *)
LEMMA ClearExpiredFields ==
  ASSUME NEW g \in Registry, NEW th, NEW t \in Nat
  PROVE  LET h == ClearExpired(g, th, t)
         IN /\ h.emitted = g.emitted /\ h.awaiting = g.awaiting \ Expired(g, th, t)
            /\ h.awaiters = g.awaiters \ Expired(g, th, t) /\ h.answers = g.answers
            /\ h.answer = g.answer /\ h.processors = g.processors
<1> DEFINE E == Expired(g, th, t)
           W == E \cap g.awaiters
           k == [g EXCEPT !.awaiting = @ \ E, !.awaiters = @ \ W, !.timers = @ \ W]
<1> HIDE DEF E
<1>1. /\ k \in Registry /\ k.emitted = g.emitted /\ k.awaiting = g.awaiting \ E
      /\ k.awaiters = g.awaiters \ E /\ k.answers = g.answers
      /\ k.answer = g.answer /\ k.processors = g.processors
  BY DEF Registry
<1> HIDE DEF k
<1>2. ClearExpired(g, th, t) = Resolve(k, W, "timeout")
  BY DEF ClearExpired, k, E
<1>3. Resolve(k, W, "timeout").emitted = k.emitted
      /\ Resolve(k, W, "timeout").awaiting = k.awaiting
      /\ Resolve(k, W, "timeout").awaiters = k.awaiters
      /\ Resolve(k, W, "timeout").answers = k.answers
      /\ Resolve(k, W, "timeout").answer = k.answer
      /\ Resolve(k, W, "timeout").processors = k.processors
  BY <1>1, ResolveFields, OutcomesApart
<1> QED
  BY <1>1, <1>2, <1>3 DEF E

(* Clearing takes every id of the thread off both maps. *)
LEMMA ClearThreadFields ==
  ASSUME NEW g \in Registry, NEW th
  PROVE  LET h == ClearThread(g, th)
         IN /\ h.emitted = g.emitted /\ h.awaiting = g.awaiting \ Of(th)
            /\ h.awaiters = g.awaiters \ Of(th) /\ h.answers = g.answers
            /\ h.answer = g.answer /\ h.processors = g.processors
<1> DEFINE W == g.awaiters \cap Of(th)
           D == {r \in Of(th) : g.early[r] # None}
           N == [r \in Requests |-> IF r \in D THEN None ELSE g.early[r]]
           k == [g EXCEPT !.awaiting = @ \ Of(th), !.awaiters = @ \ W, !.timers = @ \ W,
                          !.early = N, !.dropped = @ \cup D]
<1>1. D \subseteq Requests /\ N \in [Requests -> Statuses \cup {None}]
  BY DEF Of, Registry
<1> HIDE DEF D, N
<1>2. /\ k \in Registry /\ k.emitted = g.emitted /\ k.awaiting = g.awaiting \ Of(th)
      /\ k.awaiters = g.awaiters \ Of(th) /\ k.answers = g.answers
      /\ k.answer = g.answer /\ k.processors = g.processors
  BY <1>1 DEF Registry
<1> HIDE DEF k
<1>3. ClearThread(g, th) = Resolve(k, W, "cleared")
  BY DEF ClearThread, k, N, D
<1>4. Resolve(k, W, "cleared").emitted = k.emitted
      /\ Resolve(k, W, "cleared").awaiting = k.awaiting
      /\ Resolve(k, W, "cleared").awaiters = k.awaiters
      /\ Resolve(k, W, "cleared").answers = k.answers
      /\ Resolve(k, W, "cleared").answer = k.answer
      /\ Resolve(k, W, "cleared").processors = k.processors
  BY <1>2, ResolveFields, OutcomesApart
<1> QED
  BY <1>2, <1>3, <1>4

(* Only an accepted response takes its id off both maps and counts as an   *)
(* answer; its tool's processor has run.                                   *)
LEMMA HandleResponseFields ==
  ASSUME NEW g \in Registry, NEW r \in Requests, NEW status \in Statuses
  PROVE  LET h == HandleResponse(g, r, status)
             A == {q \in {r} : Accepts(g, r)}
         IN /\ h.emitted = g.emitted /\ h.awaiting = g.awaiting \ A
            /\ h.awaiters = g.awaiters \ A /\ h.processors = g.processors
            /\ \A q \in Requests : /\ q \notin A => h.answers[q] = g.answers[q]
                                  /\ h.answer[q] = IF q \in A THEN status ELSE g.answer[q]
            /\ Accepts(g, r) /\ ToolOf[r] \in g.processors => h.dispatched[r] > g.dispatched[r]
<1> DEFINE d == Dispatch(g, r)
           a == [d EXCEPT !.awaiting = @ \ {r}, !.answers[r] = @ + 1, !.answer[r] = status]
           k == [a EXCEPT !.awaiters = @ \ {r}, !.timers = @ \ {r}]
           e == [a EXCEPT !.early[r] = status]
<1>1. /\ d \in Registry /\ d.emitted = g.emitted /\ d.awaiting = g.awaiting
      /\ d.awaiters = g.awaiters /\ d.answers = g.answers
      /\ d.answer = g.answer
  BY DispatchFields
<1>2. d.processors = g.processors
  BY DEF Dispatch, Registry
<1>3. Accepts(g, r) /\ ToolOf[r] \in g.processors => d.dispatched[r] > g.dispatched[r]
  BY DEF Dispatch, Accepts, Registry
<1> HIDE DEF d
<1>4. CASE ~Accepts(g, r)
  BY <1>1, <1>2, <1>4 DEF HandleResponse, d
<1>5. CASE Accepts(g, r)
  <2>1. d.answers[r] + 1 \in Nat /\ status \in Outcomes
    BY <1>1, OutcomesApart DEF Registry
  <2>2. /\ a \in Registry /\ a.emitted = g.emitted /\ a.awaiting = g.awaiting \ {r}
        /\ a.awaiters = g.awaiters /\ a.processors = g.processors
        /\ a.dispatched = d.dispatched
        /\ \A q \in Requests : /\ q # r => a.answers[q] = g.answers[q]
                              /\ a.answer[q] = IF q = r THEN status ELSE g.answer[q]
    BY <1>1, <1>2, <2>1 DEF Registry
  <2> HIDE DEF a
  <2>3. CASE r \in g.awaiters
    <3>1. /\ k \in Registry /\ k.emitted = a.emitted /\ k.awaiting = a.awaiting
          /\ k.awaiters = a.awaiters \ {r} /\ k.processors = a.processors
          /\ k.answers = a.answers /\ k.answer = a.answer /\ k.dispatched = a.dispatched
      BY <2>2 DEF Registry
    <3> HIDE DEF k
    <3>2. HandleResponse(g, r, status) = Resolve(k, {r}, status)
      BY <1>1, <1>5, <2>3 DEF HandleResponse, Deliver, k, a, d
    <3> QED
      BY <1>3, <1>5, <2>1, <2>2, <3>1, <3>2, ResolveFields
  <2>4. CASE r \notin g.awaiters
    <3>1. /\ e.emitted = a.emitted /\ e.awaiting = a.awaiting
          /\ e.awaiters = a.awaiters /\ e.processors = a.processors
          /\ e.answers = a.answers /\ e.answer = a.answer /\ e.dispatched = a.dispatched
      BY <2>2 DEF Registry
    <3> HIDE DEF e
    <3>2. HandleResponse(g, r, status) = e
      BY <1>1, <1>5, <2>4 DEF HandleResponse, Deliver, e, a, d
    <3> QED
      BY <1>3, <1>5, <2>2, <2>4, <3>1, <3>2
  <2> QED
    BY <2>3, <2>4
<1> QED
  BY <1>4, <1>5

-----------------------------------------------------------------------------
(* The registry is well formed in every reachable state. *)
THEOREM RegistrySound == Safety => [](Sound(reg) /\ now \in Nat)
<1>1. Init => Sound(reg) /\ now \in Nat
  BY EmptySound DEF Init
<1>2. Sound(reg) /\ now \in Nat /\ [Next]_vars => (Sound(reg) /\ now \in Nat)'
  <2> SUFFICES ASSUME Sound(reg), now \in Nat, [Next]_vars
               PROVE  Sound(reg') /\ now' \in Nat
    OBVIOUS
  <2>1. ASSUME NEW tn \in Tools, Register(tn) PROVE Sound(reg') /\ now' \in Nat
    BY <2>1, RegisterSound DEF Register
  <2>2. ASSUME NEW r \in Requests, Emit(r) PROVE Sound(reg') /\ now' \in Nat
    BY <2>2, TrackEmitSound DEF Emit
  <2>3. ASSUME NEW r \in Requests, Await(r) PROVE Sound(reg') /\ now' \in Nat
    BY <2>3, AwaitResponseSound DEF Await
  <2>4. ASSUME NEW r \in Requests, FireTimer(r) PROVE Sound(reg') /\ now' \in Nat
    BY <2>4, TimeoutSound DEF FireTimer
  <2>5. ASSUME NEW r \in Requests, NEW status \in Statuses, Respond(r, status)
        PROVE  Sound(reg') /\ now' \in Nat
    BY <2>5, HandleResponseSound DEF Respond
  <2>6. ASSUME NEW th \in Threads, Sweep(th) PROVE Sound(reg') /\ now' \in Nat
    BY <2>6, ClearExpiredSound DEF Sweep
  <2>7. ASSUME NEW th \in Threads, Forget(th) PROVE Sound(reg') /\ now' \in Nat
    BY <2>7, ClearThreadSound DEF Forget
  <2>8. CASE Tick
    BY <2>8 DEF Tick
  <2>9. CASE UNCHANGED vars
    BY <2>9 DEF vars
  <2> QED
    BY <2>1, <2>2, <2>3, <2>4, <2>5, <2>6, <2>7, <2>8, <2>9 DEF Next
<1> QED
  BY <1>1, <1>2, PTL DEF Safety

(* The type invariant. *)
THEOREM RegistryTyped == Safety => []TypeOK
<1>1. Sound(reg) /\ now \in Nat => TypeOK
  BY DEF Sound, TypeOK
<1> QED
  BY <1>1, RegistrySound, PTL

(* No caller of awaitResponse is ever stranded: while its promise is       *)
(* pending, an awaiter on the map and an armed timer can both resolve it.  *)
THEOREM WaitersReachable == Safety => []WaitersAreReachable
<1>1. Sound(reg) => WaitersAreReachable
  BY DEF Sound, SoundAt, Reachable, WaitersAreReachable
<1> QED
  BY <1>1, RegistrySound, PTL

(* Of response, timer, sweep and clear, exactly one resolves a promise.    *)
THEOREM PromisesResolveOnce == Safety => []ResolvedOnce
<1>1. Sound(reg) => ResolvedOnce
  BY DEF Sound, SoundAt, Resolved, ResolvedOnce
<1> QED
  BY <1>1, RegistrySound, PTL

(* A repeated response is accepted once.                                   *)
THEOREM ResponsesAcceptedOnce == Safety => []AnsweredOnce
<1>1. Sound(reg) => AnsweredOnce
  <2> SUFFICES ASSUME Sound(reg), NEW r \in Requests, r \notin reg.dropped
               PROVE  reg.answers[r] <= 1
    BY DEF AnsweredOnce
  <2>1. reg.answers[r] = 0 \/ reg.answers[r] = 1
    BY DEF Sound, SoundAt, Answered
  <2> QED
    BY <2>1
<1> QED
  BY <1>1, RegistrySound, PTL

(* A result kept for a later await has nobody waiting for it already.      *)
THEOREM NoWakeupLost == Safety => []NoLostWakeup
<1>1. Sound(reg) => NoLostWakeup
  BY DEF Sound, SoundAt, Kept, NoLostWakeup
<1> QED
  BY <1>1, RegistrySound, PTL

(* The answer that was accepted is the answer the caller gets.             *)
THEOREM AnswerReachesCaller == Safety => []AcceptedAnswerReachesCaller
<1>1. Sound(reg) => AcceptedAnswerReachesCaller
  BY DEF Sound, SoundAt, Answered, AcceptedAnswerReachesCaller
<1> QED
  BY <1>1, RegistrySound, PTL
=============================================================================
