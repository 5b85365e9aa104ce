------------------------- MODULE ToolApprovalProofs -------------------------
(***************************************************************************)
(* Proofs about ToolApproval.  The inductive invariant relates the cards   *)
(* and the marks that React is still to show to the promises that are      *)
(* pending and to the user's last word, unless a restart has missed it;    *)
(* what is shown lags behind them only where changes are batched, and what *)
(* is stored follows what is shown, unless it could not be saved.          *)
(***************************************************************************)
EXTENDS ToolApproval, FiniteSetTheorems, TLAPS

(* Where changes are not batched they are shown at once; what is stored is *)
(* what is shown, unless it could not be saved or read; and where the next *)
(* render saves nothing, it changes nothing to be saved.                   *)
Kept ==
  /\ ~Batches => upcoming = view
  /\ toWrite \subseteq [Tools -> Marks]
  /\ Asks /\ ~failed => storage = view.marks
  /\ Asks /\ toWrite = {} => upcoming.marks = view.marks

(* What a render is going to show is true: a card for every pending        *)
(* promise, the user's last word on every tool no restart has missed.      *)
Screen ==
  /\ upcoming.cards = resolvers
  /\ \A t \in Tools \ missed : upcoming.marks[t] = intent[t]
  /\ Kept

ApprovalInv == TypeOK /\ Screen

-----------------------------------------------------------------------------
(* The reducers, field by field (ToolApprovalContext.tsx:109-136).         *)
LEMMA ReducerFields ==
  ASSUME NEW v \in Views
  PROVE  /\ \A r \in Requests : /\ AddCard(v, r) \in Views
                                /\ AddCard(v, r).cards = v.cards \cup {r}
                                /\ AddCard(v, r).marks = v.marks
         /\ \A rs \in SUBSET Requests : /\ DropCards(v, rs) \in Views
                                        /\ DropCards(v, rs).cards = v.cards \ rs
                                        /\ DropCards(v, rs).marks = v.marks
         /\ \A t \in Tools, m \in Marks : /\ Mark(v, t, m) \in Views
                                          /\ Mark(v, t, m).cards = v.cards
                                          /\ Mark(v, t, m).marks = [v.marks EXCEPT ![t] = m]
  BY DEF AddCard, DropCards, Mark, Views

(* What a change of a tool saves is what it leaves of the tools, and it    *)
(* saves whatever it changes (ToolApprovalContext.tsx:120-131).            *)
LEMMA WrittenIsSaved ==
  ASSUME NEW v \in Views, NEW t \in Tools, NEW m \in Marks
  PROVE  /\ Written(v, t, m) \subseteq [Tools -> Marks]
         /\ Asks /\ Written(v, t, m) = {} => Mark(v, t, m).marks = v.marks
<1>1. Mark(v, t, m).marks = [v.marks EXCEPT ![t] = m] /\ Mark(v, t, m) \in Views
  BY ReducerFields
<1>2. v.marks \in [Tools -> Marks] /\ Mark(v, t, m).marks \in [Tools -> Marks]
  BY <1>1 DEF Views
<1>3. v.marks[t] = m => [v.marks EXCEPT ![t] = m] = v.marks
  BY <1>2
<1> QED
  BY <1>1, <1>2, <1>3 DEF Written

(* A change is to be shown, and without batches it is shown and saved at   *)
(* once (useInMemoryAllowList.ts:46-64, AgentStreemrApp.swift:110-146).    *)
LEMMA DispatchKeeps ==
  ASSUME TypeOK, Screen, client' = client, NEW v \in Views, NEW lists \in SUBSET [Tools -> Marks],
         Asks /\ lists = {} => v.marks = upcoming.marks, Dispatch(v, lists)
  PROVE  /\ upcoming' = v
         /\ {view', upcoming'} \subseteq Views
         /\ {seen', storage'} \subseteq [Tools -> Marks]
         /\ failed' \in BOOLEAN /\ Kept'
<1>1. upcoming' = v /\ Asks' = Asks /\ Batches' = Batches
  BY DEF Dispatch, Asks, Batches
<1>2. /\ upcoming \in Views /\ view \in Views /\ seen \in [Tools -> Marks] /\ storage \in [Tools -> Marks]
      /\ failed \in BOOLEAN /\ v.marks \in [Tools -> Marks]
  BY DEF TypeOK, Views
<1>3. CASE Batches
  <2>1. toWrite' = toWrite \cup lists /\ UNCHANGED <<view, seen, storage, failed>>
    BY <1>3 DEF Dispatch
  <2>2. Kept'
    BY <1>1, <1>3, <2>1 DEF Screen, Kept
  <2> QED
    BY <1>1, <1>2, <2>1, <2>2
<1>4. CASE ~Batches
  <2>1. /\ view' = v /\ seen' = v.marks /\ storage' = IF Asks THEN v.marks ELSE storage
        /\ UNCHANGED <<toWrite, failed>>
    BY <1>4 DEF Dispatch
  <2>2. Kept'
    BY <1>1, <1>4, <2>1 DEF Screen, Kept
  <2> QED
    BY <1>1, <1>2, <2>1, <2>2
<1> QED
  BY <1>3, <1>4

(* A click or the sweep settles the promises that are pending and takes    *)
(* their cards away (ToolApprovalContext.tsx:163-169).                     *)
LEMMA ResolveKeeps ==
  ASSUME TypeOK, Screen, client' = client, NEW rs \in SUBSET Requests,
         NEW d \in Decisions \ {"waiting"}, NEW v \in Views, v.cards = upcoming.cards,
         NEW lists \in SUBSET [Tools -> Marks], Asks /\ lists = {} => v.marks = upcoming.marks,
         Resolve(rs, d, v, lists)
  PROVE  /\ decision' \in [Requests -> Decisions]
         /\ resolvers' = {r \in Requests : decision'[r] = "waiting"}
         /\ {view', upcoming'} \subseteq Views
         /\ {seen', storage'} \subseteq [Tools -> Marks]
         /\ upcoming'.cards = resolvers' /\ upcoming'.marks = v.marks
         /\ failed' \in BOOLEAN /\ Kept'
         /\ \A r \in Requests : decision'[r] = decision[r] \/ (r \in rs \cap resolvers /\ decision'[r] = d)
<1> DEFINE gone == rs \cap resolvers
<1>1. gone \in SUBSET Requests
  OBVIOUS
<1>2. DropCards(v, gone) \in Views /\ DropCards(v, gone).cards = v.cards \ gone /\ DropCards(v, gone).marks = v.marks
  BY <1>1, ReducerFields
<1>3. Dispatch(DropCards(v, gone), lists) /\ resolvers' = resolvers \ rs
      /\ decision' = [r \in Requests |-> IF r \in gone THEN d ELSE decision[r]]
  BY DEF Resolve
<1>4. /\ upcoming' = DropCards(v, gone)
      /\ {view', upcoming'} \subseteq Views
      /\ {seen', storage'} \subseteq [Tools -> Marks]
      /\ failed' \in BOOLEAN /\ Kept'
  BY <1>2, <1>3, DispatchKeeps
<1>5. decision' \in [Requests -> Decisions] /\ resolvers' = {r \in Requests : decision'[r] = "waiting"}
  BY <1>3 DEF TypeOK
<1>6. upcoming'.cards = resolvers' /\ upcoming'.marks = v.marks
  BY <1>2, <1>3, <1>4 DEF Screen
<1>7. \A r \in Requests : decision'[r] = decision[r] \/ (r \in rs \cap resolvers /\ decision'[r] = d)
  BY <1>3 DEF TypeOK
<1> QED
  BY <1>4, <1>5, <1>6, <1>7

(* check() either lets a request wait behind a card of its own or decides  *)
(* it by what is recorded (ToolApprovalContext.tsx:211-234).               *)
LEMMA DecideKeeps ==
  ASSUME TypeOK, Screen, client' = client, intent' = intent, missed' = missed, NEW q \in Requests,
         decision[q] \in {"none", "arrived"}, NEW known \in Marks, Decide(q, known)
  PROVE  /\ decision' \in [Requests -> Decisions]
         /\ resolvers' = {r \in Requests : decision'[r] = "waiting"}
         /\ {view', upcoming'} \subseteq Views
         /\ {seen', storage'} \subseteq [Tools -> Marks]
         /\ failed' \in BOOLEAN /\ Screen'
         /\ \A r \in Requests \ {q} : decision'[r] = decision[r]
         /\ decision'[q] = "allowed" => known = "allowed"
<1>1. CASE known = "unset" /\ Asks
  <2>1. /\ decision' = [decision EXCEPT ![q] = "waiting"] /\ resolvers' = resolvers \cup {q}
        /\ Dispatch(AddCard(upcoming, q), {})
    BY <1>1 DEF Decide
  <2>2. upcoming \in Views
    BY DEF TypeOK
  <2>3. /\ AddCard(upcoming, q) \in Views /\ AddCard(upcoming, q).cards = upcoming.cards \cup {q}
        /\ AddCard(upcoming, q).marks = upcoming.marks
    BY <2>2, ReducerFields
  <2>4. /\ upcoming' = AddCard(upcoming, q)
        /\ {view', upcoming'} \subseteq Views
        /\ {seen', storage'} \subseteq [Tools -> Marks]
        /\ failed' \in BOOLEAN /\ Kept'
    BY <2>1, <2>3, DispatchKeeps
  <2>5. Screen'
    BY <2>1, <2>3, <2>4 DEF Screen
  <2>6. decision' \in [Requests -> Decisions] /\ resolvers' = {r \in Requests : decision'[r] = "waiting"}
    BY <2>1 DEF TypeOK, Decisions
  <2>7. decision'[q] = "waiting" /\ \A r \in Requests \ {q} : decision'[r] = decision[r]
    BY <2>1 DEF TypeOK
  <2> QED
    BY <2>4, <2>5, <2>6, <2>7
<1>2. CASE ~(known = "unset" /\ Asks)
  <2>1. /\ decision' = [decision EXCEPT ![q] = IF known = "unset" THEN "denied" ELSE known]
        /\ UNCHANGED <<resolvers, view, upcoming, seen, disk>>
    BY <1>2 DEF Decide
  <2>2. decision' \in [Requests -> Decisions] /\ resolvers' = {r \in Requests : decision'[r] = "waiting"}
    BY <2>1 DEF TypeOK, Decisions, Marks
  <2>3. Screen'
    BY <2>1 DEF Screen, Kept, disk, Asks, Batches
  <2>4. /\ \A r \in Requests \ {q} : decision'[r] = decision[r]
        /\ decision'[q] = "allowed" => known = "allowed"
    BY <2>1 DEF TypeOK
  <2> QED
    BY <2>1, <2>2, <2>3, <2>4 DEF TypeOK, disk
<1> QED
  BY <1>1, <1>2

-----------------------------------------------------------------------------
(* What a step may not do: let a tool run without the user.                *)
Consent ==
  \A r \in Requests : Settled /\ decision[r] # "allowed" /\ decision'[r] = "allowed"
                        => r \in clicked' \/ intent[ToolOf[r]] = "allowed" \/ ToolOf[r] \in missed

LEMMA ApprovalInit == Init => ApprovalInv
<1> SUFFICES ASSUME Init PROVE ApprovalInv
  OBVIOUS
<1>1. Cardinality(loop) = 0
  BY FS_EmptySet DEF Init
<1>2. storage \in [Tools -> Marks] /\ view \in Views
  BY DEF Init, Marks, Views
<1>3. now \in 0..MaxTime /\ acts \in 0..MaxActs /\ reloads \in 0..MaxReloads
  BY ApprovalAssumption DEF Init
<1>4. decision \in [Requests -> Decisions] /\ resolvers = {r \in Requests : decision[r] = "waiting"}
  BY DEF Init, Decisions
<1>d. toWrite \subseteq [Tools -> Marks] /\ failed \in BOOLEAN /\ missed \subseteq Tools
  BY DEF Init
<1>5. TypeOK
  BY <1>1, <1>2, <1>3, <1>4, <1>d DEF Init, TypeOK
<1>6. Screen
  BY DEF Init, Screen, Kept, Asks
<1> QED
  BY <1>5, <1>6 DEF ApprovalInv

LEMMA ApprovalStep == ApprovalInv /\ [Next]_vars => ApprovalInv' /\ Consent
<1> SUFFICES ASSUME ApprovalInv, [Next]_vars PROVE ApprovalInv' /\ Consent
  OBVIOUS
<1> USE ApprovalAssumption
<1>t. TypeOK /\ Screen
  BY DEF ApprovalInv
<1>v. \A r \in Requests : ToolOf[r] \in Tools /\ seen[ToolOf[r]] \in Marks
  BY <1>t DEF TypeOK
<1>s. Settled => \A r \in Requests : seen[ToolOf[r]] = intent[ToolOf[r]] \/ ToolOf[r] \in missed
  BY <1>t DEF Screen, Settled
<1>one. \A r \in Requests : Cardinality({r}) = 1
  BY FS_Singleton
<1>none. Cardinality({}) = 0
  BY FS_EmptySet
<1>q. (\A r \in Requests : decision'[r] = decision[r] \/ decision'[r] # "allowed") => Consent
  BY DEF Consent
<1>1. ASSUME NEW r \in Requests, Check(r) PROVE ApprovalInv' /\ Consent
  <2>1. /\ decision[r] = "none" /\ now + Ttl <= MaxTime
        /\ deadline' = [deadline EXCEPT ![r] = now + Ttl]
        /\ UNCHANGED <<client, now, clicked, intent, missed, acts, reloads>>
    BY <1>1 DEF Check, history
  <2>2. deadline' \in [Requests -> Nat]
    BY <1>t, <2>1 DEF TypeOK
  <2>3. CASE client = "ipad"
    <3>1. /\ decision' = [decision EXCEPT ![r] = IF loop = {} THEN "arrived" ELSE "lost"]
          /\ loop' = IF loop = {} THEN {r} ELSE loop
          /\ UNCHANGED <<resolvers, view, upcoming, seen, disk>>
      BY <1>1, <2>3 DEF Check
    <3>2. decision' \in [Requests -> Decisions] /\ resolvers' = {q \in Requests : decision'[q] = "waiting"}
      BY <1>t, <2>1, <3>1 DEF TypeOK, Decisions
    <3>3. loop' \subseteq Requests /\ Cardinality(loop') <= 1
      BY <1>t, <1>one, <3>1 DEF TypeOK
    <3>4. TypeOK'
      BY <1>t, <2>1, <2>2, <3>1, <3>2, <3>3 DEF TypeOK, disk
    <3>5. Screen'
      BY <1>t, <2>1, <3>1 DEF Screen, Kept, disk, Asks, Batches
    <3>6. Consent
      BY <1>t, <1>q, <3>1 DEF TypeOK
    <3> QED
      BY <3>4, <3>5, <3>6 DEF ApprovalInv
  <2>4. CASE client # "ipad"
    <3>1. Decide(r, seen[ToolOf[r]]) /\ UNCHANGED loop
      BY <1>1, <2>4 DEF Check
    <3>2. /\ decision' \in [Requests -> Decisions]
          /\ resolvers' = {q \in Requests : decision'[q] = "waiting"}
          /\ {view', upcoming'} \subseteq Views
          /\ {seen', storage'} \subseteq [Tools -> Marks]
          /\ failed' \in BOOLEAN /\ Screen'
          /\ \A q \in Requests \ {r} : decision'[q] = decision[q]
          /\ decision'[r] = "allowed" => seen[ToolOf[r]] = "allowed"
      BY <1>t, <1>v, <2>1, <3>1, DecideKeeps
    <3>3. TypeOK'
      BY <1>t, <2>1, <2>2, <3>1, <3>2 DEF TypeOK, Screen, Kept
    <3>4. Consent
      BY <1>s, <3>2 DEF Consent
    <3> QED
      BY <3>2, <3>3, <3>4 DEF ApprovalInv
  <2> QED
    BY <2>3, <2>4
<1>2. ASSUME NEW r \in Requests, Take(r) PROVE ApprovalInv' /\ Consent
  <2>1. /\ decision[r] = "arrived" /\ Decide(r, seen[ToolOf[r]])
        /\ loop' = IF decision'[r] = "waiting" THEN {} ELSE loop
        /\ UNCHANGED <<client, now, deadline, clicked, intent, missed, acts, reloads>>
    BY <1>2 DEF Take, history
  <2>2. /\ decision' \in [Requests -> Decisions]
        /\ resolvers' = {q \in Requests : decision'[q] = "waiting"}
        /\ {view', upcoming'} \subseteq Views
        /\ {seen', storage'} \subseteq [Tools -> Marks]
        /\ failed' \in BOOLEAN /\ Screen'
        /\ \A q \in Requests \ {r} : decision'[q] = decision[q]
        /\ decision'[r] = "allowed" => seen[ToolOf[r]] = "allowed"
    BY <1>t, <1>v, <2>1, DecideKeeps
  <2>3. TypeOK'
    BY <1>t, <1>none, <2>1, <2>2 DEF TypeOK, Screen, Kept
  <2>4. Consent
    BY <1>s, <2>2 DEF Consent
  <2> QED
    BY <2>2, <2>3, <2>4 DEF ApprovalInv
<1>3. ASSUME NEW r \in Requests, HandlerReturns(r) PROVE ApprovalInv' /\ Consent
  <2>1. TypeOK'
    BY <1>t, <1>none, <1>3 DEF HandlerReturns, TypeOK, disk, history
  <2>2. Screen'
    BY <1>t, <1>3 DEF HandlerReturns, Screen, Kept, Asks, Batches, disk, history
  <2>3. Consent
    BY <1>q, <1>3 DEF HandlerReturns
  <2> QED
    BY <2>1, <2>2, <2>3 DEF ApprovalInv
<1>4. ASSUME NEW r \in Requests, NEW remember \in BOOLEAN, Approve(r, remember) PROVE ApprovalInv' /\ Consent
  <2> DEFINE T == ToolOf[r]
             v == IF remember THEN Mark(upcoming, T, "allowed") ELSE upcoming
             lists == IF remember THEN Written(upcoming, T, "allowed") ELSE {}
  <2>1. /\ Resolve({r}, "allowed", v, lists)
        /\ clicked' = IF r \in resolvers THEN clicked \cup {r} ELSE clicked
        /\ intent' = IF remember THEN [intent EXCEPT ![T] = "allowed"] ELSE intent
        /\ missed' = IF remember THEN missed \ {T} ELSE missed
        /\ remember => acts < MaxActs
        /\ acts' = IF remember THEN acts + 1 ELSE acts
        /\ UNCHANGED <<client, now, deadline, loop, reloads>>
    BY <1>4 DEF Approve
  <2>2. upcoming \in Views /\ "allowed" \in Marks /\ T \in Tools
    BY <1>t, <1>v DEF TypeOK, Marks
  <2>m. /\ Mark(upcoming, T, "allowed") \in Views
        /\ Mark(upcoming, T, "allowed").cards = upcoming.cards
        /\ Mark(upcoming, T, "allowed").marks = [upcoming.marks EXCEPT ![T] = "allowed"]
        /\ Written(upcoming, T, "allowed") \subseteq [Tools -> Marks]
        /\ Asks /\ Written(upcoming, T, "allowed") = {} => Mark(upcoming, T, "allowed").marks = upcoming.marks
    BY <2>2, ReducerFields, WrittenIsSaved
  <2>u. upcoming.marks \in [Tools -> Marks] /\ intent \in [Tools -> Marks]
    BY <1>t DEF TypeOK, Views
  <2> HIDE DEF T
  <2>3. /\ v \in Views /\ v.cards = upcoming.cards /\ lists \in SUBSET [Tools -> Marks]
        /\ Asks /\ lists = {} => v.marks = upcoming.marks
        /\ \A t \in Tools \ missed' : v.marks[t] = intent'[t]
    <3>1. CASE remember
      <4>1. v = Mark(upcoming, T, "allowed") /\ lists = Written(upcoming, T, "allowed")
        BY <3>1
      <4> HIDE DEF v, lists
      <4>2. ASSUME NEW t \in Tools \ missed' PROVE v.marks[t] = intent'[t]
        BY <1>t, <2>1, <2>2, <2>m, <2>u, <3>1, <4>1, <4>2 DEF Screen
      <4> QED
        BY <2>m, <4>1, <4>2
    <3>2. CASE ~remember
      BY <1>t, <2>1, <2>2, <3>2 DEF Screen
    <3> QED
      BY <3>1, <3>2
  <2> HIDE DEF v, lists
  <2>4. {r} \in SUBSET Requests /\ "allowed" \in Decisions \ {"waiting"}
    BY DEF Decisions
  <2>5. /\ decision' \in [Requests -> Decisions]
        /\ resolvers' = {q \in Requests : decision'[q] = "waiting"}
        /\ {view', upcoming'} \subseteq Views
        /\ {seen', storage'} \subseteq [Tools -> Marks]
        /\ upcoming'.cards = resolvers' /\ upcoming'.marks = v.marks
        /\ failed' \in BOOLEAN /\ Kept'
        /\ \A q \in Requests : decision'[q] = decision[q] \/ (q \in {r} \cap resolvers /\ decision'[q] = "allowed")
    BY <1>t, <2>1, <2>3, <2>4, ResolveKeeps
  <2>6. intent' \in [Tools -> Marks] /\ missed' \subseteq Tools /\ clicked' \subseteq Requests /\ acts' \in 0..MaxActs
    BY <1>t, <2>1, <2>2 DEF TypeOK
  <2>7. TypeOK'
    BY <1>t, <2>1, <2>5, <2>6 DEF TypeOK, Kept
  <2>8. Screen'
    BY <2>3, <2>5 DEF Screen
  <2>9. Consent
    BY <2>1, <2>5 DEF Consent
  <2> QED
    BY <2>7, <2>8, <2>9 DEF ApprovalInv
<1>5. ASSUME NEW rs \in SUBSET Requests, NEW d \in {"denied", "expired"}, Resolve(rs, d, upcoming, {}),
             UNCHANGED <<client, now, deadline, loop, history, reloads>>
      PROVE  ApprovalInv' /\ Consent
  <2>1. upcoming \in Views /\ d \in Decisions \ {"waiting"}
    BY <1>t DEF TypeOK, Decisions
  <2>2. client' = client /\ intent' = intent /\ missed' = missed /\ {} \in SUBSET [Tools -> Marks]
    BY <1>5 DEF history
  <2>3. /\ decision' \in [Requests -> Decisions]
        /\ resolvers' = {q \in Requests : decision'[q] = "waiting"}
        /\ {view', upcoming'} \subseteq Views
        /\ {seen', storage'} \subseteq [Tools -> Marks]
        /\ upcoming'.cards = resolvers' /\ upcoming'.marks = upcoming.marks
        /\ failed' \in BOOLEAN /\ Kept'
        /\ \A q \in Requests : decision'[q] = decision[q] \/ (q \in rs \cap resolvers /\ decision'[q] = d)
    BY <1>t, <1>5, <2>1, <2>2, ResolveKeeps
  <2>4. TypeOK'
    BY <1>t, <1>5, <2>3 DEF TypeOK, Kept, history
  <2>5. Screen'
    BY <1>t, <2>2, <2>3 DEF Screen
  <2>6. Consent
    BY <1>q, <2>3
  <2> QED
    BY <2>4, <2>5, <2>6 DEF ApprovalInv
<1>6. ASSUME NEW r \in Requests, Deny(r) PROVE ApprovalInv' /\ Consent
  BY <1>5, <1>6 DEF Deny
<1>7. ASSUME Sweep PROVE ApprovalInv' /\ Consent
  <2> DEFINE late == {r \in view.cards \cap Timed : now >= deadline[r]}
  <2>1. Resolve(late, "expired", upcoming, {}) /\ UNCHANGED <<client, now, deadline, loop, history, reloads>>
    BY <1>7 DEF Sweep
  <2>2. late \in SUBSET Requests
    OBVIOUS
  <2> QED
    BY <1>5, <2>1, <2>2
<1>8. ASSUME NEW v \in Views, v.cards = upcoming.cards, NEW lists \in SUBSET [Tools -> Marks],
             Asks /\ lists = {} => v.marks = upcoming.marks, Dispatch(v, lists),
             intent' \in [Tools -> Marks], missed' \subseteq Tools, \A t \in Tools \ missed' : v.marks[t] = intent'[t],
             acts < MaxActs, acts' = acts + 1,
             UNCHANGED <<client, now, decision, deadline, resolvers, loop, clicked, reloads>>
      PROVE  ApprovalInv' /\ Consent
  <2>1. /\ upcoming' = v
        /\ {view', upcoming'} \subseteq Views
        /\ {seen', storage'} \subseteq [Tools -> Marks]
        /\ failed' \in BOOLEAN /\ Kept'
    BY <1>t, <1>8, DispatchKeeps
  <2>2. acts' \in 0..MaxActs
    BY <1>t, <1>8 DEF TypeOK
  <2>3. TypeOK'
    BY <1>t, <1>8, <2>1, <2>2 DEF TypeOK, Kept
  <2>4. Screen'
    BY <1>t, <1>8, <2>1 DEF Screen
  <2>5. Consent
    BY <1>8, <1>q
  <2> QED
    BY <2>3, <2>4, <2>5 DEF ApprovalInv
<1>9. ASSUME NEW tl \in Tools, NEW m \in Marks, ChangeMark(tl, m) PROVE ApprovalInv' /\ Consent
  <2> DEFINE v == Mark(upcoming, tl, m)
             lists == Written(upcoming, tl, m)
  <2>1. upcoming \in Views /\ upcoming.marks \in [Tools -> Marks] /\ intent \in [Tools -> Marks] /\ missed \subseteq Tools
    BY <1>t DEF TypeOK, Views
  <2>2. /\ v \in Views /\ v.cards = upcoming.cards /\ v.marks = [upcoming.marks EXCEPT ![tl] = m]
        /\ lists \in SUBSET [Tools -> Marks] /\ (Asks /\ lists = {} => v.marks = upcoming.marks)
    BY <2>1, ReducerFields, WrittenIsSaved
  <2>3. /\ Dispatch(v, lists) /\ acts < MaxActs /\ acts' = acts + 1
        /\ intent' = [intent EXCEPT ![tl] = m] /\ missed' = missed \ {tl}
        /\ UNCHANGED <<client, now, decision, deadline, resolvers, loop, clicked, reloads>>
    BY <1>9 DEF ChangeMark
  <2> HIDE DEF v, lists
  <2>4. intent' \in [Tools -> Marks] /\ missed' \subseteq Tools
    BY <2>1, <2>3
  <2>5. ASSUME NEW t \in Tools \ missed' PROVE v.marks[t] = intent'[t]
    BY <1>t, <2>1, <2>2, <2>3, <2>5 DEF Screen
  <2> QED
    BY <1>8, <2>2, <2>3, <2>4, <2>5
<1>10. ASSUME ClearMarks PROVE ApprovalInv' /\ Consent
  <2> DEFINE none == [tl \in Tools |-> "unset"]
             v == [upcoming EXCEPT !.marks = none]
  <2>1. v \in Views /\ v.cards = upcoming.cards /\ v.marks = none /\ none \in [Tools -> Marks]
    BY <1>t DEF TypeOK, Views, Marks
  <2>2. /\ ~Asks /\ Dispatch(v, {}) /\ intent' = none /\ missed' = {} /\ acts < MaxActs /\ acts' = acts + 1
        /\ UNCHANGED <<client, now, decision, deadline, resolvers, loop, clicked, reloads>>
    BY <1>10 DEF ClearMarks
  <2> HIDE DEF v, none
  <2>3. {} \in SUBSET [Tools -> Marks]
    OBVIOUS
  <2> QED
    BY <1>8, <2>1, <2>2, <2>3
<1>11. ASSUME Render PROVE ApprovalInv' /\ Consent
  <2>1. /\ view' = upcoming /\ seen' = (IF client = "hook" THEN upcoming.marks ELSE seen)
        /\ Saves /\ toWrite' = {}
        /\ UNCHANGED <<client, now, decision, deadline, resolvers, loop, upcoming, clicked, intent, missed, acts, reloads>>
    BY <1>11 DEF Render, history
  <2>2. upcoming.marks \in [Tools -> Marks] /\ toWrite \subseteq [Tools -> Marks] /\ storage \in [Tools -> Marks] /\ failed \in BOOLEAN
    BY <1>t DEF TypeOK, Views
  <2>3. /\ storage' \in [Tools -> Marks] /\ failed' \in BOOLEAN
        /\ storage' = upcoming.marks \/ failed' \/ (toWrite = {} /\ UNCHANGED <<storage, failed>>)
    BY <2>1, <2>2 DEF Saves
  <2>4. TypeOK'
    BY <1>t, <2>1, <2>2, <2>3 DEF TypeOK
  <2>5. Kept'
    BY <1>t, <2>1, <2>3 DEF Screen, Kept, Asks, Batches
  <2>6. Screen'
    BY <1>t, <2>1, <2>5 DEF Screen
  <2> QED
    BY <1>q, <2>1, <2>4, <2>6 DEF ApprovalInv
<1>12. ASSUME Effect PROVE ApprovalInv' /\ Consent
  <2>1. view.marks \in [Tools -> Marks]
    BY <1>t DEF TypeOK, Views
  <2>2. TypeOK'
    BY <1>t, <1>12, <2>1 DEF Effect, TypeOK, disk, history
  <2>3. Screen'
    BY <1>t, <1>12 DEF Effect, Screen, Kept, Asks, Batches, disk, history
  <2> QED
    BY <1>q, <1>12, <2>2, <2>3 DEF ApprovalInv, Effect
<1>13. ASSUME Reload PROVE ApprovalInv' /\ Consent
  <2>1. /\ Asks /\ reloads < MaxReloads /\ reloads' = reloads + 1
        /\ decision' = [r \in Requests |-> IF r \in resolvers \cup loop /\ decision[r] # "allowed"
                                             THEN "lost" ELSE decision[r]]
        /\ resolvers' = {} /\ loop' = {} /\ toWrite' = {}
        /\ UNCHANGED <<client, now, deadline, storage, clicked, intent, acts>>
    BY <1>13 DEF Reload
  <2>2. decision' \in [Requests -> Decisions] /\ resolvers' = {r \in Requests : decision'[r] = "waiting"}
    BY <1>t, <2>1 DEF TypeOK, Decisions
  <2>3. storage \in [Tools -> Marks] /\ [t \in Tools |-> "unset"] \in [Tools -> Marks]
    BY <1>t DEF TypeOK, Marks
  <2>4. PICK read \in [Tools -> Marks], threw \in BOOLEAN :
          /\ Loads(read, threw) /\ (threw \/ read = storage)
    BY <1>13, <2>3 DEF Reload
  <2>5. /\ view' = [cards |-> {}, marks |-> read] /\ upcoming' = view' /\ seen' = read /\ failed' = threw
        /\ missed' = {t \in Tools : read[t] # intent[t] /\ (t \in missed \/ failed \/ threw \/ upcoming # view)}
    BY <2>4 DEF Loads
  <2>6. view' \in Views /\ view'.cards = {} /\ view'.marks = read
    BY <2>5 DEF Views
  <2>7. reloads' \in 0..MaxReloads
    BY <1>t, <2>1 DEF TypeOK
  <2>8. TypeOK'
    BY <1>t, <1>none, <2>1, <2>2, <2>3, <2>5, <2>6, <2>7 DEF TypeOK
  <2>9. ASSUME NEW t \in Tools \ missed', read[t] # intent[t] PROVE FALSE
    <3>1. t \notin missed /\ ~failed /\ ~threw /\ upcoming = view
      BY <2>5, <2>9
    <3>2. read[t] = upcoming.marks[t]
      BY <1>t, <2>1, <2>4, <3>1 DEF Screen, Kept
    <3> QED
      BY <1>t, <2>9, <3>1, <3>2 DEF Screen
  <2>10. Kept'
    BY <2>1, <2>4, <2>5, <2>6 DEF Kept
  <2>11. Screen'
    BY <2>1, <2>5, <2>6, <2>9, <2>10 DEF Screen
  <2>12. Consent
    BY <1>t, <1>q, <2>1 DEF TypeOK
  <2> QED
    BY <2>8, <2>11, <2>12 DEF ApprovalInv
<1>14. ASSUME Tick PROVE ApprovalInv' /\ Consent
  <2>1. TypeOK'
    BY <1>t, <1>14 DEF Tick, TypeOK, disk, history
  <2>2. Screen'
    BY <1>t, <1>14 DEF Tick, Screen, Kept, Asks, Batches, disk, history
  <2> QED
    BY <1>q, <1>14, <2>1, <2>2 DEF ApprovalInv, Tick
<1>15. ASSUME UNCHANGED vars PROVE ApprovalInv' /\ Consent
  <2>1. TypeOK'
    BY <1>t, <1>15 DEF vars, TypeOK, disk, history
  <2>2. Screen'
    BY <1>t, <1>15 DEF vars, Screen, Kept, Asks, Batches, disk, history
  <2> QED
    BY <1>q, <1>15, <2>1, <2>2 DEF ApprovalInv, vars
<1> QED
  BY <1>1, <1>2, <1>3, <1>4, <1>6, <1>7, <1>9, <1>10, <1>11, <1>12, <1>13, <1>14, <1>15 DEF Next, User

-----------------------------------------------------------------------------
(* Whatever the user, the clock and the renders do, in whichever order,    *)
(* what is to be shown agrees with the promises and with the user's word.  *)
THEOREM ApprovalInvariant == Spec => []ApprovalInv
<1> QED
  BY ApprovalInit, ApprovalStep, PTL DEF Spec

(* The variables keep their types, and the requests that wait are those    *)
(* with a pending promise.                                                 *)
THEOREM ApprovalTyped == Spec => []TypeOK
<1>1. ApprovalInv => TypeOK
  BY DEF ApprovalInv
<1> QED
  BY <1>1, ApprovalInvariant, PTL

(* With nothing left to reduce the cards are those of the pending promises,*)
(* the marks are the user's last word where no restart has missed it, and  *)
(* what is stored is what is shown unless localStorage threw and nothing   *)
(* was saved since (ToolApprovalContext.tsx:39-54, 109-180).               *)
THEOREM ScreenIsTrue == Spec => []ScreenTellsTheTruth
<1>1. ApprovalInv => ScreenTellsTheTruth
  BY DEF ApprovalInv, Screen, Kept, ScreenTellsTheTruth
<1> QED
  BY <1>1, ApprovalInvariant, PTL

(* No step runs a tool without a click on its card or a standing word of   *)
(* the user, unless a restart has missed that word                         *)
(* (ToolApprovalContext.tsx:39-54, 163-221).                               *)
THEOREM ConsentIsAsked == Spec => NoRunWithoutConsent
<1>1. ApprovalInv /\ [Next]_vars => [Consent]_vars
  BY ApprovalStep
<1>2. Spec => [][Consent]_vars
  BY <1>1, ApprovalInvariant, PTL DEF Spec
<1> QED
  BY <1>2 DEF NoRunWithoutConsent, Consent
=============================================================================
