------------------------- MODULE ThreadQueueProofs -------------------------
(***************************************************************************)
(* Proofs about the promise chain of ThreadQueue for any set of threads    *)
(* and any number of tasks.  As long as nobody clears the queue, bodies of *)
(* one thread exclude each other, run in the order of their calls, and     *)
(* has() is exact; with clears, the map still holds no dead entry.         *)
(***************************************************************************)
EXTENDS ThreadQueue, TLAPS

(* The chain: a task hangs behind a smaller task of its thread, everything *)
(* older than what it hangs behind is over, and the map holds the youngest *)
(* unfinished task of a thread, or nothing when all are finished.          *)
BornInOrder ==
  \A t \in Tasks : /\ t <= issued <=> stage[t] # "unborn"
                   /\ t <= issued => threadOf[t] \in Threads
                   /\ t > issued => threadOf[t] = NoThread /\ after[t] = NoTask

LinksPointBack ==
  \A t \in Tasks : after[t] # NoTask => after[t] < t /\ threadOf[after[t]] = threadOf[t]

NothingSkipped ==
  \A s, t \in Tasks :
    s < t /\ t <= issued /\ threadOf[s] = threadOf[t] /\ ~Finished(s) => s <= after[t]

TailIsYoungest ==
  \A th \in Threads :
    /\ Has(th) => /\ pending[th] <= issued
                  /\ threadOf[pending[th]] = th
                  /\ ~Finished(pending[th])
    /\ \A t \in Tasks : t <= issued /\ threadOf[t] = th /\ ~Finished(t) => t <= pending[th]

ChainInv ==
  TypeOK /\ BornInOrder /\ LinksPointBack /\ NothingSkipped /\ TailIsYoungest /\ StartsInOrder

-----------------------------------------------------------------------------
(* The type invariant holds with and without clears: enqueue, the          *)
(* reactions and clear keep every map and counter within its range.        *)
THEOREM TypeCorrect == Safety => []TypeOK
<1> USE QueueAssumption DEF Tasks, NoTask, Stages
<1>1. Init => TypeOK
  BY DEF Init, TypeOK
<1>2. TypeOK /\ [Next]_vars => TypeOK'
  <2> SUFFICES ASSUME TypeOK, [Next]_vars PROVE TypeOK'
    OBVIOUS
  <2> USE DEF TypeOK
  <2>1. ASSUME NEW th \in Threads, Enqueue(th) PROVE TypeOK'
    BY <2>1 DEF Enqueue, NextTask
  <2>2. ASSUME NEW t \in Tasks, Start(t) PROVE TypeOK'
    BY <2>2 DEF Start
  <2>3. ASSUME NEW t \in Tasks, Settle(t) PROVE TypeOK'
    BY <2>3 DEF Settle
  <2>4. ASSUME NEW t \in Tasks, Reap(t) PROVE TypeOK'
    BY <2>4 DEF Reap
  <2>5. ASSUME NEW t \in Tasks, Clear(t) PROVE TypeOK'
    BY <2>5 DEF Clear
  <2>6. CASE UNCHANGED vars
    BY <2>6 DEF vars
  <2> QED
    BY <2>1, <2>2, <2>3, <2>4, <2>5, <2>6 DEF Next, SerialNext
<1> QED
  BY <1>1, <1>2, PTL DEF Safety

(* The initial state has no tasks, so the chain is empty. *)
LEMMA ChainInit == Init => ChainInv
  BY QueueAssumption
  DEF Init, ChainInv, TypeOK, BornInOrder, LinksPointBack, NothingSkipped, TailIsYoungest,
      StartsInOrder, Started, Finished, Has, Tasks, NoTask, Stages

(* Steps that do not clear the queue keep the chain. *)
LEMMA ChainStep == ChainInv /\ [SerialNext]_vars => ChainInv'
<1> SUFFICES ASSUME ChainInv, [SerialNext]_vars PROVE ChainInv'
  OBVIOUS
<1> USE QueueAssumption DEF Tasks, NoTask, Finished
<1>0. TypeOK /\ BornInOrder /\ LinksPointBack /\ NothingSkipped /\ TailIsYoungest /\ StartsInOrder
  BY DEF ChainInv
<1>1. ASSUME NEW th \in Threads, Enqueue(th) PROVE ChainInv'
  <2> DEFINE n == issued + 1
  <2>0. /\ n \in Tasks /\ n = issued + 1 /\ issued' = n /\ issued \in Nat
        /\ threadOf' = [threadOf EXCEPT ![n] = th]
        /\ after' = [after EXCEPT ![n] = pending[th]]
        /\ stage' = [stage EXCEPT ![n] = "waiting"]
        /\ pending' = [pending EXCEPT ![th] = n]
        /\ stage[n] = "unborn" /\ threadOf[n] = NoThread
        /\ pending[th] < n
    BY <1>0, <1>1 DEF Enqueue, NextTask, TypeOK, BornInOrder, TailIsYoungest, Has
  <2> HIDE DEF n
  <2>1. TypeOK'
    BY <1>0, <2>0 DEF TypeOK, Stages
  <2>2. BornInOrder'
    BY <1>0, <2>0 DEF TypeOK, BornInOrder
  <2>3. LinksPointBack'
    BY <1>0, <2>0 DEF TypeOK, LinksPointBack, TailIsYoungest, Has, BornInOrder
  <2>4. NothingSkipped'
    BY <1>0, <2>0 DEF TypeOK, NothingSkipped, TailIsYoungest, Has, BornInOrder
  <2>5. TailIsYoungest'
    BY <1>0, <2>0 DEF TypeOK, TailIsYoungest, Has, BornInOrder
  <2>6. StartsInOrder'
    BY <1>0, <2>0 DEF TypeOK, StartsInOrder, Started, BornInOrder
  <2> QED
    BY <2>1, <2>2, <2>3, <2>4, <2>5, <2>6 DEF ChainInv
<1>2. ASSUME NEW t \in Tasks, Start(t) PROVE ChainInv'
  <2>0. /\ stage[t] = "waiting" /\ Released(t)
        /\ stage' = [stage EXCEPT ![t] = "running"]
        /\ UNCHANGED <<issued, threadOf, after, pending>>
    BY <1>2 DEF Start
  <2>1. TypeOK'
    BY <1>0, <2>0 DEF TypeOK, Stages
  <2>2. BornInOrder' /\ LinksPointBack' /\ NothingSkipped' /\ TailIsYoungest'
    BY <1>0, <2>0
    DEF TypeOK, BornInOrder, LinksPointBack, NothingSkipped, TailIsYoungest, Has
  <2>3. ASSUME NEW s \in Tasks, s < t, threadOf[s] = threadOf[t] PROVE stage[s] = "reaped"
    <3> SUFFICES ASSUME stage[s] # "reaped" PROVE FALSE
      OBVIOUS
    <3>1. s <= after[t]
      BY <1>0, <2>0, <2>3 DEF TypeOK, NothingSkipped, BornInOrder
    <3>2. after[t] \in Tasks /\ stage[after[t]] = "reaped" /\ threadOf[after[t]] = threadOf[t]
      BY <1>0, <2>0, <3>1 DEF TypeOK, Released, LinksPointBack
    <3>3. s # after[t]
      BY <3>2
    <3>4. s < after[t]
      BY <3>1, <3>2, <3>3
    <3> QED
      BY <1>0, <2>3, <3>2, <3>4 DEF StartsInOrder, Started
  <2>4. StartsInOrder'
    BY <1>0, <2>0, <2>3 DEF TypeOK, StartsInOrder, Started
  <2> QED
    BY <2>1, <2>2, <2>4 DEF ChainInv
<1>3. ASSUME NEW t \in Tasks, Settle(t) PROVE ChainInv'
  <2>0. /\ stage[t] = "running"
        /\ stage' = [stage EXCEPT ![t] = "settled"]
        /\ UNCHANGED <<issued, threadOf, after, pending>>
    BY <1>3 DEF Settle
  <2>1. TypeOK'
    BY <1>0, <2>0 DEF TypeOK, Stages
  <2>2. BornInOrder' /\ LinksPointBack' /\ NothingSkipped' /\ TailIsYoungest'
    BY <1>0, <2>0
    DEF TypeOK, BornInOrder, LinksPointBack, NothingSkipped, TailIsYoungest, Has
  <2>3. StartsInOrder'
    BY <1>0, <2>0 DEF TypeOK, StartsInOrder, Started
  <2> QED
    BY <2>1, <2>2, <2>3 DEF ChainInv
<1>4. ASSUME NEW t \in Tasks, Reap(t) PROVE ChainInv'
  <2>0. /\ stage[t] = "settled"
        /\ stage' = [stage EXCEPT ![t] = "reaped"]
        /\ pending' = IF pending[threadOf[t]] = t
                      THEN [pending EXCEPT ![threadOf[t]] = NoTask]
                      ELSE pending
        /\ UNCHANGED <<issued, threadOf, after>>
        /\ t <= issued /\ threadOf[t] \in Threads /\ issued \in Nat
    BY <1>0, <1>4 DEF Reap, TypeOK, BornInOrder
  <2>1. TypeOK'
    BY <1>0, <2>0 DEF TypeOK, Stages
  <2>2. BornInOrder' /\ LinksPointBack' /\ NothingSkipped'
    BY <1>0, <2>0 DEF TypeOK, BornInOrder, LinksPointBack, NothingSkipped
  <2>3. TailIsYoungest'
    <3>1. ASSUME NEW s \in Tasks, threadOf[s] = threadOf[t], s < t PROVE stage[s] = "reaped"
      BY <1>0, <2>0, <3>1 DEF StartsInOrder, Started
    <3> QED
      BY <1>0, <2>0, <3>1 DEF TypeOK, TailIsYoungest, Has
  <2>4. StartsInOrder'
    BY <1>0, <2>0 DEF TypeOK, StartsInOrder, Started
  <2> QED
    BY <2>1, <2>2, <2>3, <2>4 DEF ChainInv
<1>5. CASE UNCHANGED vars
  BY <1>0, <1>5
  DEF vars, ChainInv, TypeOK, BornInOrder, LinksPointBack, NothingSkipped, TailIsYoungest,
      StartsInOrder, Started, Has
<1> QED
  BY <1>1, <1>2, <1>3, <1>4, <1>5 DEF SerialNext

(* The chain is an invariant of the queue nobody clears. *)
THEOREM ChainHolds == SerialSafety => []ChainInv
  BY ChainInit, ChainStep, PTL DEF SerialSafety

(* At most one body of a thread is in progress at any time, for any number *)
(* of threads and calls: of two that are, the older would have to be over. *)
THEOREM RunsExcludeEachOther == SerialSafety => []MutualExclusion
<1>1. ChainInv => MutualExclusion
  <2> SUFFICES ASSUME ChainInv,
                      NEW s \in Tasks, NEW t \in Tasks,
                      stage[s] = "running", stage[t] = "running", threadOf[s] = threadOf[t]
               PROVE s = t
    BY DEF MutualExclusion
  <2>1. ~(s < t) /\ ~(t < s)
    BY DEF ChainInv, StartsInOrder, Started, Finished
  <2> QED
    BY <2>1, QueueAssumption DEF Tasks
<1> QED
  BY <1>1, ChainHolds, PTL

(* Bodies of one thread are called in the order of the enqueue calls, each *)
(* only when its predecessors are over and cleaned up.                     *)
THEOREM RunsInOrder == SerialSafety => []StartsInOrder
<1>1. ChainInv => StartsInOrder
  BY DEF ChainInv
<1> QED
  BY <1>1, ChainHolds, PTL

(* has() answers exactly whether a thread still has a task to finish.      *)
THEOREM HasExact == SerialSafety => []HasIsExact
<1>1. ChainInv => HasIsExact
  <2> SUFFICES ASSUME ChainInv, NEW th \in Threads
               PROVE Has(th) <=> \E t \in Issued : threadOf[t] = th /\ ~Finished(t)
    BY DEF HasIsExact
  <2> USE DEF ChainInv, Tasks, NoTask, Issued
  <2>1. ASSUME Has(th) PROVE \E t \in Issued : threadOf[t] = th /\ ~Finished(t)
    BY <2>1, QueueAssumption DEF TypeOK, TailIsYoungest, Has
  <2>2. ASSUME NEW t \in Issued, threadOf[t] = th, ~Finished(t) PROVE Has(th)
    BY <2>2, QueueAssumption DEF TypeOK, TailIsYoungest, Has
  <2> QED
    BY <2>1, <2>2
<1> QED
  BY <1>1, ChainHolds, PTL

-----------------------------------------------------------------------------
(* What a clear cannot break: the map never keeps a finished tail or the   *)
(* tail of another thread, whoever clears it and when.                     *)
EntryInv == TypeOK /\ BornInOrder /\ NoEntryOutlivesItsTail

(* The first call of enqueue finds an empty map. *)
LEMMA EntryInit == Init => EntryInv
  BY QueueAssumption
  DEF Init, EntryInv, TypeOK, BornInOrder, NoEntryOutlivesItsTail, Has, Stages, Tasks, NoTask

(* No step leaves a dead tail in the map, a clear included. *)
LEMMA EntryStep == EntryInv /\ [Next]_vars => EntryInv'
<1> SUFFICES ASSUME EntryInv, [Next]_vars PROVE EntryInv'
  OBVIOUS
<1> USE QueueAssumption DEF Tasks, NoTask, Finished
<1>0. TypeOK /\ BornInOrder /\ NoEntryOutlivesItsTail
  BY DEF EntryInv
<1> USE DEF NoEntryOutlivesItsTail, BornInOrder, Has, Issued
<1>1. ASSUME NEW th \in Threads, Enqueue(th) PROVE EntryInv'
  <2>1. TypeOK'
    BY <1>0, <1>1 DEF TypeOK, Stages, Enqueue, NextTask
  <2>2. BornInOrder'
    BY <1>0, <1>1 DEF TypeOK, Enqueue, NextTask
  <2>3. NoEntryOutlivesItsTail'
    BY <1>0, <1>1 DEF TypeOK, Enqueue, NextTask
  <2> QED
    BY <2>1, <2>2, <2>3 DEF EntryInv
<1>2. ASSUME NEW t \in Tasks, Start(t) \/ Settle(t) PROVE EntryInv'
  BY <1>0, <1>2 DEF EntryInv, TypeOK, Stages, Start, Settle
<1>3. ASSUME NEW t \in Tasks, Reap(t) PROVE EntryInv'
  <2>1. TypeOK'
    BY <1>0, <1>3 DEF TypeOK, Stages, Reap
  <2>2. BornInOrder'
    BY <1>0, <1>3 DEF TypeOK, Reap
  <2>3. NoEntryOutlivesItsTail'
    BY <1>0, <1>3 DEF TypeOK, Reap
  <2> QED
    BY <2>1, <2>2, <2>3 DEF EntryInv
<1>4. ASSUME NEW t \in Tasks, Clear(t) PROVE EntryInv'
  BY <1>0, <1>4 DEF EntryInv, TypeOK, Stages, Clear
<1>5. CASE UNCHANGED vars
  BY <1>0, <1>5 DEF vars, EntryInv, TypeOK
<1> QED
  BY <1>1, <1>2, <1>3, <1>4, <1>5 DEF Next, SerialNext

(* So no dead tail is ever in the map. *)
THEOREM NoDeadEntries == Safety => []NoEntryOutlivesItsTail
<1>1. EntryInv => NoEntryOutlivesItsTail
  BY DEF EntryInv
<1> QED
  BY <1>1, EntryInit, EntryStep, PTL DEF Safety

-----------------------------------------------------------------------------
(* Every step of the uncleared queue is a step of the serial execution it    *)
(* implements, or leaves it alone.                                         *)
LEMMA StepRefines == ChainInv /\ ChainInv' /\ [SerialNext]_vars => [Serial!Next]_(Serial!vars)
<1> SUFFICES ASSUME ChainInv, ChainInv', [SerialNext]_vars
             PROVE  [Serial!Next]_(Serial!vars)
  OBVIOUS
<1> USE QueueAssumption DEF Tasks, NoTask, Serial!Tasks
<1>0. /\ stage \in [Tasks -> Stages] /\ stage' \in [Tasks -> Stages]
      /\ issued \in 0..MaxTasks /\ BornInOrder
  BY DEF ChainInv, TypeOK
<1> DEFINE bar == [t \in Tasks |-> Progress[stage[t]]]
<1>1. ASSUME NEW th \in Threads, Enqueue(th) PROVE Serial!Submit(th)
  <2>1. bar' = [bar EXCEPT ![issued + 1] = "queued"]
    BY <1>0, <1>1 DEF Enqueue, NextTask, Stages, Progress
  <2> QED
    BY <1>0, <1>1, <2>1 DEF Enqueue, NextTask, Serial!Submit
<1>2. ASSUME NEW t \in Tasks, Start(t) PROVE Serial!Begin(t)
  <2>0. bar[t] = "queued"
    BY <1>0, <1>2 DEF Start, Progress
  <2>1. bar' = [bar EXCEPT ![t] = "running"]
    BY <1>0, <1>2 DEF Start, Progress
  <2>2. \A s \in Tasks : s < t /\ threadOf[s] = threadOf[t] => bar[s] = "done"
    BY <1>0, <1>2 DEF Start, ChainInv, StartsInOrder, Started, Finished, Stages, Progress, TypeOK
  <2> QED
    BY <1>2, <2>0, <2>1, <2>2 DEF Start, Serial!Begin
<1>3. ASSUME NEW t \in Tasks, Settle(t) PROVE Serial!End(t)
  <2>0. bar[t] = "running"
    BY <1>0, <1>3 DEF Settle, Progress
  <2>1. bar' = [bar EXCEPT ![t] = "done"]
    BY <1>0, <1>3 DEF Settle, Progress
  <2> QED
    BY <1>3, <2>0, <2>1 DEF Settle, Serial!End
<1>4. ASSUME NEW t \in Tasks, Reap(t) PROVE UNCHANGED Serial!vars
  <2>1. bar' = bar
    BY <1>0, <1>4 DEF Reap, Stages, Progress
  <2> QED
    BY <1>4, <2>1 DEF Reap, Serial!vars
<1>5. CASE UNCHANGED vars
  BY <1>5 DEF vars, Serial!vars
<1> QED
  BY <1>1, <1>2, <1>3, <1>4, <1>5 DEF SerialNext, Serial!Next

(* The promise chain implements the serial execution: submission order is  *)
(* execution order and the runs of a thread never overlap.                 *)
THEOREM RefinesSerialExecution == SerialSafety => Serial!SafetySpec
<1>1. Init => Serial!Init
  BY DEF Init, Serial!Init, Serial!Tasks, Tasks, Progress
<1> QED
  BY <1>1, ChainHolds, StepRefines, PTL DEF SerialSafety, Serial!SafetySpec
=============================================================================
