-------------------------- MODULE SerialExecution --------------------------
(***************************************************************************)
(* What a per-thread task queue promises its callers, without saying how:  *)
(* every task is submitted to one thread, the tasks of a thread run one at *)
(* a time, and they run in the order of their submission.  Threads do not  *)
(* wait for each other.                                                    *)
(***************************************************************************)
EXTENDS Naturals

CONSTANTS Threads,    \* the conversation threads
          NoThread,   \* the thread of a task that is not submitted yet
          MaxTasks    \* bound: how many tasks are ever submitted

Tasks == 1..MaxTasks

VARIABLES submitted,  \* how many tasks have been submitted
          threadOf,   \* threadOf[t]: the thread task t was submitted to
          progress    \* progress[t]: idle, queued, running or done

vars == <<submitted, threadOf, progress>>

Init ==
  /\ submitted = 0
  /\ threadOf = [t \in Tasks |-> NoThread]
  /\ progress = [t \in Tasks |-> "idle"]

(* A caller hands the next task over for thread th. *)
Submit(th) ==
  /\ submitted < MaxTasks
  /\ submitted' = submitted + 1
  /\ threadOf' = [threadOf EXCEPT ![submitted + 1] = th]
  /\ progress' = [progress EXCEPT ![submitted + 1] = "queued"]

(* A task begins only when everything submitted before it to the same      *)
(* thread is done.                                                         *)
Begin(t) ==
  /\ progress[t] = "queued"
  /\ \A s \in Tasks : s < t /\ threadOf[s] = threadOf[t] => progress[s] = "done"
  /\ progress' = [progress EXCEPT ![t] = "running"]
  /\ UNCHANGED <<submitted, threadOf>>

End(t) ==
  /\ progress[t] = "running"
  /\ progress' = [progress EXCEPT ![t] = "done"]
  /\ UNCHANGED <<submitted, threadOf>>

Next == (\E th \in Threads : Submit(th)) \/ (\E t \in Tasks : Begin(t) \/ End(t))

Fairness == \A t \in Tasks : WF_vars(Begin(t)) /\ WF_vars(End(t))

Spec == Init /\ [][Next]_vars /\ Fairness

(* The safety part alone: what the proofs refine. *)
SafetySpec == Init /\ [][Next]_vars
=============================================================================
