---------------------------- MODULE ThreadQueue ----------------------------
(***************************************************************************)
(* The per-thread promise chain of src/agent-streemr/src/server/queue.ts.  *)
(*                                                                         *)
(* A task is the promise `next` one call of enqueue creates; tasks are     *)
(* numbered in the order of their creation.  Its life is                   *)
(*                                                                         *)
(*   waiting   chained behind `prev`, the body has not been called         *)
(*   running   the body was called and its promise has not settled         *)
(*   settled   `next` has resolved (a rejection is caught and swallowed)   *)
(*   reaped    the cleanup reaction on `next` has run                      *)
(*                                                                         *)
(* Every arrow is a microtask of the event loop, so a step of another      *)
(* caller may come between any two of them.  The cleanup reaction of a     *)
(* task is registered before any reaction a successor chains to it, hence  *)
(* a successor starts only after it.                                       *)
(***************************************************************************)
EXTENDS Naturals

CONSTANTS Threads,    \* the non-blank thread ids
          NoThread,   \* threadOf of a task that does not exist yet
          MaxTasks    \* bound: how many calls of enqueue a behaviour has

ASSUME QueueAssumption == NoThread \notin Threads /\ MaxTasks \in Nat

Tasks  == 1..MaxTasks
NoTask == 0
Stages == {"unborn", "waiting", "running", "settled", "reaped"}

VARIABLES issued,     \* how many tasks exist
          threadOf,   \* threadOf[t]: the id enqueue was called with
          after,      \* after[t]: the promise t is chained on, NoTask for Promise.resolve()
          stage,      \* stage[t]: how far t has come
          pending     \* pending[th]: the tail the map _pending holds, NoTask for no entry

vars == <<issued, threadOf, after, stage, pending>>

TypeOK ==
  /\ issued \in 0..MaxTasks
  /\ threadOf \in [Tasks -> Threads \cup {NoThread}]
  /\ after \in [Tasks -> Tasks \cup {NoTask}]
  /\ stage \in [Tasks -> Stages]
  /\ pending \in [Threads -> Tasks \cup {NoTask}]

Init ==
  /\ issued = 0
  /\ threadOf = [t \in Tasks |-> NoThread]
  /\ after = [t \in Tasks |-> NoTask]
  /\ stage = [t \in Tasks |-> "unborn"]
  /\ pending = [th \in Threads |-> NoTask]

(* has(threadId) *)
Has(th) == pending[th] # NoTask

(* The task the next call of enqueue creates. *)
NextTask == issued + 1

(* Seeded fault: the tail is not recorded. *)
EnqueueForgetsTail(th) ==
  /\ issued < MaxTasks
  /\ issued' = NextTask
  /\ threadOf' = [threadOf EXCEPT ![NextTask] = th]
  /\ after' = [after EXCEPT ![NextTask] = pending[th]]
  /\ stage' = [stage EXCEPT ![NextTask] = "waiting"]
  /\ pending' = IF Has(th) THEN pending ELSE [pending EXCEPT ![th] = NextTask]

(* enqueue(threadId, task): chain behind the tail, become the tail. *)
Enqueue(th) ==
  /\ issued < MaxTasks
  /\ issued' = NextTask
  /\ threadOf' = [threadOf EXCEPT ![NextTask] = th]
  /\ after' = [after EXCEPT ![NextTask] = pending[th]]
  /\ stage' = [stage EXCEPT ![NextTask] = "waiting"]
  /\ pending' = [pending EXCEPT ![th] = NextTask]

(* Seeded fault: the body's promise is not returned into the chain, so a   *)
(* successor waits for the call of the body and not for its end.           *)
ReleasedByStart(t) == after[t] # NoTask => stage[after[t]] \notin {"unborn", "waiting"}

(* prev.then(() => task()): the body is called once prev has resolved and  *)
(* the reactions registered on it earlier have run.                        *)
Released(t) == after[t] # NoTask => stage[after[t]] = "reaped"

Start(t) ==
  /\ stage[t] = "waiting"
  /\ Released(t)
  /\ stage' = [stage EXCEPT ![t] = "running"]
  /\ UNCHANGED <<issued, threadOf, after, pending>>

(* Seeded fault: without .catch a failing body rejects the chain. *)
SettleUncaught(t) ==
  /\ stage[t] = "running"
  /\ \E outcome \in {"settled", "rejected"} : stage' = [stage EXCEPT ![t] = outcome]
  /\ UNCHANGED <<issued, threadOf, after, pending>>

(* The body's promise resolves, or rejects and is swallowed by .catch. *)
Settle(t) ==
  /\ stage[t] = "running"
  /\ stage' = [stage EXCEPT ![t] = "settled"]
  /\ UNCHANGED <<issued, threadOf, after, pending>>

(* Seeded fault: the cleanup deletes whatever tail the map holds. *)
ReapDeletesAnyTail(t) ==
  /\ stage[t] = "settled"
  /\ stage' = [stage EXCEPT ![t] = "reaped"]
  /\ pending' = [pending EXCEPT ![threadOf[t]] = NoTask]
  /\ UNCHANGED <<issued, threadOf, after>>

(* Seeded fault: no cleanup of the map. *)
ReapKeepsEntry(t) ==
  /\ stage[t] = "settled"
  /\ stage' = [stage EXCEPT ![t] = "reaped"]
  /\ UNCHANGED <<issued, threadOf, after, pending>>

(* next.then(cleanup): drop the map entry if next is still the tail. *)
Reap(t) ==
  /\ stage[t] = "settled"
  /\ stage' = [stage EXCEPT ![t] = "reaped"]
  /\ pending' = IF pending[threadOf[t]] = t
                THEN [pending EXCEPT ![threadOf[t]] = NoTask]
                ELSE pending
  /\ UNCHANGED <<issued, threadOf, after>>

(* clear(threadId).  Its one caller is a task of that thread, the one      *)
(* clear_context enqueues.                                                 *)
Clear(t) ==
  /\ stage[t] = "running"
  /\ pending' = [pending EXCEPT ![threadOf[t]] = NoTask]
  /\ UNCHANGED <<issued, threadOf, after, stage>>

(* The steps of the queue when no task clears it. *)
SerialNext ==
  \/ \E th \in Threads : Enqueue(th)
  \/ \E t \in Tasks : Start(t) \/ Settle(t) \/ Reap(t)

Next == SerialNext \/ \E t \in Tasks : Clear(t)

(* Reactions are run by the event loop.  That bodies settle is what the    *)
(* runs owe: every wait inside one carries a timeout or ends with its      *)
(* stream.                                                                 *)
Fairness == \A t \in Tasks : WF_vars(Start(t)) /\ WF_vars(Settle(t)) /\ WF_vars(Reap(t))

SerialSafety == Init /\ [][SerialNext]_vars
SerialSpec   == SerialSafety /\ Fairness
Safety       == Init /\ [][Next]_vars
Spec         == Safety /\ Fairness
-----------------------------------------------------------------------------
(***************************************************************************)
(* Properties.                                                             *)
(***************************************************************************)
Started(t)  == stage[t] \in {"running", "settled", "reaped"}
Finished(t) == stage[t] = "reaped"
Issued      == {t \in Tasks : t <= issued}

(* queue.ts promises "at most one agent run is active at a time per        *)
(* thread": two bodies of one thread are never in progress together,       *)
(* whatever enqueue calls fall between a settlement and its cleanup.       *)
MutualExclusion ==
  \A s, t \in Tasks :
    stage[s] = "running" /\ stage[t] = "running" /\ threadOf[s] = threadOf[t] => s = t

(* Calls for one thread "execute in order": once a body was called, every  *)
(* earlier task of its thread is over, cleanup included.                   *)
StartsInOrder ==
  \A s, t \in Tasks :
    s < t /\ threadOf[s] = threadOf[t] /\ Started(t) => Finished(s)

(* has() neither forgets a thread that still has work (the caller would    *)
(* announce it idle) nor remembers one that has drained (the map would     *)
(* grow and the caller would never announce it idle).                      *)
HasIsExact ==
  \A th \in Threads : Has(th) <=> \E t \in Issued : threadOf[t] = th /\ ~Finished(t)

(* What is left of HasIsExact when tasks may clear the queue: the map      *)
(* never keeps a finished tail, or one of another thread, so a drained     *)
(* thread leaves no entry behind.                                          *)
NoEntryOutlivesItsTail ==
  \A th \in Threads :
    Has(th) => /\ pending[th] \in Issued
               /\ threadOf[pending[th]] = th
               /\ ~Finished(pending[th])

(* Without a clear, the chain of promises implements the serial execution  *)
(* callers rely on.  A settled task counts as done: its successor is held  *)
(* back until the cleanup, which the abstract task cannot see.             *)
Progress == [unborn |-> "idle", waiting |-> "queued", running |-> "running",
             settled |-> "done", reaped |-> "done"]

Serial == INSTANCE SerialExecution
            WITH submitted <- issued,
                 progress <- [t \in Tasks |-> Progress[stage[t]]]

ImplementsSerialExecution == Serial!Spec
=============================================================================
