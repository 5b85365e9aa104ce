------------------------- MODULE AgentListenerProofs -------------------------
(***************************************************************************)
(* Proofs about the socket listener for any threads, sockets, agents,      *)
(* requests and modes, with as many messages, responses and clears as the  *)
(* bounds allow.  The listener drives a queue and a registry, and the      *)
(* proofs lean on theirs: every turn of the event loop is a step of the    *)
(* queue or leaves it alone, and every registry a turn leaves behind is    *)
(* well formed.  The last part is about the handshake and the inactivity   *)
(* timer of one socket.                                                    *)
(***************************************************************************)
EXTENDS AgentListener, InactivityTimeout, FiniteSetTheorems, TLAPS

QP == INSTANCE ThreadQueueProofs
RP == INSTANCE LocalToolRegistryProofs

-----------------------------------------------------------------------------
(***************************************************************************)
(* The components.  Q and R are the instances the listener is written      *)
(* with, QP and RP those the proofs about them are made for.               *)
(***************************************************************************)

(* Both instances of the queue are the same queue. *)
LEMMA SameQueue ==
  /\ Q!Init <=> QP!Init
  /\ Q!TypeOK <=> QP!TypeOK
  /\ [Q!Next]_(Q!vars) <=> [QP!Next]_(QP!vars)
  /\ [Q!SerialNext]_(Q!vars) <=> [QP!SerialNext]_(QP!vars)
<1> USE DEF Q!Tasks, QP!Tasks, Q!NoTask, QP!NoTask, Q!NextTask, QP!NextTask
<1>1. Q!Init <=> QP!Init
  BY DEF Q!Init, QP!Init
<1>2. Q!TypeOK <=> QP!TypeOK
  BY DEF Q!TypeOK, QP!TypeOK, Q!Stages, QP!Stages
<1>3. \A th : Q!Enqueue(th) <=> QP!Enqueue(th)
  BY DEF Q!Enqueue, QP!Enqueue
<1>4. \A t : Q!Start(t) <=> QP!Start(t)
  BY DEF Q!Start, QP!Start, Q!Released, QP!Released
<1>5. \A t : Q!Settle(t) <=> QP!Settle(t)
  BY DEF Q!Settle, QP!Settle
<1>6. \A t : Q!Reap(t) <=> QP!Reap(t)
  BY DEF Q!Reap, QP!Reap
<1>7. \A t : Q!Clear(t) <=> QP!Clear(t)
  BY DEF Q!Clear, QP!Clear
<1>8. [Q!SerialNext]_(Q!vars) <=> [QP!SerialNext]_(QP!vars)
  BY <1>3, <1>4, <1>5, <1>6 DEF Q!SerialNext, QP!SerialNext, Q!vars, QP!vars
<1>9. [Q!Next]_(Q!vars) <=> [QP!Next]_(QP!vars)
  BY <1>3, <1>4, <1>5, <1>6, <1>7
  DEF Q!Next, QP!Next, Q!SerialNext, QP!SerialNext, Q!vars, QP!vars
<1> QED
  BY <1>1, <1>2, <1>8, <1>9

(* Both instances of the registry are the same registry. *)
LEMMA SameRegistry ==
  /\ R!Registry = RP!Registry /\ R!Empty = RP!Empty
  /\ \A g, r, t : R!TrackEmit(g, r, t) = RP!TrackEmit(g, r, t)
  /\ \A g, r, t : R!AwaitResponse(g, r, t) = RP!AwaitResponse(g, r, t)
  /\ \A g, r : R!Timeout(g, r) = RP!Timeout(g, r)
  /\ \A g, th, t : R!ClearExpired(g, th, t) = RP!ClearExpired(g, th, t)
  /\ \A g, th : R!ClearThread(g, th) = RP!ClearThread(g, th)
  /\ \A g, r, status : R!HandleResponse(g, r, status) = RP!HandleResponse(g, r, status)
  /\ \A g, r : R!Accepts(g, r) <=> RP!Accepts(g, r)
<1> USE DEF R!None, RP!None, R!Of, RP!Of
<1>1. R!Registry = RP!Registry
  BY DEF R!Registry, RP!Registry, R!Outcomes, RP!Outcomes, R!Failures, RP!Failures
<1>2. R!Empty = RP!Empty
  BY DEF R!Empty, RP!Empty
<1>3. \A g, r, t : R!TrackEmit(g, r, t) = RP!TrackEmit(g, r, t)
  BY DEF R!TrackEmit, RP!TrackEmit
<1>4. \A g, r, t : R!AwaitResponse(g, r, t) = RP!AwaitResponse(g, r, t)
  BY DEF R!AwaitResponse, RP!AwaitResponse
<1>5. \A g, S, v : R!Resolve(g, S, v) = RP!Resolve(g, S, v)
  BY DEF R!Resolve, RP!Resolve
<1>6. \A g, r : R!Timeout(g, r) = RP!Timeout(g, r)
  BY <1>5 DEF R!Timeout, RP!Timeout
<1>7. \A g, th, t : R!Expired(g, th, t) = RP!Expired(g, th, t)
  BY DEF R!Expired, RP!Expired
<1>8. \A g, th, t : R!ClearExpired(g, th, t) = RP!ClearExpired(g, th, t)
  BY <1>5, <1>7 DEF R!ClearExpired, RP!ClearExpired
<1>9. \A g, th : R!ClearThread(g, th) = RP!ClearThread(g, th)
  BY <1>5 DEF R!ClearThread, RP!ClearThread
<1>10. \A g, r : R!Accepts(g, r) <=> RP!Accepts(g, r)
  BY DEF R!Accepts, RP!Accepts
<1>11. \A g, r : R!Dispatch(g, r) = RP!Dispatch(g, r)
  BY DEF R!Dispatch, RP!Dispatch
<1>12. \A g, r, status : R!Deliver(g, r, status) = RP!Deliver(g, r, status)
  BY <1>5 DEF R!Deliver, RP!Deliver
<1>13. \A g, r, status : R!HandleResponse(g, r, status) = RP!HandleResponse(g, r, status)
  BY <1>10, <1>11, <1>12 DEF R!HandleResponse, RP!HandleResponse
<1> QED
  BY <1>1, <1>2, <1>3, <1>4, <1>6, <1>8, <1>9, <1>10, <1>13

(* Every turn of the event loop is a step of the queue or leaves it alone. *)
LEMMA TurnIsQueueStep == [Next]_vars => [Q!Next]_(Q!vars)
<1> SUFFICES ASSUME [Next]_vars PROVE [Q!Next]_(Q!vars)
  OBVIOUS
<1> USE DEF queueVars, Q!vars
<1>1. ASSUME NEW t \in Tasks, TaskStep(t) PROVE [Q!Next]_(Q!vars)
  BY <1>1 DEF TaskStep, StartRun, FinishRun, ClearBody, FinishClear, Reap, DrainCheck,
              Q!Next, Q!SerialNext, Tasks
<1>2. ASSUME NEW t \in Tasks, NEW r \in Requests, CallTool(t, r) PROVE [Q!Next]_(Q!vars)
  BY <1>2 DEF CallTool
<1>3. ASSUME NEW s \in Sockets PROVE ThreadOfSocket[s] \in Threads
  BY ListenerAssumption
<1>4. ASSUME NEW s \in Sockets, NEW inline \in BOOLEAN, Message(s, inline)
      PROVE  [Q!Next]_(Q!vars)
  BY <1>3, <1>4 DEF Message, EnqueueRun, Q!Next, Q!SerialNext
<1>5. ASSUME NEW s \in Sockets, SetContext(s) \/ ClearContext(s) PROVE [Q!Next]_(Q!vars)
  BY <1>3, <1>5 DEF SetContext, ClearContext, Q!Next, Q!SerialNext
<1>6. ASSUME NEW s \in Sockets, NEW r \in Requests, NEW status \in Statuses,
             Respond(s, r, status)
      PROVE  [Q!Next]_(Q!vars)
  BY <1>3, <1>6
  DEF Respond, Refused, AcceptedSync, AcceptedAsync, EnqueueRun, Q!Next, Q!SerialNext
<1>7. ASSUME NEW r \in Requests, AwaitTimesOut(r) PROVE [Q!Next]_(Q!vars)
  BY <1>7 DEF AwaitTimesOut
<1>8. CASE Tick
  BY <1>8 DEF Tick
<1>9. CASE UNCHANGED vars
  BY <1>9 DEF vars
<1> QED
  BY <1>1, <1>2, <1>4, <1>5, <1>6, <1>7, <1>8, <1>9 DEF Next

(* The listener uses its queue as the queue is meant to be used.           *)
THEOREM ListenerDrivesQueue == Spec => Q!Safety
<1>1. Init => Q!Init
  BY DEF Init
<1> QED
  BY <1>1, TurnIsQueueStep, PTL DEF Spec, Q!Safety

-----------------------------------------------------------------------------
(***************************************************************************)
(* The inductive invariant.  The first group of parts holds whatever the   *)
(* clients send, the second until the first clear_context.                 *)
(***************************************************************************)

(* A task has a job from the call of enqueue on, for a socket of its thread. *)
JobsBorn ==
  \A t \in Tasks :
    /\ t > issued => job[t] = NoJob
    /\ t <= issued => /\ job[t].kind # "none" /\ job[t].sock \in Sockets
                      /\ threadOf[t] = ThreadOfSocket[job[t].sock]

(* Only what a run asked for is on the maps, a fire-and-forget request     *)
(* never is; an awaiter stands for a sync request that is still live; a    *)
(* response was acknowledged once its request is over.                     *)
AskedFor(r) ==
  /\ owner[r] = Q!NoTask \/ ModeOf[r] = "fire_and_forget" => r \notin reg.emitted
  /\ r \in reg.awaiters <=> r \in reg.awaiting /\ ModeOf[r] = "sync"
  /\ r \in acked => r \in reg.emitted /\ r \notin reg.awaiting

FollowedUp(r) ==
  IF r \in acked /\ ModeOf[r] = "async"
  THEN \E t \in Tasks : FollowUps(r) = {t}
  ELSE FollowUps(r) = {}

RegistryUsed == RP!Sound(reg) /\ reg.processors = Tools /\ \A r \in Requests : AskedFor(r)

ListenerInv ==
  /\ TypeOK /\ QP!EntryInv /\ RegistryUsed /\ JobsBorn
  /\ \A r \in Requests : FollowedUp(r)

(* What a client told before its message is in the context until the run   *)
(* starts, and in what the run found when it did.                          *)
ToldKept(t) ==
  /\ stage[t] = "waiting" => job[t].knew \subseteq told[ContextKey(t)]
  /\ stage[t] = "running" => job[t].knew \subseteq seen[t].told

(* The same for the tool result a follow-up run is about.                  *)
LearntKept(t) ==
  job[t].kind = "followup" =>
    /\ stage[t] = "waiting" => job[t].about \in learnt[ContextKey(t)]
    /\ stage[t] = "running" => job[t].about \in seen[t].learnt

(* Follow-up runs use the context without agent: the other runs find what  *)
(* processors recorded only where no client names an agent.                *)
NoAgentsNamed == \A s \in Sockets : AgentOf[s] = NoAgent

(* Each thread is used by one client.                                      *)
OneSocketPerThread ==
  \A s, u \in Sockets : ThreadOfSocket[s] = ThreadOfSocket[u] => s = u

(* A client shows a working agent because of a task whose drain check is   *)
(* still to come.                                                          *)
LightExplained(s) ==
  light[s] => \E t \in Tasks : threadOf[t] = ThreadOfSocket[s] /\ t \notin drained

UnclearedInv ==
  /\ QP!ChainInv
  /\ \A t \in Tasks : job[t].kind # "clear"
  /\ \A t \in drained : stage[t] = "reaped"
  /\ \A t \in Tasks : ToldKept(t)
  /\ NoAgentsNamed => \A t \in Tasks : LearntKept(t)
  /\ OneSocketPerThread => \A s \in Sockets : LightExplained(s)

UntilCleared == clears = 0 => UnclearedInv

(* Every registry a turn leaves behind is well formed, and used as the     *)
(* listener means to use it.                                               *)
LEMMA RegistryTurn == ListenerInv /\ [Next]_vars => RegistryUsed'
<1> SUFFICES ASSUME ListenerInv, [Next]_vars PROVE RegistryUsed'
  OBVIOUS
<1>1. /\ RP!Sound(reg) /\ reg.processors = Tools /\ now \in Nat
      /\ \A q \in Requests : AskedFor(q)
      /\ owner \in [Requests -> Tasks \cup {Q!NoTask}]
      /\ reg \in RP!Registry
  BY DEF ListenerInv, RegistryUsed, TypeOK, R!TypeOK, RP!Sound
<1>2. /\ ThreadOf \in [Requests -> Threads] /\ RP!RegistryAssumption
      /\ ModeOf \in [Requests -> {"sync", "async", "fire_and_forget"}]
  BY ComponentAssumption, ListenerAssumption DEF R!RegistryAssumption, RP!RegistryAssumption,
     R!Failures, RP!Failures, R!None, RP!None
<1>3. \A q \in Requests : RP!Unused(reg, q) /\ RP!Reachable(reg, q)
  BY <1>1 DEF RP!Sound, RP!SoundAt
<1>4. \A t \in Tasks : t # Q!NoTask
  BY ComponentAssumption DEF Tasks, Q!Tasks, Q!NoTask, Q!QueueAssumption
<1>5. CASE UNCHANGED <<reg, owner, acked>>
  BY <1>1, <1>5 DEF RegistryUsed, AskedFor
<1>6. ASSUME NEW t \in Tasks, NEW r \in Requests, CallTool(t, r) PROVE RegistryUsed'
  <2>1. /\ owner[r] = Q!NoTask /\ owner' = [owner EXCEPT ![r] = t] /\ acked' = acked
        /\ threadOf[t] \in Threads
    BY <1>2, <1>6 DEF CallTool
  <2>2. /\ r \notin reg.emitted /\ r \notin reg.awaiting /\ r \notin reg.awaiters
        /\ r \notin acked
    BY <1>1, <1>3, <2>1 DEF AskedFor, RP!Unused, RP!None, RP!Reachable
  <2>3. CASE CallUntrackedTool(t, r)
    BY <1>1, <1>4, <2>1, <2>3 DEF CallUntrackedTool, RegistryUsed, AskedFor
  <2>4. CASE CallTrackedTool(t, r)
    <3> DEFINE E == RP!Expired(reg, threadOf[t], now)
               g == RP!ClearExpired(reg, threadOf[t], now)
               e == RP!TrackEmit(g, r, now)
    <3>1. /\ RP!Sound(g) /\ g \in RP!Registry
          /\ g.emitted = reg.emitted /\ g.awaiting = reg.awaiting \ E
          /\ g.awaiters = reg.awaiters \ E /\ g.processors = reg.processors
      BY <1>1, <1>2, <2>1, RP!ClearExpiredSound, RP!ClearExpiredFields
      DEF RP!RegistryAssumption, RP!Sound
    <3> HIDE DEF g, E
    <3>2. /\ RP!Sound(e) /\ e \in RP!Registry
          /\ e.emitted = g.emitted \cup {r} /\ e.awaiting = g.awaiting \cup {r}
          /\ e.awaiters = g.awaiters /\ e.processors = g.processors
          /\ e.early = g.early /\ e.promise = g.promise
      BY <1>1, <1>2, <2>2, <3>1, RP!TrackEmitSound, RP!TrackEmitFields
      DEF RP!RegistryAssumption, RP!Sound
    <3>3. e.early[r] = RP!None /\ e.promise[r] = RP!None
      BY <2>2, <3>1, <3>2 DEF RP!Sound, RP!SoundAt, RP!Unused
    <3> HIDE DEF e
    <3>4. /\ ModeOf[r] \in {"sync", "async"}
          /\ reg' = IF ModeOf[r] = "sync" THEN RP!AwaitResponse(e, r, now) ELSE e
      BY <2>4, SameRegistry DEF CallTrackedTool, e, g
    <3>5. CASE ModeOf[r] = "sync"
      <4>1. /\ RP!Sound(reg') /\ reg'.emitted = e.emitted /\ reg'.awaiting = e.awaiting
            /\ reg'.awaiters = e.awaiters \cup {r} /\ reg'.processors = e.processors
        BY <1>1, <1>2, <3>2, <3>3, <3>4, <3>5, RP!AwaitResponseSound, RP!AwaitResponseFields
        DEF RP!RegistryAssumption
      <4> QED
        BY <1>1, <1>4, <2>1, <2>2, <3>1, <3>2, <3>5, <4>1 DEF RegistryUsed, AskedFor
    <3>6. CASE ModeOf[r] # "sync"
      BY <1>1, <1>4, <2>1, <2>2, <3>1, <3>2, <3>4, <3>6 DEF RegistryUsed, AskedFor
    <3> QED
      BY <3>5, <3>6
  <2> QED
    BY <1>6, <2>3, <2>4 DEF CallTool
<1>7. ASSUME NEW t \in Tasks, ClearBody(t) PROVE RegistryUsed'
  <2> DEFINE th == threadOf[t]
  <2>1. th \in Threads
    BY <1>7 DEF ClearBody, ListenerInv, QP!EntryInv, QP!BornInOrder, Tasks, Q!Tasks, QP!Tasks
  <2>2. reg' = RP!ClearThread(reg, th) /\ UNCHANGED <<owner, acked>>
    BY <1>7, SameRegistry DEF ClearBody
  <2>3. /\ RP!Sound(reg') /\ reg'.emitted = reg.emitted
        /\ reg'.awaiting = reg.awaiting \ RP!Of(th)
        /\ reg'.awaiters = reg.awaiters \ RP!Of(th) /\ reg'.processors = reg.processors
    BY <1>1, <1>2, <2>1, <2>2, RP!ClearThreadSound, RP!ClearThreadFields
    DEF RP!RegistryAssumption
  <2> QED
    BY <1>1, <2>2, <2>3 DEF RegistryUsed, AskedFor
<1>8. ASSUME NEW s \in Sockets, NEW r \in Requests, NEW status \in Statuses,
             Respond(s, r, status)
      PROVE  RegistryUsed'
  <2> DEFINE E == RP!Expired(reg, ThreadOf[r], now)
             g == RP!ClearExpired(reg, ThreadOf[r], now)
             A == {q \in {r} : RP!Accepts(g, r)}
  <2>1. /\ RP!Sound(g) /\ g \in RP!Registry
        /\ g.emitted = reg.emitted /\ g.awaiting = reg.awaiting \ E
        /\ g.awaiters = reg.awaiters \ E /\ g.processors = reg.processors
    BY <1>1, <1>2, RP!ClearExpiredSound, RP!ClearExpiredFields
    DEF RP!RegistryAssumption, RP!Sound
  <2>2. reg' = RP!HandleResponse(g, r, status) /\ owner' = owner
    BY <1>8, SameRegistry DEF Respond
  <2>3. acked' = acked \cup A
    BY <1>8, SameRegistry DEF Respond, Refused, AcceptedSync, AcceptedAsync
  <2> HIDE DEF g, E
  <2>4. /\ RP!Sound(reg') /\ reg'.emitted = g.emitted /\ reg'.awaiting = g.awaiting \ A
        /\ reg'.awaiters = g.awaiters \ A /\ reg'.processors = g.processors
    BY <1>2, <2>1, <2>2, RP!HandleResponseSound, RP!HandleResponseFields
    DEF RP!RegistryAssumption
  <2>5. RP!Accepts(g, r) => r \in reg.emitted
    BY <1>3, <2>1 DEF RP!Accepts, RP!Unused, RP!Reachable, RP!None
  <2> QED
    BY <1>1, <2>1, <2>2, <2>3, <2>4, <2>5 DEF RegistryUsed, AskedFor
<1>9. ASSUME NEW r \in Requests, AwaitTimesOut(r) PROVE RegistryUsed'
  <2>1. /\ r \in reg.timers /\ reg' = RP!Timeout(reg, r) /\ UNCHANGED <<owner, acked>>
    BY <1>9, SameRegistry DEF AwaitTimesOut, R!FireTimer, toolVars
  <2>2. /\ RP!Sound(reg') /\ reg'.emitted = reg.emitted /\ reg'.awaiting = reg.awaiting \ {r}
        /\ reg'.awaiters = reg.awaiters \ {r} /\ reg'.processors = reg.processors
    BY <1>1, <1>2, <2>1, RP!TimeoutSound, RP!TimeoutFields DEF RP!RegistryAssumption
  <2> QED
    BY <1>1, <2>1, <2>2 DEF RegistryUsed, AskedFor
<1>10. ASSUME NEW t \in Tasks, TaskStep(t), ~ClearBody(t)
       PROVE  UNCHANGED <<reg, owner, acked>>
  BY <1>10 DEF TaskStep, StartRun, FinishRun, FinishClear, Reap, DrainCheck, toolVars
<1>11. ASSUME NEW s \in Sockets, NEW inline \in BOOLEAN,
              Message(s, inline) \/ SetContext(s) \/ ClearContext(s)
       PROVE  UNCHANGED <<reg, owner, acked>>
  BY <1>11 DEF Message, SetContext, ClearContext, toolVars
<1>12. Tick \/ UNCHANGED vars => UNCHANGED <<reg, owner, acked>>
  BY DEF Tick, R!Tick, vars, toolVars
<1> QED
  BY <1>5, <1>6, <1>7, <1>8, <1>9, <1>10, <1>11, <1>12 DEF Next

(* The queue stays sound under every turn. *)
LEMMA QueueTurn == ListenerInv /\ [Next]_vars => QP!EntryInv' /\ Q!TypeOK'
<1>1. QP!EntryInv /\ [QP!Next]_(QP!vars) => QP!EntryInv'
  BY ComponentAssumption, QP!EntryStep DEF Q!QueueAssumption
<1>2. QP!EntryInv' => QP!TypeOK'
  BY DEF QP!EntryInv
<1>3. QP!TypeOK' => Q!TypeOK'
  BY DEF Q!TypeOK, QP!TypeOK, Q!Stages, QP!Stages, Q!Tasks, QP!Tasks, Q!NoTask, QP!NoTask
<1> QED
  BY <1>1, <1>2, <1>3, TurnIsQueueStep, SameQueue DEF ListenerInv

(* Tasks are numbers, and the next one has no job yet. *)
LEMMA TaskFacts ==
  /\ Tasks = 1..MaxTasks /\ Q!Tasks = 1..MaxTasks /\ QP!Tasks = 1..MaxTasks
  /\ Q!NoTask = 0 /\ QP!NoTask = 0 /\ MaxTasks \in Nat /\ Q!NextTask = issued + 1
  /\ NoThread \notin Threads
  BY ComponentAssumption
  DEF Tasks, Q!Tasks, QP!Tasks, Q!NoTask, QP!NoTask, Q!QueueAssumption, Q!NextTask

(* A turn creates a task with job j for socket s, or creates none and at   *)
(* most marks a clear as done.  A follow-up comes with the acknowledgement *)
(* of an async response not acknowledged before; without a follow-up, only *)
(* sync responses are acknowledged.                                        *)
NewJob(s, j) ==
  /\ Q!Enqueue(ThreadOfSocket[s])
  /\ job' = [job EXCEPT ![Q!NextTask] = j]
  /\ j.kind # "none" /\ j.sock = s
  /\ IF j.kind = "followup"
     THEN /\ j.about \in Requests \ acked /\ ModeOf[j.about] = "async"
          /\ acked' = acked \cup {j.about}
     ELSE acked' = acked

SameJobs ==
  /\ UNCHANGED <<issued, threadOf>>
  /\ job' = job \/ \E t \in Tasks : job[t].kind = "clear" /\ job' = [job EXCEPT ![t].done = TRUE]
  /\ acked' = acked \/ \E r \in Requests : ModeOf[r] = "sync" /\ acked' = acked \cup {r}

(* An accepted response is one to a request that nobody acknowledged yet,  *)
(* and whose deadline has not passed; it is async unless it is awaited.    *)
LEMMA AcceptedResponse ==
  ASSUME ListenerInv, NEW r \in Requests,
         R!Accepts(R!ClearExpired(reg, ThreadOf[r], now), r)
  PROVE  /\ r \notin acked /\ now < reg.expiresAt[r]
         /\ IF r \in R!ClearExpired(reg, ThreadOf[r], now).awaiters
            THEN ModeOf[r] = "sync" ELSE ModeOf[r] = "async"
<1> DEFINE E == RP!Expired(reg, ThreadOf[r], now)
           g == RP!ClearExpired(reg, ThreadOf[r], now)
<1>1. /\ reg \in RP!Registry /\ now \in Nat /\ AskedFor(r) /\ RP!Unused(reg, r)
      /\ ThreadOf[r] \in Threads /\ ModeOf[r] \in {"sync", "async", "fire_and_forget"}
  BY ComponentAssumption, ListenerAssumption
  DEF ListenerInv, RegistryUsed, TypeOK, R!TypeOK, RP!Sound, RP!SoundAt, R!RegistryAssumption
<1>2. g.awaiting = reg.awaiting \ E /\ g.awaiters = reg.awaiters \ E
  BY <1>1, ComponentAssumption, RP!ClearExpiredFields
  DEF R!RegistryAssumption, R!Failures, R!None, RP!Failures, RP!None
<1>3. RP!Accepts(g, r) /\ g = R!ClearExpired(reg, ThreadOf[r], now)
  BY SameRegistry
<1> HIDE DEF g, E
<1>4. r \in reg.awaiting /\ r \notin E
  BY <1>1, <1>2, <1>3 DEF RP!Accepts, AskedFor
<1>5. now < reg.expiresAt[r]
  <2>1. reg.expiresAt[r] \in Nat
    BY <1>1 DEF RP!Registry
  <2> QED
    BY <1>1, <1>4, <2>1 DEF E, RP!Expired, RP!Of
<1>6. r \notin acked /\ ModeOf[r] # "fire_and_forget"
  BY <1>1, <1>4 DEF AskedFor, RP!Unused
<1> QED
  BY <1>1, <1>2, <1>3, <1>4, <1>5, <1>6 DEF AskedFor

(* Every variable keeps its type. *)
LEMMA TypeTurn == ListenerInv /\ [Next]_vars => TypeOK'
<1> SUFFICES ASSUME ListenerInv, [Next]_vars PROVE TypeOK'
  OBVIOUS
<1> DEFINE Rest ==
      /\ now \in Nat
      /\ job \in [Tasks -> Jobs]
      /\ drained \subseteq Tasks
      /\ learnt \in [Contexts -> SUBSET Requests]
      /\ told \in [Contexts -> SUBSET Facts]
      /\ seen \in [Tasks -> [learnt : SUBSET Requests, told : SUBSET Facts]]
      /\ owner \in [Requests -> Tasks \cup {Q!NoTask}]
      /\ fnf \subseteq Requests
      /\ fnfUntil \in [Requests -> Nat]
      /\ acked \subseteq Requests
      /\ light \in [Sockets -> BOOLEAN]
      /\ updates \in 0..MaxUpdates /\ clears \in 0..MaxClears
<1>1. Rest
  BY DEF ListenerInv, TypeOK, R!TypeOK
<1>2. Q!TypeOK' /\ reg' \in R!Registry
  BY QueueTurn, RegistryTurn, SameRegistry DEF RegistryUsed, RP!Sound
<1>3. Rest' => TypeOK'
  BY <1>2 DEF TypeOK, R!TypeOK
<1>4. /\ \A s \in Sockets : AgentOf[s] \in Agents /\ ThreadOfSocket[s] \in Threads
                            /\ SocketKey(s) \in Contexts
      /\ NoAgent \in Agents /\ EmitTtl \in Nat /\ MaxUpdates \in Nat /\ MaxClears \in Nat
      /\ Q!NoTask \in Facts
  BY ListenerAssumption, ComponentAssumption
  DEF Agents, Contexts, SocketKey, Facts, R!RegistryAssumption
<1>5. \A t \in Tasks : t <= issued => ContextKey(t) \in Contexts
  BY TaskFacts DEF ListenerInv, QP!EntryInv, QP!BornInOrder, TypeOK, Jobs, Contexts, ContextKey
<1>6. ASSUME NEW t \in Tasks, TaskStep(t) PROVE Rest'
  <2>1. CASE StartRun(t)
    <3>1. t <= issued
      BY <2>1, TaskFacts DEF StartRun, Q!Start, ListenerInv, QP!EntryInv, QP!BornInOrder
    <3>2. [learnt |-> learnt[ContextKey(t)], told |-> told[ContextKey(t)]]
            \in [learnt : SUBSET Requests, told : SUBSET Facts]
      BY <1>1, <1>5, <3>1
    <3> HIDE DEF ContextKey
    <3>3. seen' \in [Tasks -> [learnt : SUBSET Requests, told : SUBSET Facts]]
      BY <1>1, <2>1, <3>2 DEF StartRun
    <3> QED
      BY <1>1, <2>1, <3>3 DEF StartRun, contextVars, toolVars
  <2>2. CASE FinishRun(t) \/ FinishClear(t) \/ Reap(t)
    BY <1>1, <2>2 DEF FinishRun, FinishClear, Reap, contextVars, toolVars
  <2>3. CASE ClearBody(t)
    <3>1. job[t] \in Jobs
      BY <1>1
    <3>2. [job[t] EXCEPT !.done = TRUE] \in Jobs
      BY <3>1 DEF Jobs
    <3>3. job' \in [Tasks -> Jobs]
      BY <1>1, <2>3, <3>2 DEF ClearBody
    <3> QED
      BY <1>1, <2>3, <3>3 DEF ClearBody
  <2>4. CASE DrainCheck(t)
    BY <1>1, <2>4 DEF DrainCheck, contextVars, toolVars
  <2> QED
    BY <1>6, <2>1, <2>2, <2>3, <2>4 DEF TaskStep
<1>7. ASSUME NEW t \in Tasks, NEW r \in Requests, CallTool(t, r) PROVE Rest'
  BY <1>1, <1>4, <1>7
  DEF CallTool, CallTrackedTool, CallUntrackedTool, contextVars
<1>8. ASSUME NEW s \in Sockets, NEW kind \in {"message", "followup"}, NEW agent \in Agents,
             NEW r \in Requests \cup {"none"}, NEW knew \in SUBSET Facts, NEW last \in BOOLEAN,
             EnqueueRun(s, kind, agent, r, knew, last)
      PROVE  job' \in [Tasks -> Jobs] /\ light' \in [Sockets -> BOOLEAN]
  BY <1>1, <1>8 DEF EnqueueRun, Jobs
<1>9. ASSUME NEW s \in Sockets, NEW inline \in BOOLEAN, Message(s, inline) PROVE Rest'
  <2>1. Q!NextTask \in Facts
    BY <1>9, TaskFacts
    DEF Message, EnqueueRun, Q!Enqueue, Facts, ListenerInv, TypeOK, Q!TypeOK
  <2>2. told' \in [Contexts -> SUBSET Facts] /\ updates' \in 0..MaxUpdates
    BY <1>1, <1>4, <1>9, <2>1 DEF Message, Update
  <2>3. job' \in [Tasks -> Jobs] /\ light' \in [Sockets -> BOOLEAN]
    BY <1>4, <1>8, <1>9, <2>2 DEF Message
  <2> QED
    BY <1>1, <1>9, <2>2, <2>3 DEF Message, toolVars
<1>10. ASSUME NEW s \in Sockets, SetContext(s) PROVE Rest'
  BY <1>1, <1>4, <1>10 DEF SetContext, Update, toolVars
<1>11. ASSUME NEW s \in Sockets, ClearContext(s) PROVE Rest'
  <2>1. [NoJob EXCEPT !.kind = "clear", !.sock = s, !.agent = AgentOf[s]] \in Jobs
    BY <1>4 DEF NoJob, Jobs
  <2>2. job' \in [Tasks -> Jobs]
    BY <1>1, <1>11, <2>1 DEF ClearContext
  <2>3. Q!NextTask \in Tasks
    BY <1>11, TaskFacts DEF ClearContext, Q!Enqueue, ListenerInv, TypeOK, Q!TypeOK
  <2> QED
    BY <1>1, <1>4, <1>11, <2>2, <2>3 DEF ClearContext, contextVars, toolVars
<1>12. ASSUME NEW s \in Sockets, NEW r \in Requests, NEW status \in Statuses,
              Respond(s, r, status)
       PROVE  Rest'
  <2>1. job' \in [Tasks -> Jobs] /\ light' \in [Sockets -> BOOLEAN]
    <3>1. CASE UNCHANGED <<job, light>>
      BY <1>1, <3>1
    <3>2. ASSUME NEW last \in BOOLEAN, EnqueueRun(s, "followup", NoAgent, r, {}, last)
          PROVE  job' \in [Tasks -> Jobs] /\ light' \in [Sockets -> BOOLEAN]
      BY <1>4, <1>8, <3>2
    <3> QED
      BY <1>12, <3>1, <3>2 DEF Respond, Refused, AcceptedSync, AcceptedAsync
  <2>2. fnf' \subseteq Requests /\ acked' \subseteq Requests
    BY <1>1, <1>12 DEF Respond, Refused, AcceptedSync, AcceptedAsync
  <2>3. learnt' \in [Contexts -> SUBSET Requests]
    BY <1>1, <1>4, <1>12 DEF Respond
  <2> QED
    BY <1>1, <1>12, <2>1, <2>2, <2>3 DEF Respond
<1>13. ASSUME NEW r \in Requests, AwaitTimesOut(r) PROVE Rest'
  BY <1>1, <1>13 DEF AwaitTimesOut, R!FireTimer, contextVars, toolVars
<1>14. ASSUME Tick PROVE Rest'
  BY <1>1, <1>14 DEF Tick, R!Tick, contextVars, toolVars
<1>15. ASSUME UNCHANGED vars PROVE Rest'
  BY <1>1, <1>15 DEF vars, contextVars, toolVars
<1>16. Rest'
  BY <1>6, <1>7, <1>9, <1>10, <1>11, <1>12, <1>13, <1>14, <1>15 DEF Next
<1> QED
  BY <1>3, <1>16

(* Every turn creates a task as NewJob says, or none as SameJobs says.     *)
LEMMA JobTurn ==
  ListenerInv /\ [Next]_vars => SameJobs \/ \E s \in Sockets : \E j : NewJob(s, j)
<1> SUFFICES ASSUME ListenerInv, [Next]_vars
             PROVE  SameJobs \/ \E s \in Sockets : \E j : NewJob(s, j)
  OBVIOUS
<1>1. ASSUME NEW t \in Tasks, TaskStep(t) PROVE SameJobs
  <2>1. CASE StartRun(t) \/ FinishRun(t) \/ FinishClear(t) \/ Reap(t) \/ DrainCheck(t)
    BY <2>1
    DEF StartRun, FinishRun, FinishClear, Reap, DrainCheck, SameJobs, queueVars, toolVars,
        Q!Start, Q!Settle, Q!Reap
  <2>2. CASE ClearBody(t)
    BY <2>2 DEF ClearBody, SameJobs, Q!Clear
  <2> QED
    BY <1>1, <2>1, <2>2 DEF TaskStep
<1>2. ASSUME NEW t \in Tasks, NEW r \in Requests, CallTool(t, r) PROVE SameJobs
  BY <1>2 DEF CallTool, SameJobs, queueVars
<1>3. ASSUME NEW s \in Sockets, NEW inline \in BOOLEAN, Message(s, inline)
      PROVE  \E j : NewJob(s, j)
  <2> DEFINE j == [kind |-> "message", sock |-> s, agent |-> AgentOf[s], about |-> "none",
                   knew |-> told'[SocketKey(s)], last |-> FALSE, done |-> FALSE]
  <2>1. j.kind = "message" /\ j.sock = s
    OBVIOUS
  <2>2. Q!Enqueue(ThreadOfSocket[s]) /\ job' = [job EXCEPT ![Q!NextTask] = j] /\ acked' = acked
    BY <1>3 DEF Message, EnqueueRun, toolVars
  <2> HIDE DEF j
  <2> QED
    BY <2>1, <2>2 DEF NewJob
<1>4. ASSUME NEW s \in Sockets, SetContext(s) PROVE SameJobs
  BY <1>4 DEF SetContext, SameJobs, queueVars, toolVars
<1>5. ASSUME NEW s \in Sockets, ClearContext(s) PROVE \E j : NewJob(s, j)
  <2> DEFINE j == [NoJob EXCEPT !.kind = "clear", !.sock = s, !.agent = AgentOf[s]]
  <2>1. j.kind = "clear" /\ j.sock = s
    BY DEF NoJob
  <2>2. Q!Enqueue(ThreadOfSocket[s]) /\ job' = [job EXCEPT ![Q!NextTask] = j] /\ acked' = acked
    BY <1>5 DEF ClearContext, toolVars
  <2> HIDE DEF j
  <2> QED
    BY <2>1, <2>2 DEF NewJob
<1>6. ASSUME NEW s \in Sockets, NEW r \in Requests, NEW status \in Statuses,
             Respond(s, r, status)
      PROVE  SameJobs \/ \E j : NewJob(s, j)
  <2> DEFINE g == R!ClearExpired(reg, ThreadOf[r], now)
             h == R!HandleResponse(g, r, status)
  <2>1. CASE Refused(g, r)
    BY <2>1 DEF Refused, SameJobs, queueVars
  <2>2. CASE AcceptedSync(g, r)
    BY <2>2, AcceptedResponse DEF AcceptedSync, SameJobs, queueVars
  <2>3. CASE AcceptedAsync(g, h, s, r)
    <3>1. r \notin acked /\ ModeOf[r] = "async"
      BY <2>3, AcceptedResponse DEF AcceptedAsync
    <3> DEFINE j == [kind |-> "followup", sock |-> s, agent |-> NoAgent, about |-> r, knew |-> {},
                     last |-> R!AwaitingCount(h, ThreadOf[r]) = 0, done |-> FALSE]
    <3>2. j.kind = "followup" /\ j.sock = s /\ j.about = r
      OBVIOUS
    <3>3. /\ Q!Enqueue(ThreadOfSocket[s]) /\ job' = [job EXCEPT ![Q!NextTask] = j]
          /\ acked' = acked \cup {r}
      BY <2>3 DEF AcceptedAsync, EnqueueRun
    <3> HIDE DEF j
    <3> QED
      BY <3>1, <3>2, <3>3 DEF NewJob
  <2> QED
    BY <1>6, <2>1, <2>2, <2>3 DEF Respond
<1>7. ASSUME NEW r \in Requests, AwaitTimesOut(r) PROVE SameJobs
  BY <1>7 DEF AwaitTimesOut, SameJobs, queueVars, toolVars
<1>8. Tick => SameJobs
  BY DEF Tick, SameJobs, queueVars, toolVars
<1>9. UNCHANGED vars => SameJobs
  BY DEF vars, SameJobs, queueVars, toolVars
<1> QED
  BY <1>1, <1>2, <1>3, <1>4, <1>5, <1>6, <1>7, <1>8, <1>9 DEF Next

(* Jobs and acknowledgements stay in step: a task works for a socket of    *)
(* its thread, an acknowledged async response has its one follow-up.       *)
LEMMA AnswerTurn ==
  ListenerInv /\ [Next]_vars => JobsBorn' /\ \A r \in Requests : FollowedUp(r)'
<1> SUFFICES ASSUME ListenerInv, [Next]_vars
             PROVE  JobsBorn' /\ \A r \in Requests : FollowedUp(r)'
  OBVIOUS
<1>1. /\ job \in [Tasks -> Jobs] /\ issued \in 0..MaxTasks
      /\ threadOf \in [Tasks -> Threads \cup {NoThread}]
      /\ JobsBorn /\ \A r \in Requests : FollowedUp(r)
      /\ Tasks = 1..MaxTasks /\ MaxTasks \in Nat
  BY TaskFacts DEF ListenerInv, TypeOK, Q!TypeOK, Tasks
<1>2. CASE SameJobs
  <2>1. \A t \in Tasks : /\ job'[t].kind = job[t].kind /\ job'[t].about = job[t].about
                         /\ job'[t].sock = job[t].sock
                         /\ job[t].kind # "clear" => job'[t] = job[t]
    BY <1>1, <1>2 DEF SameJobs, Jobs
  <2>2. JobsBorn'
    <3>1. issued' = issued /\ threadOf' = threadOf /\ NoJob.kind # "clear"
      BY <1>2 DEF SameJobs, NoJob
    <3>2. \A t \in Tasks : t > issued => job'[t] = NoJob
      BY <1>1, <2>1, <3>1 DEF JobsBorn
    <3> QED
      BY <1>1, <2>1, <3>1, <3>2 DEF JobsBorn
  <2>3. ASSUME NEW r \in Requests PROVE FollowedUp(r)'
    <3>1. FollowUps(r)' = FollowUps(r)
      BY <2>1 DEF FollowUps
    <3>2. r \in acked' /\ ModeOf[r] = "async" <=> r \in acked /\ ModeOf[r] = "async"
      BY <1>2 DEF SameJobs
    <3> QED
      BY <1>1, <3>1, <3>2 DEF FollowedUp
  <2> QED
    BY <2>2, <2>3
<1>3. ASSUME NEW s \in Sockets, NEW j, NewJob(s, j)
      PROVE  JobsBorn' /\ \A r \in Requests : FollowedUp(r)'
  <2> DEFINE n == issued + 1
  <2>1. /\ n \in Tasks /\ issued' = n /\ issued \in Nat /\ n > issued
        /\ threadOf' = [threadOf EXCEPT ![n] = ThreadOfSocket[s]]
        /\ job' = [job EXCEPT ![n] = j] /\ j.kind # "none" /\ j.sock = s
    BY <1>1, <1>3, TaskFacts DEF NewJob, Q!Enqueue
  <2> HIDE DEF n
  <2>2. JobsBorn'
    BY <1>1, <2>1 DEF JobsBorn, n
  <2>3. ASSUME NEW r \in Requests PROVE FollowedUp(r)'
    <3>1. job[n].kind = "none"
      BY <1>1, <2>1 DEF JobsBorn, NoJob
    <3>2. CASE j.kind = "followup" /\ j.about = r
      <4>1. r \notin acked /\ ModeOf[r] = "async" /\ r \in acked'
        BY <1>3, <3>2 DEF NewJob
      <4>2. FollowUps(r) = {}
        BY <1>1, <4>1 DEF FollowedUp
      <4>3. FollowUps(r)' = {n}
        BY <1>1, <2>1, <3>2, <4>2 DEF FollowUps
      <4> QED
        BY <2>1, <4>1, <4>3 DEF FollowedUp
    <3>3. CASE ~(j.kind = "followup" /\ j.about = r)
      <4>1. r \in acked' <=> r \in acked
        BY <1>3, <3>3 DEF NewJob
      <4>2. FollowUps(r)' = FollowUps(r)
        BY <1>1, <2>1, <3>1, <3>3 DEF FollowUps
      <4> QED
        BY <1>1, <4>1, <4>2 DEF FollowedUp
    <3> QED
      BY <3>2, <3>3
  <2> QED
    BY <2>2, <2>3
<1> QED
  BY <1>2, <1>3, JobTurn

(* Before the first event there is no task, no request and no light.       *)
LEMMA ListenerInit == Init => ListenerInv /\ UnclearedInv
<1> SUFFICES ASSUME Init PROVE ListenerInv /\ UnclearedInv
  OBVIOUS
<1>1. QP!EntryInv /\ QP!ChainInv /\ Q!TypeOK
  BY ComponentAssumption, SameQueue, QP!EntryInit, QP!ChainInit
  DEF Init, Q!QueueAssumption, QP!EntryInv
<1>2. reg = [RP!Empty EXCEPT !.processors = Tools] /\ now = 0
  BY SameRegistry DEF Init
<1>3. /\ reg \in RP!Registry /\ reg.processors = Tools /\ reg.emitted = {}
      /\ reg.awaiting = {} /\ reg.awaiters = {} /\ reg.timers = {} /\ reg.dropped = {}
      /\ \A r \in Requests : /\ reg.early[r] = RP!None /\ reg.promise[r] = RP!None
                             /\ reg.resolves[r] = 0 /\ reg.answers[r] = 0
                             /\ reg.answer[r] = RP!None
  BY <1>2 DEF RP!Empty, RP!Registry
<1>4. RP!Sound(reg)
  BY <1>3 DEF RP!Sound, RP!SoundAt, RP!Unused, RP!Reachable, RP!Resolved, RP!Kept,
              RP!Answered, RP!None
<1>5. \A r \in Requests : AskedFor(r)
  BY <1>3 DEF Init, AskedFor
<1>6. /\ issued = 0 /\ job = [t \in Tasks |-> NoJob] /\ stage = [t \in Tasks |-> "unborn"]
      /\ Tasks = 1..MaxTasks /\ drained = {} /\ acked = {}
  BY TaskFacts DEF Init, Q!Init, Tasks
<1>7. JobsBorn /\ \A r \in Requests : FollowedUp(r)
  BY <1>6, TaskFacts DEF JobsBorn, FollowedUp, FollowUps, NoJob
<1>8. TypeOK
  <2>1. NoJob \in Jobs
    BY DEF NoJob, Jobs, Agents
  <2> QED
    BY <1>1, <1>2, <1>3, <2>1, ListenerAssumption, SameRegistry DEF Init, TypeOK, R!TypeOK
<1>9. UnclearedInv
  BY <1>1, <1>6 DEF Init, UnclearedInv, ToldKept, LearntKept, LightExplained, NoJob
<1> QED
  BY <1>1, <1>3, <1>4, <1>5, <1>7, <1>8, <1>9 DEF ListenerInv, RegistryUsed

(* The first group of parts is an invariant, whatever the clients send.    *)
THEOREM ListenerSound == Spec => []ListenerInv
<1>1. ListenerInv /\ [Next]_vars => ListenerInv'
  BY TypeTurn, QueueTurn, RegistryTurn, AnswerTurn DEF ListenerInv
<1> QED
  BY <1>1, ListenerInit, PTL DEF Spec

(* The type invariant. *)
THEOREM ListenerTyped == Spec => []TypeOK
<1>1. ListenerInv => TypeOK
  BY DEF ListenerInv
<1> QED
  BY <1>1, ListenerSound, PTL

(* However often a client repeats its response, and whatever sweeps,       *)
(* timeouts and clears fall between, an acknowledged async response has    *)
(* one follow-up run and no other response has any.                        *)
THEOREM OneFollowUp == Spec => []OneFollowUpPerAnswer
<1>1. ListenerInv => OneFollowUpPerAnswer
  <2> SUFFICES ASSUME ListenerInv, NEW r \in Requests
               PROVE  Cardinality(FollowUps(r)) =
                        IF r \in acked /\ ModeOf[r] = "async" THEN 1 ELSE 0
    BY DEF OneFollowUpPerAnswer
  <2>1. FollowedUp(r)
    BY DEF ListenerInv
  <2>2. CASE r \in acked /\ ModeOf[r] = "async"
    <3>1. PICK t \in Tasks : FollowUps(r) = {t}
      BY <2>1, <2>2 DEF FollowedUp
    <3> QED
      BY <2>2, <3>1, FS_Singleton
  <2>3. CASE ~(r \in acked /\ ModeOf[r] = "async")
    BY <2>1, <2>3, FS_EmptySet DEF FollowedUp
  <2> QED
    BY <2>2, <2>3
<1> QED
  BY <1>1, ListenerSound, PTL

(* The count of accepted answers moves only in local_tool_response, and    *)
(* only before the deadline of its request.                                *)
LEMMA AnswersTurn ==
  ListenerInv /\ [Next]_vars =>
    \A r \in Requests : reg'.answers[r] # reg.answers[r] => now < reg.expiresAt[r]
<1> SUFFICES ASSUME ListenerInv, [Next]_vars, NEW q \in Requests,
                    reg'.answers[q] # reg.answers[q]
             PROVE  now < reg.expiresAt[q]
  OBVIOUS
<1>1. reg \in RP!Registry /\ now \in Nat /\ RP!RegistryAssumption
  BY ComponentAssumption
  DEF ListenerInv, RegistryUsed, TypeOK, R!TypeOK, RP!Sound, R!RegistryAssumption,
      RP!RegistryAssumption, R!Failures, RP!Failures, R!None, RP!None
<1>2. ASSUME NEW t \in Tasks, NEW r \in Requests, CallTool(t, r) PROVE reg'.answers = reg.answers
  <2> DEFINE g == RP!ClearExpired(reg, threadOf[t], now)
             e == RP!TrackEmit(g, r, now)
  <2>1. CASE CallUntrackedTool(t, r)
    BY <2>1 DEF CallUntrackedTool
  <2>2. CASE CallTrackedTool(t, r)
    <3>1. owner[r] = Q!NoTask /\ threadOf[t] \in Threads
      BY <1>1, <1>2 DEF CallTool, RP!RegistryAssumption
    <3>2. g.answers = reg.answers /\ g.emitted = reg.emitted
      BY <1>1, RP!ClearExpiredFields DEF RP!RegistryAssumption
    <3>3. RP!Sound(g) /\ g \in RP!Registry /\ RP!Unused(g, r) /\ r \notin g.emitted
      BY <1>1, <3>1, <3>2, RP!ClearExpiredSound
      DEF RP!RegistryAssumption, RP!Sound, RP!SoundAt, ListenerInv, RegistryUsed, AskedFor
    <3> HIDE DEF g
    <3>4. /\ e \in RP!Registry /\ e.answers = g.answers /\ e.early = g.early
      BY <1>1, <3>3, RP!TrackEmitSound, RP!TrackEmitFields DEF RP!RegistryAssumption, RP!Sound
    <3>5. e.early[r] = RP!None
      BY <3>3, <3>4 DEF RP!Unused
    <3> HIDE DEF e
    <3>6. RP!AwaitResponse(e, r, now).answers = e.answers
      BY <1>1, <3>4, <3>5, RP!AwaitResponseFields DEF RP!RegistryAssumption
    <3>7. reg' = RP!AwaitResponse(e, r, now) \/ reg' = e
      BY <2>2, SameRegistry DEF CallTrackedTool, e, g
    <3> QED
      BY <3>2, <3>4, <3>6, <3>7
  <2> QED
    BY <1>2, <2>1, <2>2 DEF CallTool
<1>3. ASSUME NEW t \in Tasks, ClearBody(t) PROVE reg'.answers = reg.answers
  BY <1>1, <1>3, SameRegistry, RP!ClearThreadFields DEF ClearBody, RP!RegistryAssumption
<1>4. ASSUME NEW r \in Requests, AwaitTimesOut(r) PROVE reg'.answers = reg.answers
  BY <1>1, <1>4, SameRegistry, RP!TimeoutFields
  DEF AwaitTimesOut, R!FireTimer, RP!RegistryAssumption
<1>5. ASSUME NEW s \in Sockets, NEW r \in Requests, NEW status \in Statuses,
             Respond(s, r, status)
      PROVE  now < reg.expiresAt[q]
  <2> DEFINE g == R!ClearExpired(reg, ThreadOf[r], now)
  <2>1. reg' = RP!HandleResponse(g, r, status)
    BY <1>5, SameRegistry DEF Respond
  <2>2. RP!Sound(g) /\ g \in RP!Registry /\ g.answers = reg.answers
    BY <1>1, SameRegistry, RP!ClearExpiredSound, RP!ClearExpiredFields
    DEF RP!RegistryAssumption, RP!Sound, ListenerInv, RegistryUsed
  <2> HIDE DEF g
  <2>3. RP!Accepts(g, r) /\ q = r
    BY <1>1, <2>1, <2>2, RP!HandleResponseFields DEF RP!RegistryAssumption
  <2> QED
    BY <2>3, AcceptedResponse, SameRegistry DEF g
<1>6. ASSUME NEW t \in Tasks, TaskStep(t), ~ClearBody(t) PROVE reg' = reg
  BY <1>6 DEF TaskStep, StartRun, FinishRun, FinishClear, Reap, DrainCheck
<1>7. ASSUME NEW s \in Sockets, NEW inline \in BOOLEAN,
             Message(s, inline) \/ SetContext(s) \/ ClearContext(s)
      PROVE  reg' = reg
  BY <1>7 DEF Message, SetContext, ClearContext
<1>8. Tick \/ UNCHANGED vars => reg' = reg
  BY DEF Tick, R!Tick, vars
<1> QED
  BY <1>2, <1>3, <1>4, <1>5, <1>6, <1>7, <1>8 DEF Next

(* A late response is never accepted, however the sweeps, timers and calls *)
(* of the other requests fall around it.                                   *)
THEOREM NoLateAnswer == Spec => NoLateAcceptance
<1>1. ListenerInv /\ [Next]_vars =>
        [\A r \in Requests : reg'.answers[r] # reg.answers[r] => now < reg.expiresAt[r]]_vars
  BY AnswersTurn
<1> QED
  BY <1>1, ListenerSound, PTL DEF Spec, NoLateAcceptance

-----------------------------------------------------------------------------
(***************************************************************************)
(* Until the first clear_context.                                          *)
(***************************************************************************)

(* A turn without a clear is a step of the queue nobody clears. *)
LEMMA SerialTurn ==
  UnclearedInv /\ ListenerInv /\ [Next]_vars /\ clears' = 0 => [Q!SerialNext]_(Q!vars)
<1> SUFFICES ASSUME UnclearedInv, ListenerInv, [Next]_vars, clears' = 0
             PROVE  [Q!SerialNext]_(Q!vars)
  OBVIOUS
<1> USE DEF queueVars, Q!vars
<1>1. ASSUME NEW t \in Tasks, TaskStep(t) PROVE [Q!SerialNext]_(Q!vars)
  BY <1>1 DEF TaskStep, StartRun, FinishRun, ClearBody, FinishClear, Reap, DrainCheck,
              Q!SerialNext, Tasks, UnclearedInv
<1>2. ASSUME NEW t \in Tasks, NEW r \in Requests, CallTool(t, r)
      PROVE  [Q!SerialNext]_(Q!vars)
  BY <1>2 DEF CallTool
<1>3. \A s \in Sockets : ThreadOfSocket[s] \in Threads
  BY ListenerAssumption
<1>4. ASSUME NEW s \in Sockets, NEW inline \in BOOLEAN, Message(s, inline)
      PROVE  [Q!SerialNext]_(Q!vars)
  BY <1>3, <1>4 DEF Message, EnqueueRun, Q!SerialNext
<1>5. ASSUME NEW s \in Sockets, SetContext(s) \/ ClearContext(s) PROVE [Q!SerialNext]_(Q!vars)
  BY <1>3, <1>5 DEF SetContext, ClearContext, Q!SerialNext
<1>6. ASSUME NEW s \in Sockets, NEW r \in Requests, NEW status \in Statuses,
             Respond(s, r, status)
      PROVE  [Q!SerialNext]_(Q!vars)
  BY <1>3, <1>6
  DEF Respond, Refused, AcceptedSync, AcceptedAsync, EnqueueRun, Q!SerialNext
<1>7. ASSUME NEW r \in Requests, AwaitTimesOut(r) PROVE [Q!SerialNext]_(Q!vars)
  BY <1>7 DEF AwaitTimesOut
<1>8. Tick \/ UNCHANGED vars => [Q!SerialNext]_(Q!vars)
  BY DEF Tick, vars
<1> QED
  BY <1>1, <1>2, <1>4, <1>5, <1>6, <1>7, <1>8 DEF Next

(* What the parts of UnclearedInv say beyond the chain. *)
TasksKept ==
  /\ \A t \in Tasks : job[t].kind # "clear"
  /\ \A t \in drained : stage[t] = "reaped"
  /\ \A t \in Tasks : ToldKept(t)
  /\ NoAgentsNamed => \A t \in Tasks : LearntKept(t)
  /\ OneSocketPerThread => \A s \in Sockets : LightExplained(s)

ContextsGrow ==
  \A k \in Contexts : learnt[k] \subseteq learnt'[k] /\ told[k] \subseteq told'[k]

(* The types the following lemmas use. *)
LEMMA ListenerTypes ==
  ASSUME ListenerInv
  PROVE  /\ job \in [Tasks -> Jobs] /\ stage \in [Tasks -> Q!Stages] /\ issued \in Nat
         /\ threadOf \in [Tasks -> Threads \cup {NoThread}] /\ light \in [Sockets -> BOOLEAN]
         /\ drained \subseteq Tasks /\ clears \in Nat /\ issued <= MaxTasks
         /\ told \in [Contexts -> SUBSET Facts] /\ learnt \in [Contexts -> SUBSET Requests]
         /\ seen \in [Tasks -> [learnt : SUBSET Requests, told : SUBSET Facts]]
         /\ \A t \in Tasks : t <= issued <=> stage[t] # "unborn"
         /\ \A t \in Tasks : t <= issued => ContextKey(t) \in Contexts
         /\ \A s \in Sockets : SocketKey(s) \in Contexts
<1>1. QP!BornInOrder /\ TypeOK
  BY DEF ListenerInv, QP!EntryInv
<1>2. /\ job \in [Tasks -> Jobs] /\ stage \in [Tasks -> Q!Stages] /\ issued \in 0..MaxTasks
      /\ threadOf \in [Tasks -> Threads \cup {NoThread}] /\ light \in [Sockets -> BOOLEAN]
      /\ drained \subseteq Tasks /\ clears \in 0..MaxClears
      /\ told \in [Contexts -> SUBSET Facts] /\ learnt \in [Contexts -> SUBSET Requests]
      /\ seen \in [Tasks -> [learnt : SUBSET Requests, told : SUBSET Facts]]
  BY <1>1 DEF TypeOK, Q!TypeOK, Tasks
<1>3. \A t \in Tasks : /\ t <= issued <=> stage[t] # "unborn"
                       /\ t <= issued => threadOf[t] \in Threads
  BY <1>1, TaskFacts DEF QP!BornInOrder
<1>4. \A t \in Tasks : t <= issued => ContextKey(t) \in Contexts
  BY <1>2, <1>3 DEF Contexts, ContextKey, Jobs
<1>5. \A s \in Sockets : SocketKey(s) \in Contexts
  BY ListenerAssumption DEF Contexts, SocketKey, Agents
<1> QED
  BY <1>2, <1>3, <1>4, <1>5, TaskFacts, ListenerAssumption

(* A turn that leaves tasks and lights alone and lets contexts only grow   *)
(* keeps them.                                                             *)
LEMMA GrowthKeeps ==
  ASSUME ListenerInv, TasksKept, UNCHANGED <<queueVars, job, drained, seen, light>>, ContextsGrow
  PROVE  TasksKept'
<1>1. \A t \in Tasks : ToldKept(t)' /\ (LearntKept(t) => LearntKept(t)')
  BY ListenerTypes DEF TasksKept, ToldKept, LearntKept, ContextsGrow, ContextKey, queueVars
<1>2. \A s \in Sockets : LightExplained(s) => LightExplained(s)'
  BY DEF LightExplained, queueVars
<1> QED
  BY <1>1, <1>2 DEF TasksKept, NoAgentsNamed, OneSocketPerThread, queueVars

(* A new run keeps them when it is told what the context it will find      *)
(* already holds.                                                          *)
LEMMA NewRunKeeps ==
  ASSUME ListenerInv, TasksKept, ContextsGrow, UNCHANGED <<drained, seen>>,
         NEW s \in Sockets, NEW kind \in {"message", "followup"}, NEW agent, NEW r, NEW knew,
         NEW last, EnqueueRun(s, kind, agent, r, knew, last),
         knew \subseteq told'[<<agent, ThreadOfSocket[s]>>],
         kind = "followup" /\ NoAgentsNamed => r \in learnt'[<<agent, ThreadOfSocket[s]>>]
  PROVE  TasksKept'
<1> DEFINE n == issued + 1
           j == [kind |-> kind, sock |-> s, agent |-> agent, about |-> r,
                 knew |-> knew, last |-> last, done |-> FALSE]
<1>1. /\ n \in Tasks /\ n > issued
      /\ threadOf' = [threadOf EXCEPT ![n] = ThreadOfSocket[s]]
      /\ stage' = [stage EXCEPT ![n] = "waiting"]
      /\ job' = [job EXCEPT ![n] = j]
      /\ light' = IF Q!Has(ThreadOfSocket[s]) THEN light ELSE [light EXCEPT ![s] = TRUE]
  BY TaskFacts, ListenerTypes DEF EnqueueRun, Q!Enqueue
<1>2. /\ j.kind = kind /\ j.agent = agent /\ j.about = r /\ j.knew = knew
  OBVIOUS
<1> HIDE DEF n, j
<1>3. n \notin drained /\ stage[n] = "unborn"
  BY <1>1, ListenerTypes, TaskFacts DEF TasksKept
<1>4. /\ stage'[n] = "waiting" /\ job'[n] = j /\ threadOf'[n] = ThreadOfSocket[s]
      /\ \A t \in Tasks : t # n => /\ stage'[t] = stage[t] /\ job'[t] = job[t]
                                   /\ threadOf'[t] = threadOf[t]
  BY <1>1, ListenerTypes
<1>5. \A t \in Tasks : job'[t].kind # "clear"
  BY <1>2, <1>4 DEF TasksKept
<1>6. \A t \in drained' : stage'[t] = "reaped"
  BY <1>3, <1>4, ListenerTypes DEF TasksKept
<1>7. ASSUME NEW t \in Tasks PROVE ToldKept(t)'
  <2>1. CASE t = n
    BY <1>2, <1>4, <2>1 DEF ToldKept, ContextKey
  <2>2. CASE t # n
    <3>1. ToldKept(t) /\ (t <= issued => ContextKey(t) \in Contexts)
          /\ (t <= issued <=> stage[t] # "unborn") /\ ContextKey(t)' = ContextKey(t)
      BY <1>4, <2>2, ListenerTypes DEF TasksKept, ContextKey
    <3> QED
      BY <1>4, <2>2, <3>1 DEF ToldKept, ContextsGrow
  <2> QED
    BY <2>1, <2>2
<1>8. ASSUME NEW t \in Tasks, NoAgentsNamed PROVE LearntKept(t)'
  <2>1. CASE t = n
    BY <1>2, <1>4, <1>8, <2>1 DEF LearntKept, ContextKey
  <2>2. CASE t # n
    <3>1. LearntKept(t) /\ (t <= issued => ContextKey(t) \in Contexts)
          /\ (t <= issued <=> stage[t] # "unborn") /\ ContextKey(t)' = ContextKey(t)
      BY <1>4, <1>8, <2>2, ListenerTypes DEF TasksKept, ContextKey
    <3> QED
      BY <1>4, <2>2, <3>1 DEF LearntKept, ContextsGrow
  <2> QED
    BY <2>1, <2>2
<1>9. ASSUME NEW u \in Sockets, OneSocketPerThread PROVE LightExplained(u)'
  <2>1. CASE u = s
    BY <1>1, <1>3, <1>4, <2>1 DEF LightExplained
  <2>2. CASE u # s
    <3>1. light'[u] = light[u]
      BY <1>1, <2>2, ListenerTypes
    <3>2. ASSUME NEW t \in Tasks, threadOf[t] = ThreadOfSocket[u] PROVE threadOf'[t] = threadOf[t]
      <4>1. threadOf[n] = NoThread /\ ThreadOfSocket[u] \in Threads
        BY <1>1, TaskFacts, ListenerTypes, ListenerAssumption
        DEF ListenerInv, QP!EntryInv, QP!BornInOrder
      <4> QED
        BY <1>4, <3>2, <4>1, TaskFacts
    <3> QED
      BY <1>9, <3>1, <3>2 DEF LightExplained, TasksKept
  <2> QED
    BY <2>1, <2>2
<1> QED
  BY <1>5, <1>6, <1>7, <1>8, <1>9 DEF TasksKept, NoAgentsNamed, OneSocketPerThread

(* Until the first clear, every turn keeps the second group of parts. *)
LEMMA UnclearedTurn ==
  ListenerInv /\ UnclearedInv /\ [Next]_vars /\ clears' = 0 => UnclearedInv'
<1> SUFFICES ASSUME ListenerInv, UnclearedInv, [Next]_vars, clears' = 0 PROVE UnclearedInv'
  OBVIOUS
<1>1. QP!ChainInv'
  <2>1. QP!ChainInv /\ [QP!SerialNext]_(QP!vars) => QP!ChainInv'
    BY ComponentAssumption, QP!ChainStep DEF Q!QueueAssumption
  <2> QED
    BY <2>1, SerialTurn, SameQueue DEF UnclearedInv
<1>2. TasksKept
  BY DEF UnclearedInv, TasksKept
<1>3. \A t \in Tasks : job[t].kind # "clear"
  BY DEF UnclearedInv
<1>4. UNCHANGED <<learnt, told>> => ContextsGrow
  BY DEF ContextsGrow
<1>5. ASSUME NEW t \in Tasks, StartRun(t) PROVE TasksKept'
  <2>1. /\ stage[t] = "waiting" /\ stage' = [stage EXCEPT ![t] = "running"]
        /\ seen' = [seen EXCEPT ![t] = [learnt |-> learnt[ContextKey(t)],
                                       told   |-> told[ContextKey(t)]]]
        /\ UNCHANGED <<threadOf, job, drained, learnt, told, light>>
    BY <1>3, <1>5 DEF StartRun, Q!Start, contextVars
  <2>2. \A u \in Tasks : ContextKey(u)' = ContextKey(u)
    BY <2>1 DEF ContextKey
  <2> HIDE DEF ContextKey
  <2>3. \A u \in Tasks : ToldKept(u)'
    BY <1>2, <2>1, <2>2, ListenerTypes DEF TasksKept, ToldKept
  <2>4. \A u \in Tasks : LearntKept(u) => LearntKept(u)'
    BY <2>1, <2>2, ListenerTypes DEF LearntKept
  <2>5. \A s \in Sockets : LightExplained(s) => LightExplained(s)'
    BY <2>1 DEF LightExplained
  <2>6. \A u \in drained' : stage'[u] = "reaped"
    BY <1>2, <2>1, ListenerTypes DEF TasksKept
  <2> QED
    BY <1>2, <2>1, <2>3, <2>4, <2>5, <2>6 DEF TasksKept, NoAgentsNamed, OneSocketPerThread
<1>6. ASSUME NEW t \in Tasks, FinishRun(t) \/ Reap(t) PROVE TasksKept'
  <2>1. /\ stage[t] \in {"running", "settled"}
        /\ \E x \in {"settled", "reaped"} : stage' = [stage EXCEPT ![t] = x]
        /\ UNCHANGED <<threadOf, job, drained, learnt, told, light, seen>>
    BY <1>6 DEF FinishRun, Reap, Q!Settle, Q!Reap, contextVars
  <2>2. \A u \in Tasks : ToldKept(u)' /\ (LearntKept(u) => LearntKept(u)')
    BY <1>2, <2>1, ListenerTypes DEF TasksKept, ToldKept, LearntKept, ContextKey
  <2>3. \A s \in Sockets : LightExplained(s) => LightExplained(s)'
    BY <2>1 DEF LightExplained
  <2>4. \A u \in drained' : stage'[u] = "reaped"
    BY <1>2, <2>1, ListenerTypes DEF TasksKept
  <2> QED
    BY <1>2, <2>1, <2>2, <2>3, <2>4 DEF TasksKept, NoAgentsNamed, OneSocketPerThread
<1>7. ASSUME NEW t \in Tasks, ClearBody(t) \/ FinishClear(t) PROVE FALSE
  BY <1>3, <1>7 DEF ClearBody, FinishClear
<1>8. ASSUME NEW t \in Tasks, DrainCheck(t) PROVE TasksKept'
  <2>1. /\ stage[t] = "reaped" /\ drained' = drained \cup {t}
        /\ light' = IF Q!Has(threadOf[t]) THEN light ELSE [light EXCEPT ![job[t].sock] = FALSE]
        /\ UNCHANGED <<stage, threadOf, job, learnt, told, seen>>
    BY <1>8 DEF DrainCheck, queueVars, contextVars
  <2>2. \A u \in Tasks : ToldKept(u)' /\ (LearntKept(u) => LearntKept(u)')
    BY <1>2, <2>1 DEF TasksKept, ToldKept, LearntKept, ContextKey
  <2>3. /\ threadOf[t] \in Threads /\ job[t].sock \in Sockets
        /\ threadOf[t] = ThreadOfSocket[job[t].sock]
    BY <2>1, TaskFacts, ListenerTypes DEF ListenerInv, JobsBorn, QP!EntryInv, QP!BornInOrder
  <2>4. ASSUME NEW s \in Sockets, OneSocketPerThread, LightExplained(s) PROVE LightExplained(s)'
    <3>1. CASE threadOf[t] # ThreadOfSocket[s]
      <4>1. light'[s] = light[s]
        BY <2>1, <2>3, <3>1, ListenerTypes
      <4> QED
        BY <2>1, <2>4, <3>1, <4>1 DEF LightExplained
    <3>2. CASE threadOf[t] = ThreadOfSocket[s] /\ Q!Has(threadOf[t])
      <4> DEFINE u == pending[threadOf[t]]
      <4>1. u \in Tasks /\ threadOf[u] = threadOf[t] /\ stage[u] # "reaped"
        BY <2>3, <3>2, TaskFacts
        DEF Q!Has, ListenerInv, QP!EntryInv, QP!NoEntryOutlivesItsTail, QP!Has, QP!Issued,
            QP!Finished
      <4>2. u \notin drained'
        BY <1>2, <2>1, <4>1 DEF TasksKept
      <4> QED
        BY <2>1, <3>2, <4>1, <4>2 DEF LightExplained
    <3>3. CASE threadOf[t] = ThreadOfSocket[s] /\ ~Q!Has(threadOf[t])
      <4>1. job[t].sock = s
        BY <2>3, <2>4, <3>3 DEF OneSocketPerThread
      <4>2. ~light'[s]
        BY <2>1, <3>3, <4>1, ListenerTypes
      <4> QED
        BY <4>2 DEF LightExplained
    <3> QED
      BY <3>1, <3>2, <3>3
  <2>5. \A u \in drained' : stage'[u] = "reaped"
    BY <1>2, <2>1 DEF TasksKept
  <2> QED
    BY <1>2, <2>1, <2>2, <2>4, <2>5 DEF TasksKept, NoAgentsNamed, OneSocketPerThread
<1>9. ASSUME NEW t \in Tasks, NEW r \in Requests, CallTool(t, r) PROVE TasksKept'
  BY <1>2, <1>4, <1>9, GrowthKeeps DEF CallTool, contextVars
<1>10. ASSUME NEW s \in Sockets, NEW inline \in BOOLEAN, Message(s, inline) PROVE TasksKept'
  <2>1. ContextsGrow /\ UNCHANGED <<drained, seen>>
    BY <1>10, ListenerTypes DEF Message, Update, ContextsGrow
  <2>2. EnqueueRun(s, "message", AgentOf[s], "none", told'[SocketKey(s)], FALSE)
    BY <1>10 DEF Message
  <2> QED
    BY <1>2, <2>1, <2>2, NewRunKeeps DEF SocketKey
<1>11. ASSUME NEW s \in Sockets, SetContext(s) PROVE TasksKept'
  <2>1. ContextsGrow
    BY <1>11, ListenerTypes DEF SetContext, Update, ContextsGrow
  <2> QED
    BY <1>2, <1>11, <2>1, GrowthKeeps DEF SetContext
<1>12. ASSUME NEW s \in Sockets, ClearContext(s) PROVE FALSE
  BY <1>12, ListenerTypes DEF ClearContext
<1>13. ASSUME NEW s \in Sockets, NEW r \in Requests, NEW status \in Statuses,
              Respond(s, r, status)
       PROVE  TasksKept'
  <2> DEFINE g == R!ClearExpired(reg, ThreadOf[r], now)
             h == R!HandleResponse(g, r, status)
  <2>1. /\ learnt' = IF h.dispatched[r] > g.dispatched[r]
                     THEN [learnt EXCEPT ![SocketKey(s)] = @ \cup {r}] ELSE learnt
        /\ UNCHANGED <<told, drained, seen>>
    BY <1>13 DEF Respond
  <2>2. ContextsGrow
    BY <2>1, ListenerTypes DEF ContextsGrow
  <2>3. CASE Refused(g, r) \/ AcceptedSync(g, r)
    BY <1>2, <2>1, <2>2, <2>3, GrowthKeeps DEF Refused, AcceptedSync
  <2>4. CASE AcceptedAsync(g, h, s, r)
    <3>1. EnqueueRun(s, "followup", NoAgent, r, {}, R!AwaitingCount(h, ThreadOf[r]) = 0)
          /\ R!Accepts(g, r)
      BY <2>4 DEF AcceptedAsync
    <3>2. h.dispatched[r] > g.dispatched[r]
      <4>1. /\ reg \in RP!Registry /\ now \in Nat /\ RP!RegistryAssumption
            /\ RP!Sound(reg) /\ reg.processors = Tools
        BY ComponentAssumption
        DEF ListenerInv, RegistryUsed, TypeOK, R!TypeOK, RP!Sound, R!RegistryAssumption,
            RP!RegistryAssumption, R!Failures, RP!Failures, R!None, RP!None
      <4>2. g \in RP!Registry /\ g.processors = Tools
        BY <4>1, SameRegistry, RP!ClearExpiredSound, RP!ClearExpiredFields
        DEF RP!RegistryAssumption, RP!Sound
      <4> HIDE DEF g
      <4> QED
        BY <3>1, <4>1, <4>2, SameRegistry, RP!HandleResponseFields DEF RP!RegistryAssumption
    <3> HIDE DEF g, h
    <3>3. NoAgentsNamed => r \in learnt'[<<NoAgent, ThreadOfSocket[s]>>]
      BY <2>1, <3>2, ListenerTypes DEF NoAgentsNamed, SocketKey
    <3> QED
      BY <1>2, <2>1, <2>2, <3>1, <3>3, NewRunKeeps
  <2> QED
    BY <1>13, <2>3, <2>4 DEF Respond
<1>14. ASSUME NEW r \in Requests, AwaitTimesOut(r) PROVE TasksKept'
  BY <1>2, <1>4, <1>14, GrowthKeeps DEF AwaitTimesOut, contextVars
<1>15. ASSUME Tick \/ UNCHANGED vars PROVE TasksKept'
  BY <1>2, <1>4, <1>15, GrowthKeeps DEF Tick, vars, contextVars
<1>16. TasksKept'
  BY <1>5, <1>6, <1>7, <1>8, <1>9, <1>10, <1>11, <1>12, <1>13, <1>14, <1>15 DEF Next, TaskStep
<1> QED
  BY <1>1, <1>16 DEF UnclearedInv, TasksKept

(* Clears are only ever counted up. *)
LEMMA ClearsCountUp == [Next]_vars => clears' = clears \/ clears' = clears + 1
<1> SUFFICES ASSUME [Next]_vars PROVE clears' = clears \/ clears' = clears + 1
  OBVIOUS
<1>1. ASSUME NEW t \in Tasks, TaskStep(t) PROVE clears' = clears
  BY <1>1 DEF TaskStep, StartRun, FinishRun, ClearBody, FinishClear, Reap, DrainCheck
<1>2. ASSUME NEW t \in Tasks, NEW r \in Requests, CallTool(t, r) PROVE clears' = clears
  BY <1>2 DEF CallTool
<1>3. ASSUME NEW s \in Sockets, NEW inline \in BOOLEAN, Message(s, inline) PROVE clears' = clears
  BY <1>3 DEF Message
<1>4. ASSUME NEW s \in Sockets, SetContext(s) \/ ClearContext(s)
      PROVE  clears' = clears \/ clears' = clears + 1
  BY <1>4 DEF SetContext, ClearContext
<1>5. ASSUME NEW s \in Sockets, NEW r \in Requests, NEW status \in Statuses,
             Respond(s, r, status)
      PROVE  clears' = clears
  BY <1>5 DEF Respond
<1>6. ASSUME NEW r \in Requests, AwaitTimesOut(r) PROVE clears' = clears
  BY <1>6 DEF AwaitTimesOut
<1>7. Tick \/ UNCHANGED vars => clears' = clears
  BY DEF Tick, vars
<1> QED
  BY <1>1, <1>2, <1>3, <1>4, <1>5, <1>6, <1>7 DEF Next

(* The second group of parts holds until the first clear.                  *)
THEOREM UntilClearedHolds == Spec => []UntilCleared
<1>1. ListenerInv /\ UntilCleared /\ [Next]_vars => UntilCleared'
  <2> SUFFICES ASSUME ListenerInv, UntilCleared, [Next]_vars, clears' = 0 PROVE UnclearedInv'
    BY DEF UntilCleared
  <2>1. clears = 0
    BY ClearsCountUp, ListenerTypes
  <2> QED
    BY <2>1, UnclearedTurn DEF UntilCleared
<1>2. Init => UntilCleared
  BY ListenerInit DEF UntilCleared
<1> QED
  BY <1>1, <1>2, ListenerSound, PTL DEF Spec

(* Whatever mix of messages and tool responses arrives, from however many  *)
(* sockets of however many threads: one run at a time per thread.          *)
THEOREM OneRunUntilCleared == Spec => [](clears = 0 => OneRunPerThread)
<1>1. UntilCleared => (clears = 0 => OneRunPerThread)
  <2> SUFFICES ASSUME UnclearedInv, NEW t \in Tasks, NEW u \in Tasks,
                      threadOf[t] = threadOf[u], stage[t] = "running", stage[u] = "running"
               PROVE  t = u
    BY DEF UntilCleared, OneRunPerThread
  <2>1. ~(t < u) /\ ~(u < t)
    BY TaskFacts DEF UnclearedInv, QP!ChainInv, QP!StartsInOrder, QP!Started, QP!Finished
  <2> QED
    BY <2>1, TaskFacts
<1> QED
  BY <1>1, UntilClearedHolds, PTL

(* What a client told is in the context of the run it told it for, however *)
(* long the run waited and whatever was told meanwhile.                    *)
THEOREM ContextReaches == Spec => [](clears = 0 => ContextReachesRun)
<1>1. UntilCleared => (clears = 0 => ContextReachesRun)
  BY DEF UntilCleared, UnclearedInv, ContextReachesRun, ToldKept
<1> QED
  BY <1>1, UntilClearedHolds, PTL

(* A follow-up run finds the result it follows up, where no client names   *)
(* an agent.                                                               *)
THEOREM ResultReachesFollowUp ==
  ASSUME NoAgentsNamed PROVE Spec => [](clears = 0 => FollowUpSeesItsResult)
<1>1. UntilCleared => (clears = 0 => FollowUpSeesItsResult)
  BY NoAgentsNamed DEF UntilCleared, UnclearedInv, FollowUpSeesItsResult, LearntKept
<1> QED
  BY <1>1, UntilClearedHolds, PTL

(* The client of a thread with nothing left to do shows no working agent,  *)
(* where the thread has one client.                                        *)
THEOREM IdleIsDark ==
  ASSUME OneSocketPerThread PROVE Spec => [](clears = 0 => IdleThreadIsDark)
<1>1. UntilCleared => (clears = 0 => IdleThreadIsDark)
  BY OneSocketPerThread DEF UntilCleared, UnclearedInv, IdleThreadIsDark, LightExplained
<1> QED
  BY <1>1, UntilClearedHolds, PTL

(* Without clears, the listener executes the runs of its threads serially: *)
(* in the order of the events that asked for them, one at a time.          *)
THEOREM ListenerIsSerial == ASSUME MaxClears = 0 PROVE Spec => Q!SerialSafety
<1>1. Init => Q!Init
  BY DEF Init
<1>2. UntilCleared /\ ListenerInv /\ ListenerInv' /\ [Next]_vars => [Q!SerialNext]_(Q!vars)
  <2> SUFFICES ASSUME UntilCleared, ListenerInv, ListenerInv', [Next]_vars
               PROVE  [Q!SerialNext]_(Q!vars)
    OBVIOUS
  <2>1. clears = 0 /\ clears' = 0
    BY MaxClears = 0 DEF ListenerInv, TypeOK
  <2> QED
    BY <2>1, SerialTurn DEF UntilCleared
<1> QED
  BY <1>1, <1>2, UntilClearedHolds, ListenerSound, PTL DEF Spec, Q!SerialSafety

(* agent_working=false is only sent when the queue of the thread has       *)
(* drained: has() is exact while nobody clears.                            *)
THEOREM LightGoesOutWhenDrained == ASSUME MaxClears = 0 PROVE Spec => LightOutMeansDrained
<1> DEFINE Drained == \A s \in Sockets : light[s] /\ ~light'[s] =>
                        \A t \in Tasks : threadOf[t] = ThreadOfSocket[s] /\ IsRun(t) => ~Open(t)
<1>1. UntilCleared /\ ListenerInv /\ [Next]_vars => [Drained]_vars
  <2> SUFFICES ASSUME UntilCleared, ListenerInv, [Next]_vars,
                      NEW s \in Sockets, light[s], ~light'[s],
                      NEW u \in Tasks, threadOf[u] = ThreadOfSocket[s]
               PROVE  ~Open(u)
    OBVIOUS
  <2>1. \E t \in Tasks : DrainCheck(t)
    <3>1. ASSUME NEW t \in Tasks, TaskStep(t), ~DrainCheck(t) PROVE light' = light
      BY <3>1 DEF TaskStep, StartRun, FinishRun, ClearBody, FinishClear, Reap
    <3>2. ASSUME NEW t \in Tasks, NEW r \in Requests, CallTool(t, r) PROVE light' = light
      BY <3>2 DEF CallTool
    <3>3. ASSUME NEW v \in Sockets, NEW kind, NEW agent, NEW r, NEW knew, NEW last,
                 EnqueueRun(v, kind, agent, r, knew, last)
          PROVE  FALSE
      BY <3>3, ListenerTypes DEF EnqueueRun
    <3>4. ASSUME NEW v \in Sockets, NEW inline \in BOOLEAN, Message(v, inline) PROVE FALSE
      BY <3>3, <3>4 DEF Message
    <3>5. ASSUME NEW v \in Sockets, SetContext(v) \/ ClearContext(v) PROVE light' = light
      BY <3>5 DEF SetContext, ClearContext
    <3>6. ASSUME NEW v \in Sockets, NEW r \in Requests, NEW status \in Statuses,
                 Respond(v, r, status)
          PROVE  light' = light
      BY <3>3, <3>6 DEF Respond, Refused, AcceptedSync, AcceptedAsync
    <3>7. ASSUME NEW r \in Requests, AwaitTimesOut(r) PROVE light' = light
      BY <3>7 DEF AwaitTimesOut
    <3>8. Tick \/ UNCHANGED vars => light' = light
      BY DEF Tick, vars
    <3> QED
      BY <3>1, <3>2, <3>4, <3>5, <3>6, <3>7, <3>8 DEF Next
  <2>2. PICK t \in Tasks : DrainCheck(t)
    BY <2>1
  <2>3. job[t].sock = s /\ ~Q!Has(threadOf[t]) /\ stage[t] = "reaped"
    BY <2>2, ListenerTypes DEF DrainCheck
  <2>4. threadOf[t] = ThreadOfSocket[s] /\ ThreadOfSocket[s] \in Threads
    BY <2>3, TaskFacts, ListenerTypes, ListenerAssumption DEF ListenerInv, JobsBorn
  <2>5. clears = 0
    BY MaxClears = 0 DEF ListenerInv, TypeOK
  <2>6. pending[threadOf[t]] = 0
    BY <2>3, TaskFacts DEF Q!Has
  <2>7. QP!TailIsYoungest /\ QP!BornInOrder
    BY <2>5 DEF UntilCleared, UnclearedInv, QP!ChainInv
  <2>8. u <= issued
    <3>1. u \in 1..MaxTasks /\ issued \in Nat /\ MaxTasks \in Nat
      BY TaskFacts, ListenerTypes
    <3>2. ~(u > issued)
      BY <2>4, <2>7, TaskFacts DEF QP!BornInOrder
    <3> QED
      BY <3>1, <3>2
  <2>9. stage[u] = "reaped"
    BY <2>4, <2>6, <2>7, <2>8, TaskFacts DEF QP!TailIsYoungest, QP!Finished
  <2> QED
    BY <2>9 DEF Open
<1> QED
  BY <1>1, UntilClearedHolds, ListenerSound, PTL DEF Spec, LightOutMeansDrained

(* So, without clears, the whole listener implements the serial execution  *)
(* of SerialExecution: a message or a tool response submits a run.         *)
THEOREM ListenerImplementsSerial == ASSUME MaxClears = 0 PROVE Spec => QP!Serial!SafetySpec
<1>1. Q!SerialSafety => QP!SerialSafety
  BY SameQueue, PTL DEF Q!SerialSafety, QP!SerialSafety
<1>2. QP!SerialSafety => QP!Serial!SafetySpec
  BY ComponentAssumption, QP!RefinesSerialExecution DEF Q!QueueAssumption
<1> QED
  BY <1>1, <1>2, ListenerIsSerial, PTL
-----------------------------------------------------------------------------
(***************************************************************************)
(* The handshake and the inactivity timer of a socket, which share nothing *)
(* with the queue and the registry, for every limit a server may have and  *)
(* every timeout a client may propose.                                     *)
(***************************************************************************)
(* The timeout in effect is the one that was advertised last and is within *)
(* the limits.                                                             *)
InEffect ==
  /\ effective <= MaxIdle
  /\ advertised \in {Off, effective}
  /\ serverMax = 0 => effective = 0

(* While the timer is armed, what is left of it and the idle time make up  *)
(* the timeout, as far as idle time is counted.                            *)
TimerCounts ==
  left # Off => /\ effective > 0
                /\ idle = MaxIdle \/ left + idle >= effective

TimerInv == TimerTypeOK /\ InEffect /\ TimerCounts
-----------------------------------------------------------------------------
(* A handshake that follows one with a timeout cannot switch it off, and   *)
(* no handshake exceeds the limits.                                        *)
LEMMA NegotiatedBounds ==
  ASSUME TimerTypeOK, InEffect, NEW p \in Proposals
  PROVE  /\ Negotiated(p) \in Nat
         /\ Negotiated(p) <= MaxIdle
         /\ serverMax = 0 => Negotiated(p) = 0
         /\ effective > 0 => Negotiated(p) > 0
<1>1. p \in Nat /\ p <= MaxIdle /\ MaxIdle \in Nat /\ effective \in Nat /\ effective <= MaxIdle
  BY TimeoutAssumption, IdleAssumption DEF TimerTypeOK, InEffect
<1>2. CASE serverMax = Unset
  <2>1. serverMax \notin Nat
    BY <1>2, TimeoutAssumption
  <2>2. Negotiated(p) = IF p > 0 THEN p ELSE effective
    BY <1>1, <1>2, <2>1 DEF Negotiated
  <2> QED
    BY <1>1, <2>1, <2>2
<1>3. CASE serverMax # Unset
  <2>1. serverMax \in Nat /\ serverMax <= MaxIdle
    BY <1>3, TimeoutAssumption, IdleAssumption DEF TimerTypeOK
  <2>2. CASE p > 0
    <3>1. Negotiated(p) = Min2(p, serverMax)
      BY <1>1, <1>3, <2>1, <2>2 DEF Negotiated
    <3> QED
      BY <1>1, <2>1, <2>2, <3>1 DEF Min2, InEffect
  <2>3. CASE p = 0
    <3>1. Negotiated(p) = IF serverMax > 0 THEN serverMax ELSE effective
      BY <1>1, <1>3, <2>1, <2>3 DEF Negotiated
    <3> QED
      BY <1>1, <2>1, <2>3, <3>1 DEF InEffect
  <2> QED
    BY <1>1, <2>2, <2>3
<1> QED
  BY <1>2, <1>3

(* No timer is armed before the first handshake. *)
LEMMA TimerStart == TimerInit => TimerInv
  BY TimeoutAssumption DEF TimerInit, TimerInv, TimerTypeOK, InEffect, TimerCounts, Off

(* Handshakes, events, the clock and the ways a socket is closed keep the  *)
(* timer in step with what was advertised.                                 *)
LEMMA TimerGoesOn == TimerInv /\ [TimerNext]_timerVars => TimerInv'
<1> SUFFICES ASSUME TimerInv, [TimerNext]_timerVars PROVE TimerInv'
  OBVIOUS
<1>0. TimerTypeOK /\ InEffect /\ TimerCounts /\ MaxIdle \in Nat /\ MaxHellos \in Nat
  BY TimeoutAssumption DEF TimerInv
<1>1. ASSUME NEW p \in Proposals, Hello(p) PROVE TimerInv'
  <2> DEFINE n == Negotiated(p)
  <2>1. n \in Nat /\ n <= MaxIdle /\ (serverMax = 0 => n = 0) /\ (effective > 0 => n > 0)
    BY <1>0, NegotiatedBounds
  <2>2. /\ effective' = n /\ advertised' = n /\ left' = Armed(n) /\ idle' = 0
        /\ open /\ open' = open /\ serverMax' = serverMax
        /\ hellos < MaxHellos /\ hellos' = hellos + 1
    BY <1>1 DEF Hello
  <2> HIDE DEF n
  <2> QED
    BY <1>0, <2>1, <2>2 DEF TimerInv, TimerTypeOK, InEffect, TimerCounts, Armed, Off
<1>2. ASSUME RefusedHello PROVE TimerInv'
  <2>1. /\ open' = FALSE /\ left' = Off /\ hellos' = hellos + 1 /\ hellos < MaxHellos
        /\ serverMax' = serverMax /\ effective' = effective
        /\ advertised' = advertised /\ idle' = idle
    BY <1>2 DEF RefusedHello, Close
  <2>2. TimerTypeOK'
    <3>1. hellos' \in 0..MaxHellos
      BY <1>0, <2>1 DEF TimerTypeOK
    <3>2. open' \in BOOLEAN
      BY <2>1
    <3> QED
      BY <1>0, <2>1, <3>1, <3>2 DEF TimerTypeOK
  <2> QED
    BY <1>0, <2>1, <2>2 DEF TimerInv, InEffect, TimerCounts
<1>3. ASSUME QualifyingEvent PROVE TimerInv'
  BY <1>0, <1>3 DEF QualifyingEvent, Armed, TimerInv, TimerTypeOK, InEffect, TimerCounts, Off
<1>4. ASSUME TimerTick PROVE TimerInv'
  BY <1>0, <1>4 DEF TimerTick, Min2, TimerInv, TimerTypeOK, InEffect, TimerCounts, Off
<1>5. ASSUME TimerFires PROVE TimerInv'
  BY <1>0, <1>5 DEF TimerFires, Close, TimerInv, TimerTypeOK, InEffect, TimerCounts, Off
<1>6. ASSUME Disconnect PROVE TimerInv'
  BY <1>0, <1>6 DEF Disconnect, Close, TimerInv, TimerTypeOK, InEffect, TimerCounts, Off
<1>7. CASE UNCHANGED timerVars
  BY <1>0, <1>7 DEF timerVars, TimerInv, TimerTypeOK, InEffect, TimerCounts
<1> QED
  BY <1>1, <1>2, <1>3, <1>4, <1>5, <1>6, <1>7 DEF TimerNext

(* The timer is in step with what was advertised in every behaviour. *)
THEOREM TimerHolds == TimerSafety => []TimerInv
  BY TimerStart, TimerGoesOn, PTL DEF TimerSafety

(* Handshake and timer keep every variable within its range; in            *)
(* particular, no timer is armed on a socket that is closed.               *)
THEOREM TimeoutTyped == TimerSafety => []TimerTypeOK
<1>1. TimerInv => TimerTypeOK
  BY DEF TimerInv
<1> QED
  BY <1>1, TimerHolds, PTL

(* No socket is closed by the timer before the time its client was last    *)
(* told has passed without an event, however often it renegotiates.        *)
THEOREM NeverEarly == TimerSafety => NoEarlyClose
<1>1. TimerInv => [ClosedByTimer => idle >= advertised]_timerVars
  <2> SUFFICES ASSUME TimerInv, ClosedByTimer PROVE idle >= advertised
    OBVIOUS
  <2>1. left # Off /\ left = 0
    BY DEF ClosedByTimer, Off
  <2>2. idle \in Nat /\ effective \in Nat /\ effective <= MaxIdle /\ MaxIdle \in Nat
        /\ advertised \in {Off, effective}
    BY TimeoutAssumption DEF TimerInv, TimerTypeOK, InEffect
  <2>3. idle = MaxIdle \/ left + idle >= effective
    BY <2>1 DEF TimerInv, TimerCounts
  <2> QED
    BY <2>1, <2>2, <2>3 DEF Off
<1> QED
  BY <1>1, TimerHolds, PTL DEF NoEarlyClose
=============================================================================
