\* Two requests of one thread, entries that expire before the awaiters do.
SPECIFICATION Spec
CONSTANTS
  th1 = th1
  r1 = r1
  r2 = r2
  get_prefs = get_prefs
  Threads = {th1}
  Requests = {r1, r2}
  ThreadOf <- MCThreadOf
  Tools = {get_prefs}
  ToolOf <- MCToolOf
  Statuses = {"success", "denied"}
  EmitTtl = 1
  AwaitTtl = 2
  MaxTime = 3
  MaxDispatches = 2
INVARIANTS TypeOK WaitersAreReachable ResolvedOnce AnsweredOnce NoLostWakeup AcceptedAnswerReachesCaller
PROPERTIES EveryAwaitEnds
CHECK_DEADLOCK FALSE
