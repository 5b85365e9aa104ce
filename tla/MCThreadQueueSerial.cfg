\* Two threads, four calls of enqueue, nobody clears the queue.
SPECIFICATION SerialSpec
CONSTANTS
  Threads = {th1, th2}
  NoThread = NoThread
  MaxTasks = 4
INVARIANTS TypeOK MutualExclusion StartsInOrder HasIsExact
PROPERTIES ImplementsSerialExecution
\* All calls made and all tasks reaped is where a behaviour ends.
CHECK_DEADLOCK FALSE
