\* Every client, two connections, one unmount.
SPECIFICATION Spec
CONSTANTS
  th1 = th1
  r1 = r1
  r2 = r2
  tool = tool
  Threads = {th1}
  Requests = {r1, r2}
  ThreadOf <- OneThread
  Tools = {tool}
  ToolOf <- OneTool
  Statuses = {"success", "denied", "not_supported", "error"}
  EmitTtl = 2
  AwaitTtl = 2
  MaxTime = 3
  MaxDispatches = 2
  Settings <- EveryClient
  Second = 1
  MaxConnections = 2
  MaxUnmounts = 1
INVARIANTS AckedMeansAccepted HandlerAnswerPrevails
PROPERTIES NoRepeatAfterAck LostAnswerIsRepeated
\* The bounds on time and connections end every behaviour.
CHECK_DEADLOCK FALSE
