\* A clear, a message queued behind it, and one that comes after it ran.
SPECIFICATION Spec
CONSTANTS
  th1 = th1
  s1 = s1
  s2 = s2
  r1 = r1
  r2 = r2
  tool = tool
  planner = planner
  Threads = {th1}
  NoThread = NoThread
  MaxTasks = 3
  Requests = {r1}
  Tools = {tool}
  ToolOf <- OneTool
  Statuses = {"success"}
  EmitTtl = 1
  AwaitTtl = 1
  MaxTime = 2
  MaxDispatches = 1
  ThreadOf <- OneThread
  ModeOf <- SyncAndAsync
  Sockets = {s1}
  ThreadOfSocket <- OneRoom
  AgentOf <- NoAgents
  NoAgent = NoAgent
  MaxUpdates = 0
  MaxClears = 1
INVARIANT OneRunPerThread
\* The bounds on tasks and time end every behaviour.
CHECK_DEADLOCK FALSE
