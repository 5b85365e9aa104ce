\* One clear_context, an async and a fire-and-forget tool, retried responses.
SPECIFICATION Spec
CONSTANTS
  th1 = th1
  s1 = s1
  s2 = s2
  r1 = r1
  r2 = r2
  tool = tool
  planner = planner
  Threads = {th1}
  NoThread = NoThread
  MaxTasks = 3
  Requests = {r1, r2}
  Tools = {tool}
  ToolOf <- OneTool
  Statuses = {"success"}
  EmitTtl = 1
  AwaitTtl = 1
  MaxTime = 2
  MaxDispatches = 2
  ThreadOf <- OneThread
  ModeOf <- AsyncAndFire
  Sockets = {s1}
  ThreadOfSocket <- OneRoom
  AgentOf <- NoAgents
  NoAgent = NoAgent
  MaxUpdates = 0
  MaxClears = 1
INVARIANT OneFollowUpPerAnswer
PROPERTY NoLateAcceptance
\* The bounds on tasks and time end every behaviour.
CHECK_DEADLOCK FALSE
