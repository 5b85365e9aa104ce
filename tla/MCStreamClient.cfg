\* Both hosts; one cut connection, one new connect, one clear, one follow-up.
SPECIFICATION Spec
CONSTANTS
  Typed = {a, b}
  FollowUps = {f}
  Clears = {c}
  MayFail = {f}
  MayThrow = {a, f}
  Chunks = 2
  None = None
  Clients = {"web", "ipad"}
  MaxBreaks = 1
  MaxConnects = 1
  MaxWire = 1
  MaxTasks <- TasksByClient
INVARIANTS NothingSkippedOrRepeated AnswersStayWhole
PROPERTY StreamingEnds
\* The bounds on connections and on messages end every behaviour.
CHECK_DEADLOCK FALSE
