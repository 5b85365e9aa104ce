\* All four lists, two requests of one tool, two changes, one restart.
SPECIFICATION Spec
CONSTANTS
  q1 = q1
  q2 = q2
  t = t
  Requests = {q1, q2}
  Tools = {t}
  ToolOf <- OneTool
  Timed = {q1}
  Ttl = 1
  Clients = {"web", "ipad", "hook", "actor"}
  Remembered = {}
  MaxTime = 2
  MaxActs = 3
  MaxReloads = 2
INVARIANT ScreenTellsTheTruth
PROPERTIES NoRunWithoutConsent EveryCheckEnds
\* The bounds on time and on requests end every behaviour.
CHECK_DEADLOCK FALSE
