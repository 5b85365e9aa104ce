\* Setters that run at once.
SPECIFICATION Spec
CONSTANTS
  None = None
  a = a
  b = b
  Recipes = {a}
  Shelf = {a}
  Plain = {"name"}
  Lists = {"ingredients", "instructions"}
  Edits <- SetAndAdd
  MaxCalls = 3
  MaxPhotos = 0
  MaxFailures = 0
INVARIANT EditsSurvive
\* The bound on calls ends every behaviour.
CHECK_DEADLOCK FALSE
