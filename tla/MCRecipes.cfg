\* Calls of the agent and the user that overlap as they like.
SPECIFICATION Spec
CONSTANTS
  None = None
  a = a
  b = b
  Recipes = {a, b}
  Shelf = {a}
  Plain = {"name"}
  Lists = {"ingredients", "instructions"}
  Edits <- SomeEdits
  MaxCalls = 3
  MaxPhotos = 1
  MaxFailures = 1
INVARIANTS SoloEditsSurvive SettersNeverResurrect ScreenFollowsStorage
\* The bound on calls ends every behaviour.
CHECK_DEADLOCK FALSE
