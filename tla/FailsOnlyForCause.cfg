CONSTANTS
  Updaters = {u1}
  GfwLists = {g1}
  BadLists = {}
  MaxChunks = 1
  None = None
SPECIFICATION Spec
INVARIANT FailsOnlyForCause
