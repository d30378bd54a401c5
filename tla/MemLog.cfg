SPECIFICATION Spec
CONSTANTS
  Ptrs = {1, 2, 3, 4, 5, 6, 7}
  NULL = NULL
  MaxEntries = 3
  Fresh <- MCFresh
  Types = {"FILE", "CUSTOM"}
  Levels = {0, 7}
  Sizes = {0, 1}
  FacSize = 1
  NodeSize = 1
  MaxFacs = 2
  MaxOwn = 1
  MaxLost = 1
INVARIANTS
  BlocksTraced
  LogSound
CHECK_DEADLOCK FALSE
