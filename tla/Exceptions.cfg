CONSTANTS
  Objects = {1}
  Sizes = {0, 1}
  MaxFrames = 5
  MaxLocals = 2
  MaxOpen = 1
  MaxCalls = 2
SPECIFICATION Spec
INVARIANTS HandlersNest LocalsOwned SelfInMethods RestsClean
CHECK_DEADLOCK FALSE
