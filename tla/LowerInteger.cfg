CONSTANTS
  Half = 4
  ImmMax = 1
  Pool = {9, 10, 11, 12}
  FPool = {9, 10, 11}
  Addr = {0, 1}
  Self = 0
  Index <- MCIndex
  FloatLocals = {}
  Toks <- AllToks
  Init0 <- MCEntry
  Programs <- IntPrograms
  MaxDepth = 6
SPECIFICATION Spec
INVARIANTS RegistersExclusive AllocationSucceeds
PROPERTIES CachesCoherent ImplementsExceptGaps
CHECK_DEADLOCK FALSE
