CONSTANTS
  Half = 4
  ImmMax = 1
  Pool = {9, 10, 11, 12, 13, 14, 15}
  FPool = {9}
  Addr = {0, 1}
  Self = 0
  Index <- MCIndex
  FloatLocals = {}
  Toks <- AllToks
  Init0 <- MCEntry
  Programs <- DryLocalPrograms
  MaxDepth = 12
SPECIFICATION Spec
PROPERTY Implements
CHECK_DEADLOCK FALSE
