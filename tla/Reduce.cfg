CONSTANTS
  Half = 4
  Addr = {0}
  Self = 0
  Index <- MCIndex
  FloatLocals = {}
  Toks <- MCToks
  Entries <- MCEntries
  Alphabets <- MCAlphabets
  MaxDepth = 7
SPECIFICATION Spec
INVARIANTS SameMeaning SecondPassIdle
CHECK_DEADLOCK FALSE
