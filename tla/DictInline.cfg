CONSTANTS
  foo = foo
  bar = bar
  Names = {foo, bar}
  Size <- MCSize
  ArenaCap = 4
  InlineMax = 1
  MaxWords = 3
  MaxToks = 1
  MaxCells = 1
SPECIFICATION Spec
INVARIANT InlineFaithful
SYMMETRY TwoNames
CHECK_DEADLOCK FALSE
