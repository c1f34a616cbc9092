CONSTANTS
  foo = foo
  bar = bar
  Names = {foo, bar}
  Size <- MCSize
  ArenaCap = 3
  InlineMax = 0
  MaxWords = 3
  MaxToks = 1
  MaxCells = 2
SPECIFICATION Spec
INVARIANTS NothingShared MapsAgree
SYMMETRY TwoNames
CHECK_DEADLOCK FALSE
