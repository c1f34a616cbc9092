CONSTANTS
  NL = NL
  x = x
  Uses <- MCUses
SPECIFICATION Spec
INVARIANTS TypeOK QueriesAgree AVL
PROPERTY ImplementsText
CHECK_DEADLOCK FALSE
