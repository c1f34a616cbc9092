CONSTANTS
  cnt = cnt
  lim = lim
  ang = ang
  Ints = {cnt, lim}
  Floats = {ang}
  Uses = {}
  MaxNest = 3
SPECIFICATION Spec
INVARIANTS LocalsCurrent BackEdgesAgree
CHECK_DEADLOCK FALSE
