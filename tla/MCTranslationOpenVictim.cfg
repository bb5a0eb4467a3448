\* One die, the open block may be collected and is followed further.
SPECIFICATION Spec
CONSTANTS
  NONE = NONE
  D = 1
  B = 3
  P = 2
  LSA = {l1, l2, l3}
  Data = {x}
  Good <- AllGood
SYMMETRY SliceSymmetry
CHECK_DEADLOCK FALSE
INVARIANT CurrentPageInBlock
