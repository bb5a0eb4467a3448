\* Two dies written in turn, three slices that may all end in one of them.
SPECIFICATION Spec
CONSTANTS
  NONE = NONE
  D = 2
  B = 3
  P = 2
  LSA = {l1, l2, l3}
  Data = {x}
  Good <- AllGood
SYMMETRY SliceSymmetry
CONSTRAINT NoOpenBlockErased
INVARIANT ReserveRestored
