\* Two dies of three blocks: four slices fit in a die beside its reserved
\* block, eight in the two.  Five slices are enough to fill one of them.
SPECIFICATION Spec
CONSTANTS
  NONE = NONE
  D = 2
  B = 3
  P = 2
  LSA = {l1, l2, l3, l4, l5}
  Data = {x}
  Good <- AllGood
SYMMETRY SliceSymmetry
CONSTRAINT NoOpenBlockErased
CHECK_DEADLOCK FALSE
INVARIANT AlwaysAVictim
