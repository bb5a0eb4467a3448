\* One die with a bad block, two contents per slice: no symmetry, because
\* liveness is checked.
SPECIFICATION FairSpec
CONSTANTS
  NONE = NONE
  D = 1
  B = 4
  P = 2
  LSA = {l1, l2, l3}
  Data = {x, y}
  Good <- Block1Bad
CONSTRAINT NoOpenBlockErased
INVARIANT AlwaysAVictim
PROPERTIES
  ProgramOncePerErase
  ImplementsSliceStore
  WriteCompletes
