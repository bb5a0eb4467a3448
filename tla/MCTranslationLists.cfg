\* One die, more slices than fit: the lists run empty and full, and the open
\* block is collected.
SPECIFICATION Spec
CONSTANTS
  NONE = NONE
  D = 1
  B = 4
  P = 2
  LSA = {l1, l2, l3, l4, l5, l6}
  Data = {x}
  Good <- AllGood
SYMMETRY SliceSymmetry
CONSTRAINT NoOpenBlockErased
INVARIANTS
  TypeOK
  IInv
  ListsMatchBlocks
  MapsAgree
  InvalidCountExact
  ReserveSuffices
