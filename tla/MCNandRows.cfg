\* One die of four-page blocks: the first two blocks are written once.
SPECIFICATION Spec
CONSTANTS
  NONE = NONE
  D = 1
  B = 3
  P = 4
  LSA = {l1, l2, l3, l4, l5, l6}
  Data = {x}
  Good <- AllGood
  TOTAL_BLOCKS_PER_LUN <- Spares
  RemappedPhyBlock <- NoRemap
SYMMETRY SliceSymmetry
CHECK_DEADLOCK FALSE
INVARIANT OneSlicePerRow
