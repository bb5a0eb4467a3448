SPECIFICATION DepSpec
CONSTANTS
  NONE = NONE
  D = 1
  B = 1
  P = 2
  Slot = {s1, s2, s3, s4, s5}
  Buf = {e1, e2}
SYMMETRY SlotSymmetry
INVARIANTS
  DepInv
  SlotsAccountedFor
  ChainsMatchBuffers
  RowTableExact
  OrderKept
  NeverStuck
