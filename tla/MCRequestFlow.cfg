SPECIFICATION Spec
CONSTANTS
  NONE = NONE
  D = 2
  B = 3
  P = 2
  Slot = {s1, s2, s3}
  Buf = {e1}
  MaxSlices = 3
SYMMETRY SlotSymmetry
INVARIANTS
  TypeOK
  SpinsOnlyAlone
  OrderKept
PROPERTY
  KeepsTheRules
