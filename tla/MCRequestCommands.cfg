SPECIFICATION FairSpec
CONSTANTS
  NONE = NONE
  D = 1
  B = 3
  P = 2
  Slot = {s1, s2, s3}
  Buf = {e1}
  MaxSlices = 4
PROPERTY
  CommandEnds
