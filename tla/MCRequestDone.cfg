SPECIFICATION FairDepSpec
CONSTANTS
  NONE = NONE
  D = 1
  B = 1
  P = 1
  Slot = {s1, s2, s3, s4}
  Buf = {e1}
PROPERTY
  AllDone
