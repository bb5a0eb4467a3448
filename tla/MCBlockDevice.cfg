SPECIFICATION Spec
CONSTANTS
  LBA_SIZE = 2
  NVME_BLOCKS_PER_SLICE = 2
  PRPS_PER_LIST = 3
  N = 2
  v1 = v1
  v2 = v2
  LSAs <- MCLSAs
  Val <- MCVal
  NONE = NONE
  CommandIds <- MCIds
  HostCommands <- MCHostCommands
  WideCommands <- MCWideCommands
  MaxCommands = 5
  Slots = 5
  Pages <- MCPages
SYMMETRY Symmetric
INVARIANTS TypeOK PiecesTile ListsAgree ReadsRight NothingLost OneCompletionEach
