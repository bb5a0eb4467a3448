SPECIFICATION Spec
CONSTANTS
  Ch <- MCCh
  USER_BLOCKS_PER_LUN = 3
  TOTAL_BLOCKS_PER_LUN = 5
  InitialFlash <- MCFlash
  AdminCID = {a}
  IoCID = {c}
  QN = 1
  QIDs <- MCQIDs
  PL_SQ_ENTRY_NUM = 2
  PL_CQ_ENTRY_NUM = 2
  VECTOR = 0
  MaxLosses = 1
  MaxFaults = 1
  LoopFlash <- MCLoopFlash
INVARIANTS TypeOK ListsMatchDies BadStayOut RunningAgrees QueueTables EachInOnePlace
PROPERTIES KnownBadStaysKnown BootEnds HandshakeEnds AnswersCome
CHECK_DEADLOCK FALSE
