SPECIFICATION FairSpec
CONSTANTS
  BodyLen = 1
  Buffer = 2
  MaxCalls = 4
  Evictions = TRUE
INVARIANTS
  TypeOK
  AnswersInOrder
PROPERTIES
  CallsReturn
  DisconnectReturns
  KeepaliveEnds
