SPECIFICATION Spec
CONSTANTS
  ClientId = {a}
  NoClient = none
  MaxConn = 2
  MaxFrames = 2
  Traffic <- TableTraffic
  Endings = {"closed"}
INVARIANTS
  RepliesInOrder
  AckedRoutesInstalled
  DisconnectLeavesNothing
