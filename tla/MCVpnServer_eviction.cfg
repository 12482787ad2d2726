SPECIFICATION TimedSpec
CONSTANTS
  ClientId = {a, b}
  NoClient = none
  MaxConn = 2
  MaxFrames = 1
  Traffic <- Leaving
  Endings = {"closed"}
INVARIANTS
  NoReplyAstray
PROPERTIES
  GonePeersEvicted
