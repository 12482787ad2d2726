SPECIFICATION FairSpec
CONSTANTS
  ClientId = {a, b}
  NoClient = none
  MaxConn = 2
  MaxFrames = 1
  Traffic <- OnlyData
  Endings = {}
PROPERTIES
  ShutdownCompletes
  FramesAreRead
  ConnectionsAccepted
  ServesClients
