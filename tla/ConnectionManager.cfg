SPECIFICATION FairSpec
CONSTANTS
  ClientId = {a}
  NoClient = none
  MaxConn = 2
  MaxFrames = 1
  Traffic = {"data", "keepalive", "control", "disconnect", "unexpected", "oversize", "garbage", "partial"}
  Clones = 1
INVARIANTS
  TypeOK
PROPERTIES
  RemovedForCause
  OrphansCleaned
  SpokenPeersEvicted
  ServesClients
