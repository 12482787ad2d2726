SPECIFICATION Spec
CONSTANTS
  MaxConn = 1
  Unit = 6
  ServerInterval = 120
  Lag = 1
  Lossy = {1}
INVARIANTS
  TypeOK
  EvictedInTime
  EndsAfterRemoval
  DisconnectInTime
PROPERTIES
  KeptAlive
