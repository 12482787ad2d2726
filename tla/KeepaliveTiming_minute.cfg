SPECIFICATION Spec
CONSTANTS
  MaxConn = 1
  Unit = 15
  ServerInterval = 30
  Lag = 1
  Lossy = {}
INVARIANTS
  EvictedAfterAMinute
