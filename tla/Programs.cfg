SPECIFICATION ProgramSpec
CONSTANTS
  MaxConn = 4
  Unit = 8
  ServerInterval = 30
  Lag = 1
  Lossy = {1, 2}
  Rounds = 2
  Program = {"main", "single_client", "multiple_clients", "packet_size"}
INVARIANTS
  ClientsFollowOneAnother
PROPERTIES
  ProgramEnds
  KeptAlive
