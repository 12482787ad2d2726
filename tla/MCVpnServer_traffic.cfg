SPECIFICATION Spec
CONSTANTS
  ClientId = {a}
  NoClient = none
  MaxConn = 2
  MaxFrames = 1
  Traffic <- AllTraffic
  Endings = {"closed", "reset"}
INVARIANTS
  TypeOK
  EvictsOnlyUnrefreshed
PROPERTIES
  RemovedForCause
  NothingAfterShutdown
  AnswersItsClients
