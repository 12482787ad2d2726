SPECIFICATION Spec
CONSTANTS
  BodyLen = 2
  Buffer = 6
  MaxCalls = 3
  Evictions = TRUE
INVARIANTS
  AnswersMatch
  ExpelledOnlyAfterRace
  FailsOnlyAfterRace
