SPECIFICATION Spec
CONSTANTS
  BodyLen = 1
  Buffer = 6
  MaxCalls = 2
  Evictions = FALSE
INVARIANTS
  RequestsSucceed
