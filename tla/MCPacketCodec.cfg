CONSTANTS
  Packets <- MCPackets
  Configs <- MCConfigs
  Keys = {k1, k2}
  k1 = k1
  k2 = k2
SPECIFICATION Spec
INVARIANTS AnswersUnderstood DroppedIffUnacceptable NeverPanics RoutesAsSent ConfigAgreed
