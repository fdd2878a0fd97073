SPECIFICATION Spec
CHECK_DEADLOCK FALSE
CONSTANTS
  a = a
  b = b
  Unknown = Unknown
  None = None
  Sources = {a}
  Events <- Guesses
  Configs <- Fixed
  DefaultBFThreshold = 3
  DefaultBFWindow = 1
  DefaultEnumThreshold = 2
  EnumWindow = 3
  SuccessWindow = 5
  Retention = 3
  CleanupPeriod = 2
  ChanCap = 2
  Timestamped = TRUE
  InsertOutcomes = {"ok"}
  MaxEvents = 2
  MaxTime = 5
INVARIANTS
  AttemptsWithinWindow
