SPECIFICATION FairSpec
CONSTANTS
  a = a
  b = b
  Unknown = Unknown
  None = None
  Sources = {a, b}
  Events <- EveryKind
  Configs <- Toggled
  DefaultBFThreshold = 2
  DefaultBFWindow = 1
  DefaultEnumThreshold = 2
  EnumWindow = 3
  SuccessWindow = 5
  Retention = 3
  CleanupPeriod = 1
  ChanCap = 1
  Timestamped = FALSE
  InsertOutcomes = {"ok", "error"}
  MaxEvents = 2
  MaxTime = 1
PROPERTIES
  EveryFailureNotified
  EventsEvaluated
  CleanupRuns
