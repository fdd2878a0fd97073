SPECIFICATION Spec
CONSTANTS
  a = a
  b = b
  Unknown = Unknown
  None = None
  Sources = {a}
  Events <- OneAttacker
  Configs <- Retuned
  DefaultBFThreshold = 3
  DefaultBFWindow = 1
  DefaultEnumThreshold = 2
  EnumWindow = 3
  SuccessWindow = 5
  Retention = 3
  CleanupPeriod = 2
  ChanCap = 1
  Timestamped = FALSE
  InsertOutcomes = {"ok"}
  MaxEvents = 3
  MaxTime = 5
INVARIANTS
  TypeOK
  NeverOvercounts
  NeverUndercounts
  SpentOnce
  StaleBound
PROPERTIES
  BruteForceDetector
  SuccessCaught
