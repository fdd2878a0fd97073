SPECIFICATION FairSpec
CONSTANTS
  Handlers = {h1, h2}
  Fields = {f1, f2}
  Values = {v0, v1}
  Default = v0
  None = None
  Absent = Absent
  Damaged = Damaged
  MaxPosts = 2
  MaxCrashes = 1
CHECK_DEADLOCK FALSE
INVARIANTS
  TypeOK
  AcknowledgedSurvive
  QuietAgreement
PROPERTIES
  RequestsEnd
