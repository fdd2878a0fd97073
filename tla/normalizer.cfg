SPECIFICATION FairSpec
CONSTANTS
  alice = alice
  Users = {alice}
  Lines <- AllLines
  Backlog = 1
  CacheFor = 1
  ChanCap = 1
  MaxLines = 2
  MaxCrashes = 1
CHECK_DEADLOCK FALSE
INVARIANTS
  TypeOK
  ReportedOnce
  NothingSkipped
  TrailsNested
PROPERTIES
  FreshUsers
  LinesArrive
