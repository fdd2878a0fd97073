SPECIFICATION Spec
CONSTANTS
  p1 = p1
  Pages = {p1}
  Handlers = {"stats"}
  Keep = 1
  Limit = 3
  RecentLoad = 1
  RecentCap = 2
  TimelineCap = 3
  Placeholder = 5
  None = None
  MaxOlder = 2
  MaxAlerts = 2
  MaxTime = 1
CHECK_DEADLOCK FALSE
INVARIANTS
  TypeOK
  NewestFirst
  ShownOnce
  OnlyTheGapIsMissing
  CountAtMostOneAhead
PROPERTIES
  StatsNearTruth
