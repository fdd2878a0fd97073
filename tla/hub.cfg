SPECIFICATION FairSpec
CONSTANTS
  Clients = {c1, c2}
  SendCap = 1
  MaxBroadcasts = 2
CHECK_DEADLOCK FALSE
INVARIANTS
  TypeOK
  NeverPanics
  NothingLost
PROPERTIES
  ImplementsFeed
  BroadcastReturns
  DeadIsForgotten
