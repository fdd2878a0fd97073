SPECIFICATION FairSpec
CONSTANTS
  p1 = p1
  p2 = p2
  None = None
  session = session
  bash = bash
  miner = miner
  Pids = {p1, p2}
  Programs = {session, bash, miner}
  Sshd = {session}
  Shells = {bash}
  System = {}
  Heavy = {miner}
  Configs <- StrictOnly
  Depth = 2
  SuppressFor = 2
  StaleAfter = 2
  ChanCap = 1
  MaxChanges = 2
CHECK_DEADLOCK FALSE
INVARIANTS
  TypeOK
  OffencesReported
PROPERTIES
  RepeatsAreApart
  OffendersEnd
