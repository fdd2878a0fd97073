SPECIFICATION Spec
CONSTANTS
  p1 = p1
  p2 = p2
  None = None
  session = session
  bash = bash
  miner = miner
  Pids = {p1}
  Programs = {session, bash, miner}
  Sshd = {session}
  Shells = {bash}
  System = {}
  Heavy = {miner}
  Configs <- StrictOnly
  Depth = 5
  SuppressFor = 1
  StaleAfter = 2
  ChanCap = 1
  MaxChanges = 2
CHECK_DEADLOCK FALSE
PROPERTIES
  OnlyOffendersKilled
