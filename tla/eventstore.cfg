SPECIFICATION Spec
CONSTANTS
  Sources = {"sshd", "sshd-monitor"}
  Observed <- MCObserved
  Queries <- MCQueries
  SubWindow = 2
  MaxEvents = 3
  MaxTime = 3
CHECK_DEADLOCK FALSE
INVARIANTS
  TypeOK
  WindowAnswerHeld
  BurstsBounded
  QuestionsAnswered
