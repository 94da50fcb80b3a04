SPECIFICATION Spec
CONSTANTS
  a1 = a1
  a2 = a2
  b1 = b1
  b2 = b2
  c1 = c1
  NoTask = NoTask
  NoChange = NoChange
  Change = {c1}
  Lane = {0, 1, 2, 3}
  Task <- FourTasks
  ChangeOf <- FourInOne
  Rank <- FourRank
  WaitTasks <- SharedWait
  Lanes <- SharedLanes
  HasUndo = {a1, a2}
  HasCleanup = {a1, b1}
  Outcomes = {"nil", "error", "retry", "wait"}
  MaxRetries = 1
  MaxAborts = 2
  MaxRestarts = 1
INVARIANTS
  TypeOK
  NeverPanics
  DependenciesHold
  ErrorsKeepToLanes
  ReadyIffSettled
  NoLostWakeup
PROPERTY
  ReadyIsFinal
