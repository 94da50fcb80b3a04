SPECIFICATION FairSpec
CONSTANTS
  a1 = a1
  a2 = a2
  b1 = b1
  b2 = b2
  c1 = c1
  NoTask = NoTask
  NoChange = NoChange
  Change = {c1}
  Lane = {0, 1, 2}
  Task <- TwoTasks
  ChangeOf <- TwoInOne
  Rank <- TwoRank
  WaitTasks <- BuildWait
  Lanes <- BuildLanes
  HasUndo = {a1}
  HasCleanup = {a1, a2}
  Outcomes = {"nil", "error", "retry"}
  MaxRetries = 1
  MaxAborts = 1
  MaxRestarts = 1
PROPERTIES
  ChangeEnds
  StopCompletes
