SPECIFICATION Spec
CONSTANTS
  s1 = s1
  s2 = s2
  h1 = h1
  StartTask <- Starts
  StopTask <- Stops
  ExitActions = {"restart", "ignore"}
  BackoffDelay = 2
  BackoffFactor = 2
  BackoffLimit = 3
  Killable = FALSE
  StartMayFail = TRUE
  MaxProcs = 2
  MaxObjects = 2
  MaxAborts = 1
  MaxCheckFailures = 0
  MaxRestarts = 1
INVARIANTS
  TypeOK
  TimersArmed
  ResultsSound
SYMMETRY Interchangeable
CHECK_DEADLOCK FALSE
