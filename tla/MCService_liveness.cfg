SPECIFICATION FairSpec
CONSTANTS
  s1 = s1
  s2 = s2
  h1 = h1
  StartTask <- Starts
  StopTask <- Stops
  ExitActions = {"restart", "shutdown"}
  BackoffDelay = 2
  BackoffFactor = 2
  BackoffLimit = 3
  Killable = TRUE
  StartMayFail = FALSE
  MaxProcs = 2
  MaxObjects = 1
  MaxAborts = 0
  MaxCheckFailures = 1
  MaxRestarts = 0

  
PROPERTIES
  RequestsAcknowledged
  BackoffRight
CHECK_DEADLOCK FALSE
