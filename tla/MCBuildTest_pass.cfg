SPECIFICATION FairSpec
CONSTANTS
  RequestOptions <- AllOptions
  MaxBuildRetries = 1
  MaxAborts = 2
  MaxRestarts = 2
INVARIANT
  ReportsTrue
PROPERTIES
  ChangeCleaned
  ClientsGetOn
CHECK_DEADLOCK FALSE
