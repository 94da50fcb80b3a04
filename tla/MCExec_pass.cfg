SPECIFICATION Spec
CONSTANTS
  Cmds <- MCCmds
  Pids <- MCPids
  The = "the"
  MaxOut = 1
  Scenes <- MCScenes
CHECK_DEADLOCK FALSE
INVARIANTS
  ResultTrue
  NoLostWakeup

  
