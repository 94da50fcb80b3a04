SPECIFICATION Spec
CONSTANTS
  Cmds <- MCCmds
  Pids <- MCPids
  The = "the"
  MaxOut = 2
  Scenes <- PanicScenes
CHECK_DEADLOCK FALSE
INVARIANT ClosedOnce
