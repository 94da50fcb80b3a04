SPECIFICATION Spec
CONSTANTS
  Changes = {"api", "auto", "stop"}
  Level = 2
  MaxTentatives = 2
  Boots = 2
  Interval = 2
  Delays = {0, 1}
  Scenes <- MCScenes
INVARIANTS StateKept EnsureInTime ExitTells
PROPERTY StopEnds
CHECK_DEADLOCK FALSE
