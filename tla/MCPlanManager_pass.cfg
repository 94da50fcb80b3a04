SPECIFICATION Spec
CONSTANTS
  Directory <- SomeDirectories
  Label <- SomeLabels
  Content <- SomeContent
  Service = {"service"}
  Command = {"command"}
  ArgsText = "args"
  Listeners = 2
  MaxRequests = 3
INVARIANTS
  PlanSound
  ListenersCurrent
PROPERTY
  TopLayerWins
CHECK_DEADLOCK FALSE
