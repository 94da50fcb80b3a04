SPECIFICATION Spec
CONSTANTS
  Byte <- Cells
  Newline <- Ends
  Size = 3
  Reader <- Readers
  Gap <- GapText
  Lost = Lost
  Output <- Writable
  MaxBytes = 5
  MaxPlans = 1
  MaxFailures = 1
  MaxEntries = 2
  Room = {2}
  Target = {"loki", "opentelemetry", "tcp", "udp"}
  LogCount <- Counts
  DefaultLogs = 2
INVARIANTS
  
  OwnLabels
  
PROPERTY
  ReadsTheLog
CHECK_DEADLOCK FALSE
