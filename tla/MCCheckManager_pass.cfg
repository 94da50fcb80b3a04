SPECIFICATION FairSpec
CONSTANTS
  on1 = on1
  on2 = on2
  off = off
  Config = {on1, on2, off}
  Enabled = {on1, on2}
  NoCheck = NoCheck
  OnDisk = on1
  NoData = NoData
  Threshold = 2
  MaxFailures = 3
  MaxEvents = 2
INVARIANTS
  ChecksSound
  DownIsHandled
PROPERTY
  ChecksSettle
CHECK_DEADLOCK FALSE
