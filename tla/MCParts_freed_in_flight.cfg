CONSTANTS
  Checked = {"stream"}
  Parts = 3
  Capacity = 4
  MaxLost = 2
  MaxFrame = 5
  Buffers = 2
  MaxHold = 2
  MaxStart = 2
  Callback = {c1}
  NoCallback = none
  QueueSize = 2
  PoolSize = 3
  MaxSession = 2
  MaxLater = 1
  MaxSeq = 3
  Spurious = TRUE
  Day = 6
  MaxDays = 6
  MaxDuration = 16
  MaxLog = 1
  Job = {j1, j2}
  Call = {k1}
  Watchdog = {1}
  NoWatchdog = 0
  Main = main
  Period = 1
SPECIFICATION FairSpec
PROPERTY FreedIsCompleted
CHECK_DEADLOCK FALSE
