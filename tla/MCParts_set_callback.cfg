CONSTANTS
  Checked = {"preview"}
  Parts = 3
  Capacity = 4
  MaxLost = 2
  MaxFrame = 5
  Buffers = 2
  MaxHold = 2
  MaxStart = 2
  Callback = {c1}
  NoCallback = none
  QueueSize = 2
  PoolSize = 3
  MaxSession = 1
  MaxLater = 1
  MaxSeq = 2
  Spurious = FALSE
  Day = 6
  MaxDays = 6
  MaxDuration = 16
  MaxLog = 1
  Job = {j1, j2}
  Call = {k1}
  Watchdog = {1, 2}
  NoWatchdog = 0
  Main = main
  Period = 1
SPECIFICATION FairSpec
PROPERTY SetCallbackReturns
CHECK_DEADLOCK FALSE
