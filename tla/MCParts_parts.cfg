CONSTANTS
  Checked = {"assembly", "stream", "preview", "night", "logs", "schedule"}
  Parts = 3
  Capacity = 4
  MaxLost = 2
  MaxFrame = 5
  Buffers = 2
  MaxHold = 2
  MaxStart = 2
  Callback = {c1}
  NoCallback = none
  QueueSize = 2
  PoolSize = 3
  MaxSession = 2
  MaxLater = 1
  MaxSeq = 3
  Spurious = TRUE
  Day = 6
  MaxDays = 6
  MaxDuration = 16
  MaxLog = 2
  Job = {j1, j2}
  Call = {k1}
  Watchdog = {1, 2}
  NoWatchdog = 0
  Main = main
  Period = 1
SPECIFICATION FairSpec
INVARIANTS
  OneFramePerImage WholeUnlessLost
  StreamInv HeldIsUnderWay StopMissesOne
  PreviewType NoFrameTwice FramesInOrder NobodySleepsOnFrame
  NightTimeIsExact
  OneScheduler
PROPERTIES
  ImagesAdvance ImplementsSource StopEnds LostOnlyByStop WaitEnds LogRecoveryEnds
  OnlySentIsMarked NothingPartsThem AuthenticationsRecur
CHECK_DEADLOCK FALSE
