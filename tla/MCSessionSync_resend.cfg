CONSTANTS
  Sid = {x1, x2}
  NoSid = none
  Student = {s1, s2}
  Finisher = {f1, f2}
  MaxRow = 2
  MaxRestart = 1
  UnknownIdIsEnded = TRUE
SPECIFICATION Spec
SYMMETRY Symmetry
CONSTRAINT OneAtATime
INVARIANTS
  IInv
  SidOfStudent
  LiveIdIsRow
  RecoveryCanGoOn
PROPERTIES
  ResendLeavesClosed
  ImplementsTable
  OfflineFinishKept
  RunningNotPushed
  FirstSaveIsResendable
  OfflineFinishStaysResendable
  ClosedIsOver
  RecoveryAdvances
