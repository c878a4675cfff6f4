CONSTANTS
  Sid = {x1, x2}
  NoSid = none
  Student = {s1}
  Finisher = {f1}
  MaxRow = 2
  MaxRestart = 0
  UnknownIdIsEnded = FALSE
SPECIFICATION Spec
INVARIANTS
  FinishedOnlineIsClosed
