CONSTANTS
  Sid = {x1}
  NoSid = none
  Student = {s1}
  Finisher = {f1}
  MaxRow = 2
  MaxRestart = 1
  UnknownIdIsEnded = FALSE
SPECIFICATION FairSpec
INVARIANTS
  LoneFinishIsResendable
PROPERTIES
  ResendableIsSent
  RecoveryEnds
