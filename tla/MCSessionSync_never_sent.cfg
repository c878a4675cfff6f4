CONSTANTS
  Sid = {x1}
  NoSid = none
  Student = {s1}
  Finisher = {f1}
  MaxRow = 2
  MaxRestart = 0
  UnknownIdIsEnded = FALSE
SPECIFICATION FairSpec
PROPERTIES
  SavedFinishIsSent
