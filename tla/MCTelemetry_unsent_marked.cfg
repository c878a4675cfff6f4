\* A comment: what failed is pushed again.
CONSTANTS
  Sid = {x1}
  NoSid = none
  MaxRow = 1
  Gps = {g1}
  Auth = {}
SPECIFICATION Spec
INVARIANT SentWasTaken
