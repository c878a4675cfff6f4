\* One authentication, under fairness.
CONSTANTS
  Sid = {x1}
  NoSid = none
  MaxRow = 2
  Gps = {}
  Auth = {a1}
SPECIFICATION FairSpec
PROPERTIES UploadEnds LiveSampleIsTried
