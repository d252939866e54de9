\* Without failing transfers, cleanup leaves the hardware quiet.
SPECIFICATION FairSpec
CONSTANTS
  s1 = s1
  s2 = s2
  handle = handle
  Stream = {s1}
  Handle = handle
  Mode = "RawAdc"
  Decimations = {1}
  MayFail = FALSE
PROPERTIES AbandonedEndsQuiet
