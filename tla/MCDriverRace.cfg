\* start() reads the receive settings twice.
SPECIFICATION Spec
CONSTANTS
  s1 = s1
  s2 = s2
  handle = handle
  Stream = {s1}
  Handle = handle
  Mode = "RawAdc"
  Decimations = {1}
  MayFail = TRUE
INVARIANTS BuffersMatchPacking
