\* F32Iq, where the host decimation changes instead of the packing; cleanup ends,
\* also when every transfer may fail.
SPECIFICATION FairSpec
CONSTANTS
  s1 = s1
  s2 = s2
  handle = handle
  Stream = {s1, s2}
  Handle = handle
  Mode = "F32Iq"
  Decimations = {1, 2}
  MayFail = TRUE
PROPERTIES RestartKeepsQueue CleanupEnds FinalCleanupEnds
