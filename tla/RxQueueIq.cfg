\* IQ blocks on a backend that cancels at stop.
SPECIFICATION Spec
CONSTANTS
  Transfers = 3
  Mode = "F32Iq"
  CanCancel = TRUE
  MayFail = TRUE
  StatCap = 3
INVARIANTS StatsConsistent

