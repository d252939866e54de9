\* Raw blocks on a backend that cannot cancel: discards wait for old transfers.
SPECIFICATION FairSpec
CONSTANTS
  Transfers = 3
  Mode = "RawAdc"
  CanCancel = FALSE
  MayFail = TRUE
  StatCap = 3
INVARIANTS TypeOK PoolConserved DiscardsAreOldest NoOldBlock StatsConsistent
PROPERTIES StatsNeverDecrease ReadEnds
