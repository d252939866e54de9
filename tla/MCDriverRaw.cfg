\* RawAdc: packing may change under a stream; everything may fail.
SPECIFICATION Spec
CONSTANTS
  s1 = s1
  s2 = s2
  handle = handle
  Stream = {s1, s2}
  Handle = handle
  Mode = "RawAdc"
  Decimations = {1}
  MayFail = TRUE
SYMMETRY Slots
INVARIANTS TypeOK ClaimMatchesOwner RunningReceives NoStrayReception ClosedIsQuiet SnapshotMatchesSession
PROPERTIES StrandedUntilClosed EndIsTerminal ImplementsCustody
