SPECIFICATION Spec
CONSTANTS
  Mode = {"RawAdc", "F32Iq"}
  Frequencies <- MCFrequencies
  Rates <- MCRates
  Ports = {0, 1}
  Gains <- MCGains
  Requests <- MCRequests
  MaxFaults = 2
INVARIANTS TypeOK SnapshotIsValid RegistersInRange
PROPERTIES ImplementsPromise
