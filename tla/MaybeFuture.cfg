SPECIFICATION FairSpec
CONSTANTS
  Results <- Value
  Transfers <- MCTransfers
  Outcomes <- MCOutcomes
  Future <- MCFuture
  Tree <- MCTree
  Roots <- MCRoots
INVARIANTS AwaitIsWait OneAtATime
PROPERTY Completes
