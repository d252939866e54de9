\* The sizes of the code, and enough pairs for every ring in use to wrap.
SPECIFICATION Spec
CONSTANTS
  History = 512
  Taps = 24
  QDelay = 12
  Levels = {0, 1, 3, 6}
  MaxGroups = 2
  MaxPairs = 768
INVARIANTS FirReadsLatest QuadratureIsDelayed StagesReadLatest StagesInPhase ScratchInTurn
