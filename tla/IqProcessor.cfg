\* Three decimations; a block holds one group of the largest, and reads of up
\* to nine samples end within, at and beyond a block of any of them.
SPECIFICATION Spec
CONSTANTS
  Decimations = {1, 2, 4}
  BlockLen = 16
  MaxOut = 9
  Horizon = 64
INVARIANTS TypeOK FiltersHearNoGap GroupsComplete
PROPERTIES ReadsContinue ShortReadLeavesNothing
