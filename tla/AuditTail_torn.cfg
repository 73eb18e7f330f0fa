SPECIFICATION FairSpec
CONSTANTS
  MaxShown = 2
  MaxEvents = 3
  MaxStarts = 3
INVARIANTS
  TypeOK
  EachOnceInOrder
  OthersAreAdded
PROPERTIES
  CatchesUp
CHECK_DEADLOCK FALSE
