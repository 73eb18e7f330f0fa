SPECIFICATION FairSpec
CONSTANTS
  NFiles = 2
  EntryFile = 2
  Requests = {q1}
  FailClosed = FALSE
  MaxEdits = 2
  MaxStarts = 2
INVARIANTS
  EveryFileAccounted
  ConfiguredDeniesHold
PROPERTIES
  NoSilentLoosening
  StartupEnds
CHECK_DEADLOCK FALSE
