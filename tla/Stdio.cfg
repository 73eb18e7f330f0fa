\* Two requests and a notification over a pipe for one line, so that drain()
\* suspends calls; a child that sends requests of its own and lines that end the
\* reader; a restart.
SPECIFICATION FairSpec
CONSTANTS
  c1 = c1  c2 = c2  c3 = c3  i1 = i1  i2 = i2  i3 = i3
  NoId = NoId  Server = Server  Nobody = Nobody
  Calls = {c1, c2, c3}
  Ids = {i1, i2, i3}
  IdOf <- WithNotification
  ServerIds = {i3}
  MaxStarts = 2
  MaxChatter = 1
  FatalLines = TRUE
  PipeRoom = 1
  HighWater = 0
  LowWater = 0
INVARIANTS TypeOK OneChild RightAnswer TableIsExact
PROPERTIES DroppedOnlyInDrain EveryCallReturns
CHECK_DEADLOCK FALSE
