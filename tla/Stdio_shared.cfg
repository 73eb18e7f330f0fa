\* Two clients that choose the same id.
SPECIFICATION Spec
CONSTANTS
  c1 = c1  c2 = c2  c3 = c3  i1 = i1  i2 = i2  i3 = i3
  NoId = NoId  Server = Server  Nobody = Nobody
  Calls = {c1, c2}
  Ids = {i1, i2, i3}
  IdOf <- SharedIds
  ServerIds = {}
  MaxStarts = 1
  MaxChatter = 0
  FatalLines = FALSE
  PipeRoom = 3
  HighWater = 0
  LowWater = 0
INVARIANT RightAnswer
CHECK_DEADLOCK FALSE
