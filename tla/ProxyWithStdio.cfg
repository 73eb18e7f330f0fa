\* A tool call and a pass-through, two children of which either may die or stop reading,
\* a pipe that holds one line, OPA reduced to allow, escalate and transient failures.
SPECIFICATION ProxyFairSpec
CONSTANTS
  r1 = r1  r2 = r2  i1 = i1  i2 = i2
  NoId = NoId  Server = Server  Nobody = Nobody
  Requests = {r1, r2}
  Methods = {"ping", "tools/call"}
  Severities = {0}
  FailClosed = TRUE
  DlpEnabled = FALSE
  DlpBlockSeverity = "high"
  InboundEnabled = FALSE
  InboundBlockSeverity = "critical"
  FileLog = TRUE
  SinkMayFail = FALSE
  OpaAnswers = {"allow", "escalate", "transient"}
  ChildAnswers <- OneText
  Ids = {i1, i2}
  IdOf <- OwnIds
  ServerIds = {}
  MaxStarts = 2
  MaxChatter = 0
  FatalLines = FALSE
  PipeRoom = 1
  HighWater = 0
  LowWater = 0
INVARIANTS RefusedNeverSent SentIsRecorded ResultIsOwn ShutdownIsClean
PROPERTIES ImplementsPipeline KeepsPromiseInTime
CHECK_DEADLOCK FALSE
