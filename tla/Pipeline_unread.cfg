\* The defaults of the configuration, and one request.
SPECIFICATION Spec
CONSTANTS
  Requests = {r1}
  Methods <- OneOfEach
  Severities = {0, 3, 4}
  FailClosed = TRUE
  DlpEnabled = TRUE
  DlpBlockSeverity = "high"
  InboundEnabled = TRUE
  InboundBlockSeverity = "critical"
  FileLog = TRUE
  SinkMayFail = FALSE
INVARIANT InjectionNeverDelivered
CHECK_DEADLOCK FALSE
