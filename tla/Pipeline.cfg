\* Failing open, severities below and at the blocking ones, of which one has a name
\* nobody knows, and audit outputs that may fail.
SPECIFICATION Spec
CONSTANTS
  Requests = {r1, r2}
  Methods <- OneOfEach
  Severities = {0, 2, 3}
  FailClosed = FALSE
  DlpEnabled = TRUE
  DlpBlockSeverity = "severe"
  InboundEnabled = TRUE
  InboundBlockSeverity = "high"
  FileLog = TRUE
  SinkMayFail = TRUE
SYMMETRY RequestSymmetry
INVARIANTS
  NoUngovernedForward ReadableInjectionReplaced DenyMeansNotRun AuditBeforeAnswer
  CountersCoverLogs
PROPERTY KeepsPromise
CHECK_DEADLOCK FALSE
