CONSTANTS
  Requests = {r1}
  NoRequest = NoRequest
SPECIFICATION WorkerSpec
INVARIANTS
  TerminatesOnlyDefectiveProvider
CHECK_DEADLOCK FALSE
