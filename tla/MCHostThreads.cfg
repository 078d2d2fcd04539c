CONSTANTS
  N = 4
  Values = {v1, v2, v3}
  None = None
  Requests = {r1, r2, r3}
  NoRequest = NoRequest
SPECIFICATION ThreadsSpec
INVARIANTS
  NoDataRace
  PromisesAreKept
PROPERTIES
  ImplementsFifo
  CallsEnd
CHECK_DEADLOCK FALSE
