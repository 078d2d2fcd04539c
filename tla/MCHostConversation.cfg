CONSTANTS
  Requests = {"r1", "r2"}
  MaxEvents = 3
SPECIFICATION Spec
INVARIANTS
  ProtocolIsKept
PROPERTIES
  RequestsSettle
CHECK_DEADLOCK FALSE
