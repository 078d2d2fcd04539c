CONSTANTS
  Children = {c1, c2}
  NoChild = NoChild
  MaxRestarts = 2
SPECIFICATION Spec
INVARIANTS
  HostIsAccountedFor
PROPERTIES
  CallsSettle
  LostHostIsRemoved
  RestartStormEnds
CHECK_DEADLOCK FALSE
