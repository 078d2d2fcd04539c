CONSTANTS
  Capacity = 2
  MaxGeneration = 2
SPECIFICATION Spec
INVARIANTS
  ListeningIsWhole
  GesturesKeepOrder
  NoLateResult
PROPERTIES
  SilentAfterStop
  ListenerMakesProgress
CHECK_DEADLOCK FALSE
