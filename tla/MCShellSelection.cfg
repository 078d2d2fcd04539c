SPECIFICATION Spec
CONSTANTS
  MaxCommands = 2
  MaxLaunches = 2
INVARIANTS
  HostAgrees
  NoCardWhenPaused
PROPERTIES
  SilentAfterReset
  LifecycleSettles
CHECK_DEADLOCK FALSE
