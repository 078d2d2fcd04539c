SPECIFICATION Spec
CONSTANTS
  DisplayIds = {"primary", "second"}
  Layouts <- MCLayouts
  Drags <- MCDrags
  FirstLayout <- MCFirstLayout
  LeftAnchor <- MCLeftAnchor
  MaxProcesses = 3
  MaxResets = 2
  Users <- MCUsers
INVARIANTS
  ResetIsRemembered
  WithdrawnIsOffline
  BallIsInPlace
PROPERTIES
  StartsAreServed
CHECK_DEADLOCK FALSE
