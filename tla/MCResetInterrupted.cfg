SPECIFICATION Spec
CONSTANTS
  DisplayIds = {"primary", "second"}
  Layouts <- MCLayouts
  Drags <- MCDrags
  FirstLayout <- MCFirstLayout
  LeftAnchor <- MCLeftAnchor
  MaxProcesses = 3
  MaxResets = 2
  Users <- MCUsers
INVARIANTS
  InterruptedIsRemembered
CHECK_DEADLOCK FALSE
