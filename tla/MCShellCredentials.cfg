CONSTANTS
  Ops = {o1, o2, o3, o4}
  Credentials = {c1}
  NoCredential = NoCredential
  Earlier = Earlier
SPECIFICATION ShellSpec
SYMMETRY Symmetry
INVARIANTS
  OnlineIsAllowed
PROPERTIES
  FailedLoadCloses
  LateLoadChangesNothing
CHECK_DEADLOCK FALSE
