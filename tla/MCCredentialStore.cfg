CONSTANTS
  Ops = {o1, o2, o3}
  Credentials = {c1}
  NoCredential = NoCredential
  Earlier = Earlier
SPECIFICATION Spec
INVARIANTS
  NoResurrection
PROPERTIES
  AnswersAreCurrent
  CallersAreServed
CHECK_DEADLOCK FALSE
