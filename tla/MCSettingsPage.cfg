CONSTANTS
  Calls = {c1, c2}
  NoCall = NoCall
  Started <- EverythingOn
  Statuses = {200, 429}
  ErrorCodes = {"54003", "52001"}
  MaxTests = 2
  MaxCommands = 2
SPECIFICATION Spec
INVARIANTS
  PageIsTruthful
  NothingIsSentBehind
  NoCallOutlivesConsent
PROPERTIES
  PageRecovers
CHECK_DEADLOCK FALSE
