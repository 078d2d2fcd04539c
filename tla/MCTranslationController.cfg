CONSTANTS
  Selections = {s1, s2}
  Requests = {r1, r2}
  NoSelection = NoSelection
  NoRequest = NoRequest
SPECIFICATION CardSpec
INVARIANTS
  CardIsShown
  WaitingIsServed
  NoOrphanRequest
  CardShowsSession
  AnswerIsOfThisSelection
PROPERTIES
  EveryCallEnds
  ImplementsLatestWins
