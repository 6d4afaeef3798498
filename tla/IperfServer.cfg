SPECIFICATION ServerSpec
CONSTANTS
  Peer = {p1, p2}
  NoPeer = NoPeer
  Backlog = 2
  Params <- MCParams
INVARIANTS
  WaitsWithSession
  NoServiceWithoutSetUp
PROPERTIES
  FirstClientAnswered
  WaitHasReason
CHECK_DEADLOCK FALSE
