SPECIFICATION ServerSpec
CONSTANTS
  Peer = {p1, p2}
  NoPeer = NoPeer
  Backlog = 2
  Params <- MCParams
PROPERTIES
  SecondClientDenied
CHECK_DEADLOCK FALSE
