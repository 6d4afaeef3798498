SPECIFICATION FairSpec
CONSTANTS
  Peer = {p1, p2, p3}
  NoPeer = NoPeer
  Backlog = 2
  Params <- MCParams
INVARIANTS
  TypeOK
  OneSession
  SessionAgreed
  SocketAccounting
PROPERTIES
  OngoingTestUndisturbed
  OfferResolved
  ImplementsControlSession
CHECK_DEADLOCK FALSE
