SPECIFICATION Spec
CONSTANTS
  Peer = {p1, p2, p3}
  NoPeer = NoPeer
  Backlog = 2
  Params <- MCParams
SYMMETRY Symmetry
INVARIANTS
  ReportNamesPeer
CHECK_DEADLOCK FALSE
