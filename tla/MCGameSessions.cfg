\* Two matches of three players on three connections.
SPECIFICATION Spec
CONSTANTS
  p1 = p1
  p2 = p2
  p3 = p3
  a = a
  None = None
  Players = {p1, p2, p3}
  Peers = {a}
  MaxConnection = 3
  MaxMatch = 2
  Lifetime = 1
  CatchUp = 1
  HardTimeout = 2
  MaxInput = 0
SYMMETRY PlayerSymmetry
INVARIANTS
  WaitsForTickets
  PlayersAgree
  OnceOnly
  NoOrphanedContender
CHECK_DEADLOCK FALSE
