\* One match of three players, for the simulation's assertion.
SPECIFICATION Spec
CONSTANTS
  p1 = p1
  p2 = p2
  p3 = p3
  a = a
  None = None
  Players = {p1, p2, p3}
  Peers = {a}
  MaxConnection = 3
  MaxMatch = 1
  Lifetime = 1
  CatchUp = 1
  HardTimeout = 2
  MaxInput = 0
SYMMETRY PlayerSymmetry
INVARIANTS
  DisconnectsLeaveAContender
CHECK_DEADLOCK FALSE
