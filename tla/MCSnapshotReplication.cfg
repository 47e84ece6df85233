\* Keyframes of two fragments, one entity of two values.
SPECIFICATION Spec
CONSTANTS
  a = a
  x = x
  y = y
  Entities = {a}
  Values = {x, y}
  KeyframeParts = 2
  DeltaParts = 1
  KeyframeInterval = 4
  ServerBaselines = 2
  ClientBaselines = 2
  MaxSnapshot = 5
  MaxInput = 3
SYMMETRY ReplicationSymmetry
INVARIANTS
  ClientSeesWhatWasShown
  AcknowledgementsWork
  RefusalsAreAsked
PROPERTIES
  AcknowledgedBaselineSurvives
CHECK_DEADLOCK FALSE
