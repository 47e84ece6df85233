\* One entity that comes and goes.
SPECIFICATION Spec
CONSTANTS
  a = a
  x = x
  Entities = {a}
  Values = {x}
  KeyframeParts = 1
  DeltaParts = 1
  KeyframeInterval = 5
  ServerBaselines = 3
  ClientBaselines = 3
  MaxSnapshot = 4
  MaxInput = 2
SYMMETRY ReplicationSymmetry
PROPERTIES
  ReenteringIsReset
CHECK_DEADLOCK FALSE
