CONSTANTS
  Calls = {a, b, c}
  Limit = 2
  MaxClients = 2
  MaxGens = 2
SPECIFICATION Spec
SYMMETRY CallSymmetry
CHECK_DEADLOCK FALSE
INVARIANTS
  UpstreamBounded
  RunsOnce
  NoneStranded
PROPERTIES
  GateIsFair
