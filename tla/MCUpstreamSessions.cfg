CONSTANTS
  Calls = {a, b, c}
  Limit = 2
  MaxClients = 1
  MaxGens = 3
SPECIFICATION Spec
SYMMETRY CallSymmetry
CHECK_DEADLOCK FALSE
INVARIANTS
  RunsOnce
  NoneStranded
