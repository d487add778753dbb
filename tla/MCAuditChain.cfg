SPECIFICATION Spec
CONSTANTS
  p1 = p1
  p2 = p2
  a = a
  x = x
  Null = null
  Proxies = {p1, p2}
  Calls <- MCCalls
  Extras <- MCExtras
  Starts <- MCStarts
  MaxRows = 3
  MaxMeddling = 2
SYMMETRY Processes
CHECK_DEADLOCK FALSE
INVARIANT UntouchedLogVerifies
PROPERTIES RowsStand BreaksStay
