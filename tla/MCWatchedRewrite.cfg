SPECIFICATION Spec
CONSTANTS
  c1 = c1
  c2 = c2
  w1 = w1
  w2 = w2
  Callers = {c1, c2}
  Reads = {w1, w2}
  MaxEdits = 3
  SameTick = TRUE
CHECK_DEADLOCK FALSE
PROPERTY WatchedEditsLand
