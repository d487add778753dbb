SPECIFICATION Spec
CHECK_DEADLOCK FALSE
CONSTANTS
  Clicks = {a}
  Ticket = k1
INVARIANTS
  ExpiredDidNotRun
