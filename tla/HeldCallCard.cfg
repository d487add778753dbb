SPECIFICATION Spec
CHECK_DEADLOCK FALSE
CONSTANTS
  Clicks = {a, b}
  Ticket = k1
INVARIANTS
  ColoursAreTrue
  VerdictIsTheProxys
  OneLastWord
PROPERTIES
  RunningIsFollowed
