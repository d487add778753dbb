CONSTANTS
  Turns = {"t1", "t2"}
  Models = {"m", "legacy", "unreported"}
  Legacy = "legacy"
  ModelOf <- MCModelOf
  Priced = {"t1"}
  DayTicks = 2
  Retention = 3
  Starts <- MCStarts
  MaxTime = 5
  MaxSpend = 2
  MaxCalls = 1
  MaxResets = 1
SPECIFICATION Spec
INVARIANTS
  ClaimsAreCounted
  DriftWithinMeter
PROPERTIES
  CountedOnce
  FiguresStand
