SPECIFICATION RuleSpec
CHECK_DEADLOCK FALSE
CONSTANTS
  DayLength = 4
  Week = 2
  Zones <- HourZones
  Rules <- HourRules
  FirstScan = 2
  LastScan = 26
INVARIANT LaterReading
