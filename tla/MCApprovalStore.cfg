CONSTANTS
  k1 = k1
  TopCap = 2
  Channels = {c1}
  Slots = {r1}
  Calls = {k1}
  Sheets <- HoldingSheets
  TTL = 1
  Retention = 1
  TicketCap = 1
  MaxMints = 2
  MaxTime = 1
SPECIFICATION Spec
PROPERTIES
  OneShotSpec
  RequestsAreAnswered
