CONSTANTS
  k1 = k1
  TopCap = 1
  Channels = {c1}
  Slots = {r1}
  Calls = {k1, k2}
  Sheets <- EditedSheets
  TTL = 1
  Retention = 0
  TicketCap = 1
  MaxMints = 1
  MaxTime = 1
SPECIFICATION Spec
INVARIANTS
  ExpiredMeansUndecided
