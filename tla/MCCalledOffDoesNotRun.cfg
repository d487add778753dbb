SPECIFICATION ClockSpec
CONSTANTS
  eng = eng
  ops = ops
  t1 = t1
  t2 = t2
  Channels = {eng, ops}
  Tickets = {t1, t2}
  InChannel <- Homes
  DueAt <- Times
  Blocks <- Written
  Occurrences <- Dates
  Moved <- Redated
  Proposed = {ops}
  Cadence = 1
  Window = 2
  Rescan = 1
  Workers = 1
  MaxTime = 4
  MaxSaid <- Talk
  MaxMishaps = 1
PROPERTY CalledOffDoesNotRun
