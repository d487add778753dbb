CONSTANTS
  k1 = k1
  TopCap = 1
  Channels = {c1}
  Slots = {r1, r2}
  Calls = {k1, k2}
  Sheets <- EditedSheets
  TTL = 1
  Retention = 1
  TicketCap = 2
  MaxMints = 1
  MaxTime = 1
SPECIFICATION Spec
SYMMETRY SlotSymmetry
INVARIANTS
  DispatchIsAuthorized
  ApprovalServesOnce
  OneRowPerDecidedCall
  TicketRowsAgree
  OvershootBounded
