SPECIFICATION Spec
CHECK_DEADLOCK FALSE
CONSTANTS
  mention = mention
  reply = reply
  Messages <- ThisMessages
  Mentions = {mention}
  Events = {"m1", "r1", "r2"}
  Of <- Delivered
  Idle = 1
  Window = 1
  MaxTime = 2
  MaxMade = 2
INVARIANTS
  AnsweredOnce
