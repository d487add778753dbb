SPECIFICATION Spec
CHECK_DEADLOCK FALSE
CONSTANTS
  mention = mention
  reply = reply
  Messages <- ThisMessages
  Mentions = {mention}
  Events = {"m1", "m2", "r1"}
  Of <- Delivered
  Idle = 1
  Window = 1
  MaxTime = 2
  MaxMade = 2
INVARIANTS
  TurnsAreSerial
  MentionsAnsweredOnce
PROPERTIES
  WindowIsKept
  TasksRun
