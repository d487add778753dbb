CONSTANTS
  n1 = n1
  n2 = n2
  narrow = narrow
  wide = wide
  Uses <- EitherOrFirst
  Names = {n1, n2}
  Callers = {narrow, wide}
  MaxGrants = 2
  MaxExchanges = 2
SPECIFICATION Spec
INVARIANTS
  RefusedForCause
  PersistedBeforeUse
  RetryIsNewer
PROPERTIES
  RequestsAreAnswered
