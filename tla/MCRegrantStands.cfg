CONSTANTS
  n1 = n1
  n2 = n2
  narrow = narrow
  wide = wide
  Uses <- EitherOrFirst
  Names = {n1}
  Callers = {narrow}
  MaxGrants = 2
  MaxExchanges = 2
SPECIFICATION Spec
PROPERTIES
  RegrantStands
