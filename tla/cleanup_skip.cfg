\* A clean-up that leaves a torn-down path in the table.
SPECIFICATION Spec
CONSTANTS
  Objects = {c1, c2}
  Ids = {1, 2}
  Nothing = Nothing
  MAX_REGISTERED_CONNS = 3
  MaxRequests = 3
INVARIANTS
  CleanUpComplete
CHECK_DEADLOCK FALSE
