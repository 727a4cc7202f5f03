\* A table of two places; a third connection finds room or is written behind it.
SPECIFICATION Spec
CONSTANTS
  Objects = {c1, c2, c3}
  Ids = {1, 2, 3}
  Nothing = Nothing
  MAX_REGISTERED_CONNS = 2
  MaxRequests = 3
INVARIANTS
  TypeOK
  TableConsistent
  NobodyDropped
  NoDeletedUsed
  CleanUpRemoves
PROPERTIES
  OverrunByMany
  AccessGivenBack
CHECK_DEADLOCK FALSE
