\* Two slots each, two askers, a client that answers, asks and goes away.
SPECIFICATION Spec
CONSTANTS
  Paths = {1, 2}
  Askers = {"recv", "refr"}
  MAX_PENDING_RSVP_PACKETS = 2
  MAX_PENDING_MGMT_PACKETS = 2
  MAX_MGMT_PATHS = 3
  ID_RANGE = 65536
  MaxAsked = 2
  MaxClient = 2
INVARIANTS
  TypeOK
  AnswersMatch
  TableListsConfirmed
  PassInOrder
PROPERTIES
  ReportsTold
  AnswersSettled
CHECK_DEADLOCK FALSE
