\* The receive buffer at its limit, with packets that never stop coming, and the
\* numbers of two messages.
SPECIFICATION Spec
CONSTANTS
  Packets <- SomePackets
  Allowed <- ForUs
  Intact <- Undamaged
  Hello = {"hello"}
  NumberIn <- Numbers
  Unread = "unread"
  Filtered = TRUE
  MAX_RECV = 2
  Senders = {"refr"}
  MaxQueue = 1
  MaxSent = 2
INVARIANTS
  TypeOK
  NumbersGrow
PROPERTIES
  QueueImplemented
  BufferedHandled
CHECK_DEADLOCK FALSE
