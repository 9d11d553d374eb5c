SPECIFICATION Spec
CONSTANTS
  None = None
  Calls = {c1, c2}
  Requests <- StatusOrShutdown
  Capacity = 1
  Prompt = FALSE
  Macs = {m1}
  MaxEvents = 2
  Retries = 2
  Backlog = 1
  MaxWait = 1
  CommandTimeout = 1
  RetryDelay = 1
CHECK_DEADLOCK FALSE
SYMMETRY CallSymmetry
INVARIANTS ApTypeOK ApNoRequestLost AckedIsDone EventsKept StationsMirrored HandshakeBounded ApRepliesAreOwn
PROPERTY ApImplementsService
