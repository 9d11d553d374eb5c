SPECIFICATION ResponsiveDaemonSpec
CONSTANTS
  None = None
  Calls = {c1, c2}
  Requests <- MixedRequests
  Capacity = 1
  Networks = {0}
  Acts = {"Scan"}
  MaxEvents = 1
  MaxListed = 2
  Prompt = TRUE
  Backlog = 1
CHECK_DEADLOCK FALSE
INVARIANTS NoRequestLost RepliesInStep RepliesAreOwn ScansNotStranded
PROPERTIES ImplementsService ScanAnswered
