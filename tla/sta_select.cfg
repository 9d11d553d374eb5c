SPECIFICATION ReadingDaemonSpec
CONSTANTS
  Calls = {c1, c2}
  None = None
  Requests <- SelectOrShutdown
  Capacity = 1
  Networks = {0}
  Acts = {"Link"}
  MaxEvents = 2
  MaxListed = 0
  Prompt = FALSE
  Backlog = 1
INVARIANTS TypeOK NoRequestLost SelectNotMissed LinkMirrored
PROPERTIES ImplementsService CallsResolve ShutdownStops SelectLetGo
CHECK_DEADLOCK FALSE
