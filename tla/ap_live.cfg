SPECIFICATION ReadingHostapdSpec
CONSTANTS
  None = None
  Calls = {c1, c2}
  Requests <- StatusOrShutdown
  Capacity = 2
  Prompt = FALSE
  Macs = {m1}
  MaxEvents = 0
  Retries = 2
  Backlog = 1
  MaxWait = 0
  CommandTimeout = 1
  RetryDelay = 1
CHECK_DEADLOCK FALSE
PROPERTIES ApCallsResolve HandshakeEnds ApShutdownStops
