SPECIFICATION Spec
CONSTANTS
  None = None
  Calls = {c1}
  Requests <- StatusOrShutdown
  Capacity = 1
  Prompt = FALSE
  Backlog = 2
  Macs = {m1}
  MaxEvents = 0
  Retries = 10
  MaxWait = 0
  CommandTimeout = 12
  RetryDelay = 1
CHECK_DEADLOCK FALSE
INVARIANT BoundedByDelays
