SPECIFICATION ReadingDaemonSpec
CONSTANTS
  Calls = {c1, c2, c3}
  None = None
  Requests <- StatusOrShutdown
  Capacity = 3
  RetryMinutes = 2
  SecondsPerMinute = 2
  MaxLate = 1
INVARIANTS DeferredInOrder ReadyLosesNothing MinutesLeftDefined
PROPERTY StartupEnds
CHECK_DEADLOCK FALSE
