SPECIFICATION ReadingDaemonSpec
CONSTANTS
  Calls = {c1, c2}
  None = None
  Requests <- StatusOrShutdown
  Capacity = 1
  RetryMinutes = 2
  SecondsPerMinute = 2
  MaxLate = 1
PROPERTY ShutdownEndsStartup
CHECK_DEADLOCK FALSE
