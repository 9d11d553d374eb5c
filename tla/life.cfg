SPECIFICATION LifeFairSpec
CONSTANTS
  None = None
  Calls = {c1, c2}
  Requests <- SelectOrShutdown
  Capacity = 2
  Networks = {0}
  Acts = {"Refuse"}
  MaxEvents = 1
  MaxListed = 0
  Prompt = FALSE
  Backlog = 1
  RetryMinutes = 1
  SecondsPerMinute = 2
  MaxLate = 0
  MaxRuns = 2
CHECK_DEADLOCK FALSE
INVARIANTS StepRegained OwnedOnce
PROPERTIES ImplementsRestartable EveryStartupEnds
