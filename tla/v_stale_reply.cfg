SPECIFICATION Spec
CONSTANTS
  None = None
  Calls = {c1, c2}
  Requests <- StatusOnly
  Capacity = 2
  Networks = {0}
  Acts = {}
  MaxEvents = 1
  MaxListed = 1
  Prompt = FALSE
  Backlog = 2
CHECK_DEADLOCK FALSE
INVARIANT FailedIsOwn
