SPECIFICATION Spec
CONSTANTS
  None = None
  Calls = {c1, c2}
  Requests <- Selects
  Capacity = 2
  Networks = {0, 1}
  Acts = {"Link"}
  MaxEvents = 1
  MaxListed = 1
  Prompt = TRUE
  Backlog = 2
CHECK_DEADLOCK FALSE
INVARIANT SuccessIsOwn
