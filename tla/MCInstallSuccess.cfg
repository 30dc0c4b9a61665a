SPECIFICATION Spec
CONSTANTS
  None = None
  Timeout = 2
  Backlog = 5
  LineMax = 2
  MaxNoise = 2
INVARIANT SuccessReported
CHECK_DEADLOCK FALSE
