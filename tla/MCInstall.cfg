SPECIFICATION FairSpec
CONSTANTS
  None = None
  Timeout = 2
  Backlog = 5
  LineMax = 2
  MaxNoise = 2
INVARIANTS TypeOK StartedAsAnswered SeenAsSent
PROPERTY Returns
CHECK_DEADLOCK FALSE
