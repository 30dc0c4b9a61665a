SPECIFICATION Spec
CONSTANTS
  Pids = {p1, p2, p3}
  Ports = {x}
  NoPid = NoPid
  NoFile = NoFile
  Empty = Empty
  BindAttempts = 2
  Serial = TRUE
  DiskFaults = FALSE
SYMMETRY Symmetry
INVARIANTS TypeOK ServerIsNamed StatusTruthful
PROPERTY ImplementsSlot
