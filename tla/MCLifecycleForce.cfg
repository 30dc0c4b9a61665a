SPECIFICATION Spec
CONSTANTS
  Pids = {p1, p2}
  Ports = {x}
  NoPid = NoPid
  NoFile = NoFile
  Empty = Empty
  BindAttempts = 2
  Serial = TRUE
  DiskFaults = FALSE
INVARIANT ReplacedOnlyByForce
