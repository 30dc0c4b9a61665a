SPECIFICATION FairSpec
CONSTANTS
  Pids = {p1, p2}
  Ports = {x}
  NoPid = NoPid
  NoFile = NoFile
  Empty = Empty
  BindAttempts = 2
  Serial = FALSE
  DiskFaults = TRUE
INVARIANT ListenerHeldByServer
PROPERTIES GracefulEnd LaunchSettles
