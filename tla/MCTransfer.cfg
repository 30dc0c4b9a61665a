SPECIFICATION FairSpec
CONSTANTS
  Sample = {0, 90, 255}
  MaxFile = 4
  GetBuf = 6
  PutBuf = 8
INVARIANTS CopiedAsSent DataNotRun
PROPERTY PutReturns
CHECK_DEADLOCK FALSE
