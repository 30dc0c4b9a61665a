SPECIFICATION FairCallSpec
CONSTANTS
  MaxSp = 3
  MaxPush = 3
INVARIANTS CallTypeOK CallIsClean CredentialsLowered
PROPERTY CallReturns
CHECK_DEADLOCK FALSE
