SPECIFICATION FairSpec
CONSTANTS
  Kids = {k1, k2}
  None = None
INVARIANTS ReleasedIsComplete NotStranded StackOutlivesUse
PROPERTY LoadingSettles
CHECK_DEADLOCK FALSE
