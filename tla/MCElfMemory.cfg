SPECIFICATION Spec
CONSTANTS
  PageSize = 4
  Word = 32
  Ptr = 2
  Lengths = {0, 1, 5}
  MaxVars = 3
  Vaddrs = {0, 3, 8}
  Sizes = {0, 5}
  MaxHdrs = 3
INVARIANTS TypeOK EnvironFits WithinReserve FlagsOfSegment NothingLeft
CHECK_DEADLOCK FALSE
