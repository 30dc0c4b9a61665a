SPECIFICATION FairSpec
CONSTANTS
  MaxLine = 7
  MaxToks = 4
  MaxPipe = 2
INVARIANTS TypeOK ScannedAsWritten GroupedAsWritten StoredInBounds
PROPERTIES WellFormedFreed ParsingEnds
CHECK_DEADLOCK FALSE
