SPECIFICATION FairSpec
CONSTANTS
  a = a
  b = b
  i1 = i1
  i2 = i2
  i3 = i3
  None = None
  Names = {a, b}
  Depth = 3
  Inodes = {i1, i2, i3}
  Blocks = {"x", "y"}
  Sessions = {1, 2}
  Commands <- MCCommands
  Disks <- MCDisks
  MaxCmds = 1
INVARIANTS RemovesOnlyItsTree CopiesAsFound MakesWholePath
PROPERTY CommandsEnd
CHECK_DEADLOCK FALSE
