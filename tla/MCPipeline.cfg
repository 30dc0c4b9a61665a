SPECIFICATION FairSpec
CONSTANTS
  Kids = {c1, c2, c3}
  Pipes = {q1, q2}
  Session = Session
  None = None
  MaxStages = 3
  Cap = 1
  Output = 2
  MaxDisturb = 1
INVARIANTS TypeOK LeftBehind
PROPERTY LineCompletes
