CONSTANTS
  Procs = {p1, p2}
  Setups <- MCSetups
  Shapes = {1}
  Ops = {1, 4}
  NumHbm = 2
  MinimumHeads = 1
  Granularity <- MCGranularity
  MaxLives = 3
  MaxAsks = 2
SYMMETRY ProcSymmetry
SPECIFICATION Spec
INVARIANTS
  TypeOK
  ResultsOfOwnTrace
  LogIsHeld
PROPERTIES
  AnswersFromStore
\* The processes may all end.
CHECK_DEADLOCK FALSE
