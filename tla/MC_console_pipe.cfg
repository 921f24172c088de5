SPECIFICATION ProcessesSpec
CONSTANTS
  Pid = {1, 2, 3, 4}
  Main = 1
  ForkMayFail = TRUE
  CHILDREN = 3
  ROUNDS = 1
  DIGITS = 1
  Programs = {"pipe"}
INVARIANTS
  PipeIsGraded
CHECK_DEADLOCK FALSE
