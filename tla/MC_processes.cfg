SPECIFICATION ProcessesSpec
CONSTANTS
  Pid = {1, 2, 3, 4}
  Main = 1
  ForkMayFail = TRUE
  CHILDREN = 3
  ROUNDS = 1
  DIGITS = 1
  Programs = {"fork", "wait", "waitpid", "clone", "yield", "pipe"}
INVARIANTS
  VerdictsAreOfTheFork
  NoZombieLineIsTrue
  MarksOnEverySchedule
  FailureCostsMarks
  MarkerIsLast
PROPERTIES
  Finishes
CHECK_DEADLOCK FALSE
