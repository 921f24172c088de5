SPECIFICATION Spec
CONSTANTS
  Pid = {1, 2, 3, 4, 5}
  Main = 1
  NUM_CHILDREN = 3
  ForkMayFail = TRUE
INVARIANTS
  TypeOK
  FailsOnlyIfForkFails
  TestsStartChildless
  CountMatchesChildren
PROPERTIES
  TableEmptied
CHECK_DEADLOCK FALSE
