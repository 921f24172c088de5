SPECIFICATION MutexSpec
CONSTANTS
  N = 5
  ROUND = 2
  Threads = {t1, t2, t3}
  per_thread = 2
INVARIANTS
  ForksAccounted
  NeighboursTakeTurns
  NoDeadlock
  NoLostWakeup
  SumIsRight
PROPERTIES
  ImplementsOrder
  EveryProgramPasses
CHECK_DEADLOCK FALSE
