SPECIFICATION Spec
CONSTANTS
  SECTOR = 2
  BLOCK = 4
  LIMIT = 6
  Jobs <- MCJobs
  LOADER = 2
  MEM = 12
  MAX_RETRY_TIMES = 4
  MAX_ROUNDS = 15
  MaxFaults = 3
INVARIANTS
  TypeOK
  LossesAreNoticed
  
  RebootedIntoApp
  DumpIsTrue
PROPERTIES
  Finishes
CHECK_DEADLOCK FALSE
