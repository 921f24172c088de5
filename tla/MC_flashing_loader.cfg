SPECIFICATION Spec
CONSTANTS
  SECTOR = 2
  BLOCK = 4
  LIMIT = 6
  Jobs <- MCJobs
  LOADER = 2
  MEM = 12
  MAX_RETRY_TIMES = 4
  MAX_ROUNDS = 15
  MaxFaults = 1
INVARIANTS
  LoaderIsResent
CHECK_DEADLOCK FALSE
