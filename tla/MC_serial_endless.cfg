SPECIFICATION SshSpec
CONSTANTS
  SECTOR = 2
  BLOCK = 4
  LIMIT = 6
  Jobs <- MCJobs
  LOADER = 2
  MEM = 4
  MAX_RETRY_TIMES = 4
  MAX_ROUNDS = 15
  MaxFaults = 0
  ATTEMPTS = 3
  WAIT = 3
  MaxLines = 2
PROPERTIES
  WaitIsLimited
CHECK_DEADLOCK FALSE
