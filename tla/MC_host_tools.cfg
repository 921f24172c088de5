SPECIFICATION HostSpec
CONSTANTS
  Packets <- MCPackets
  MaxPackets = 3
  MaxCalls = 3
  MaxBytes = 1
  Names = {1, 2, 3}
  MaxRuns = 3
  Suite <- MixedSuite
  Tests <- MCTests
  Oracles <- MCOracles
  Ends <- MCEnds
  Body <- MCBody
  AssertAt <- MCAssertAt
  Expect <- MCExpect
  Text <- MCText
  Logs <- SuiteLogs
  Echo = "Testing"
  Fatal = "Fatal"
INVARIANTS
  CleanLineIsFifo
  OneByteSpoilsOne
  TablesAgree
  CollectsItsSegment
  GradedSegmentsExact
  RecoversAfterEnd
PROPERTIES
  CallsEnd
CHECK_DEADLOCK FALSE
