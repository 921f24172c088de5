SPECIFICATION SemsSpec
CONSTANTS
  Programs <- MCPrograms
  Producers = {1, 2, 3}
  Consumer = 9
  buffer_size = 2
  number_per_producer = 2
INVARIANTS
  OneIsRefused
  NobodyIsRefused
  UnitsReturned
  RingConsistent
PROPERTIES
  Finishes
  RingFinishes
  ImplementsFifo
CHECK_DEADLOCK FALSE
