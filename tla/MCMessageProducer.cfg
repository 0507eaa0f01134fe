SPECIFICATION FairProducerSpec
CONSTANTS
  Producer = {p1, p2}
  MaxCalls = 2
  MaxFaults = 1
PROPERTIES ReturnedAtRest ReleasedIsReturned
CHECK_DEADLOCK FALSE
