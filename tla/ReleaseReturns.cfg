SPECIFICATION FairProducerSpec
CONSTANTS
  Producer = {p1}
  MaxCalls = 1
  MaxFaults = 1
PROPERTIES ReleaseReturns
CHECK_DEADLOCK FALSE
