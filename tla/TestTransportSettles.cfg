\* One request through four faults and a deployment: liveness.
SPECIFICATION FairSpec
CONSTANTS
  Requests = {r1}
  NoRequest = NoRequest
  Capacity = 1
  Append = TRUE
  MaxRetries = 1
  MaxPreparations = 2
  MaxGeneration = 2
  MaxFaults = 4
PROPERTY EveryRequestSettles
CHECK_DEADLOCK FALSE
