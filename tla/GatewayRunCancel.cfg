SPECIFICATION FairSpec
CONSTANTS
  MaxFaults = 1
  MaxRetries = 1
PROPERTIES
  CancellationSettles
