SPECIFICATION FairSpec
CONSTANTS
  MaxFaults = 3
  MaxRetries = 2
INVARIANTS
  RepublishOnlyOnRequest
PROPERTIES
  NoPublicationAfterCancel
  KeepsPromise
  ResultRetained
  Acknowledged
