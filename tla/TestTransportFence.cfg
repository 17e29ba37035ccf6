\* Two requests on a channel without append, with room for both.
SPECIFICATION Spec
CONSTANTS
  Requests = {r1, r2}
  NoRequest = NoRequest
  Capacity = 2
  Append = FALSE
  MaxRetries = 1
  MaxPreparations = 1
  MaxGeneration = 1
  MaxFaults = 1
INVARIANT PublicationFenced
CHECK_DEADLOCK FALSE
