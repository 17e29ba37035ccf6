\* Two contenders that come with and without patience, three mishaps.
SPECIFICATION FairSpec
CONSTANTS
  Contenders = {p1, p2}
  Patient = {p1, p2}
  Impatient = {p1, p2}
  OpenPins = TRUE
  MaxFaults = 3
INVARIANT QueueRespected
PROPERTIES KeepsPromise WaiterServed
CHECK_DEADLOCK FALSE
