\* Two requests compete for one place; two faults.
SPECIFICATION Spec
CONSTANTS
  Requests = {r1, r2}
  NoRequest = NoRequest
  Capacity = 1
  Append = TRUE
  MaxRetries = 1
  MaxPreparations = 1
  MaxGeneration = 1
  MaxFaults = 2
INVARIANTS
  RowsAgree CapacityHeld NoOpenQueryAcrossPublication RepeatedOnlyByDecision
  ReleasedAfterProjection OneRecoveryPerJob
CHECK_DEADLOCK FALSE
