\* A test and a local operation, three claims each, one fault.
SPECIFICATION FairSpec
CONSTANTS
  Profiles = {}
  Tests = {a}
  Replays = {}
  Checks = {}
  Locals = {b}
  Processes = {p1}
  Verdicts = {"completed"}
  Nothing = Nothing
  MaxAttempts = 2
  MaxClaims = 3
  MaxFaults = 1
INVARIANT SettledBeforeAck
PROPERTIES LeavesQueue EvidenceArrives
