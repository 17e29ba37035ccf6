SPECIFICATION Spec
CONSTANTS
  Profiles = {}
  Tests = {a}
  Replays = {}
  Checks = {}
  Locals = {}
  Processes = {p1}
  Verdicts = {"completed"}
  Nothing = Nothing
  MaxAttempts = 2
  MaxClaims = 3
  MaxFaults = 0
INVARIANTS
  CompletedAfterReturn
