SPECIFICATION Spec
CONSTANTS
  Profiles = {a}
  Tests = {}
  Replays = {}
  Checks = {}
  Locals = {}
  Processes = {p1, p2}
  Verdicts = {"cancelled"}
  Nothing = Nothing
  MaxAttempts = 2
  MaxClaims = 2
  MaxFaults = 0
SYMMETRY Symmetry
INVARIANTS
  RightEvidence
PROPERTIES
  KeepsPromise
