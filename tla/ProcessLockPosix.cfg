SPECIFICATION Spec
CONSTANTS
  Contenders = {p1, p2, p3}
  Patient = {p1, p2, p3}
  Impatient = {}
  OpenPins = FALSE
  MaxFaults = 0
INVARIANTS
  MutualExclusion
