\* A start is denied a look at a living supervisor.
SPECIFICATION Spec
CONSTANTS
  Callers = {c1}
  Supervisors = {s1, s2}
  ByHand = {}
  Nobody = Nobody
  Windows = TRUE
  RestartLimit = 1
  Events = {"denied"}
  MaxEvents = 1
INVARIANT NoDuplicates
