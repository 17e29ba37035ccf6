\* Where an open file can be removed.
SPECIFICATION Spec
CONSTANTS
  Callers = {c1}
  Supervisors = {s1}
  ByHand = {h}
  Nobody = Nobody
  Windows = FALSE
  RestartLimit = 1
  Events = {}
  MaxEvents = 0
INVARIANT OneDaemon
