\* Liveness: a release is activated, a supervisor dies.
SPECIFICATION FairSpec
CONSTANTS
  Callers = {c1}
  Supervisors = {s1, s2}
  ByHand = {}
  Nobody = Nobody
  Windows = TRUE
  RestartLimit = 1
  Events = {"supervisor", "release"}
  MaxEvents = 2
PROPERTIES StopSettles OldGenerationRetires
