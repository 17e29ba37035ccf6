\* Two supervisors, a daemon started by hand and one event from outside.
SPECIFICATION Spec
CONSTANTS
  Callers = {c1}
  Supervisors = {s1, s2}
  ByHand = {h}
  Nobody = Nobody
  Windows = TRUE
  RestartLimit = 1
  Events = {"child", "write", "daemon", "supervisor", "caller", "command", "release", "denied"}
  MaxEvents = 1
INVARIANTS OneDaemon NoStrays
