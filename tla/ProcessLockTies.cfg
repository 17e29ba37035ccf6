\* Two tickets are named by one reading of the clock.
SPECIFICATION Spec
CONSTANTS
  Contenders = {p1, p2}
  Patient = {p1, p2}
  Impatient = {}
  OpenPins = TRUE
  MaxFaults = 0
PROPERTY JoinsBehind
