\* One first action and two rivals for the second, two local terminals, one
\* official event, two workers, one fault.  The bounded loop stops when every
\* row is delivered.
CONSTANTS
  Actions <- Rounds
  Plans <- Proposals
  Terminals = {"t1", "t2"}
  Officials = {"o"}
  v = v
  w = w
  Workers = {v, w}
  MaxFacts = 3
  MaxFaults = 1
SYMMETRY Interchangeable
CHECK_DEADLOCK FALSE
SPECIFICATION Spec
INVARIANTS OwnersFormAChain BoundSuccessorOwned OfficialInOneTerminal ProjectedIsShown
PROPERTIES ViewNeverGoesBack RefusedOnlyIfSuperseded
