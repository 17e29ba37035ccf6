\* One action over its whole retry budget and one attempt granted beyond it.
CONSTANTS
  a1 = a1
  a2 = a2
  s1 = s1
  s2 = s2
  t1 = t1
  t2 = t2
  c1 = c1
  c2 = c2
  w1 = w1
  w2 = w2
  Actions = {a1}
  Slots <- OneSlot
  SlotOf <- SameSlot
  CandidateOf <- SameCandidate
  WorkspaceOf <- SameWorkspace
  Gated = {a1}
  Scopes <- EveryScope
  Turns = {t1, t2}
  NoAction = NoAction
  NoTurn = NoTurn
  MaxPreflight = 2
  LeaseTime = 2
  MaxAttempts = 4
  MaxReopened = 1
SPECIFICATION Spec
INVARIANTS StaleTokensFenced OutcomeSealed RetryBudget
PROPERTY ClosedStaysClosed
CHECK_DEADLOCK FALSE
