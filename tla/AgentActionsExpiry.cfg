\* Two restagings of one candidate: can the expiry that opens every claim always commit.
CONSTANTS
  a1 = a1
  a2 = a2
  s1 = s1
  s2 = s2
  t1 = t1
  t2 = t2
  c1 = c1
  c2 = c2
  w1 = w1
  w2 = w2
  Actions = {a1, a2}
  Slots <- OneSlot
  SlotOf <- SameSlot
  CandidateOf <- SameCandidate
  WorkspaceOf <- SameWorkspace
  Gated = {a1, a2}
  Scopes <- EveryScope
  Turns = {t1}
  NoAction = NoAction
  NoTurn = NoTurn
  MaxPreflight = 2
  LeaseTime = 1
  MaxAttempts = 2
  MaxReopened = 1
SPECIFICATION Spec
INVARIANT ExpiryCanCommit
CHECK_DEADLOCK FALSE
