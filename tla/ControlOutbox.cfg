\* Two intents, one of them kept, two workers, three faults.
CONSTANTS
  i1 = i1
  i2 = i2
  d1 = d1
  d2 = d2
  Intents = {i1, i2}
  Workers = {d1, d2}
  Scope <- OwnTopic
  Kept = {i2}
  NoIntent = NoIntent
  LeaseTime = 2
  MaxWait = 1
  Delay = 1
  MaxFaults = 3
SPECIFICATION FairSpec
INVARIANTS LastClaimDelivers RepeatedOnlyAfterFault
PROPERTIES NoRevival EveryIntentDelivered KeepsPromise
