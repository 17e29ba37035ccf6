---------------------------- MODULE AtLeastOnce ----------------------------
(***************************************************************************)
(* What the control outbox promises to the transaction that enqueues an    *)
(* intent: the intent is delivered only after its side effect took place,  *)
(* stays delivered, and is delivered in the end.  The side effect may take *)
(* place more than once, even after the delivery: handlers are idempotent. *)
(***************************************************************************)
CONSTANT Intents

VARIABLES
  stage,     \* "absent", "open" or "delivered", by intent
  performed  \* the intents whose side effect took place at least once

Init ==
  /\ stage = [i \in Intents |-> "absent"]
  /\ performed = {}

Accept(i) ==
  /\ stage[i] = "absent"
  /\ stage' = [stage EXCEPT ![i] = "open"]
  /\ UNCHANGED performed

Perform(i) ==
  /\ stage[i] # "absent"
  /\ performed' = performed \cup {i}
  /\ UNCHANGED stage

Deliver(i) ==
  /\ stage[i] = "open" /\ i \in performed
  /\ stage' = [stage EXCEPT ![i] = "delivered"]
  /\ UNCHANGED performed

Next == \E i \in Intents : Accept(i) \/ Perform(i) \/ Deliver(i)

Spec == Init /\ [][Next]_<<stage, performed>>

\* Accepted work is delivered in the end.
Delivery == \A i \in Intents : stage[i] = "open" ~> stage[i] = "delivered"
=============================================================================
