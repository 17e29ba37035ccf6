----------------------------- MODULE RunOutcome -----------------------------
(***************************************************************************)
(* What the Gateway promises about the result of one test run: the result  *)
(* the endpoint reached is accepted once and for good, and the endpoint is *)
(* told to let go of its return only afterwards, so that the evidence is   *)
(* never in no place.                                                      *)
(***************************************************************************)
CONSTANT Outcomes

VARIABLES
  result,   \* "open", or what the endpoint has reached
  outcome,  \* "open", or the result that was accepted
  released  \* the endpoint may collect the return

Init == result = "open" /\ outcome = "open" /\ released = FALSE

Reach ==
  /\ result = "open"
  /\ result' \in Outcomes
  /\ UNCHANGED <<outcome, released>>

Accept ==
  /\ result # "open" /\ outcome = "open"
  /\ outcome' = result
  /\ UNCHANGED <<result, released>>

Release ==
  /\ outcome # "open"
  /\ released' = TRUE
  /\ UNCHANGED <<result, outcome>>

Next == Reach \/ Accept \/ Release

Spec == Init /\ [][Next]_<<result, outcome, released>>
=============================================================================
