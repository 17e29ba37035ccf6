-------------------------- MODULE EvidencePromise --------------------------
(***************************************************************************)
(* What is promised about an evidence operation: it is sent somewhere at   *)
(* most once, it is settled at most once, and what settles it names the    *)
(* place it was sent to.                                                   *)
(***************************************************************************)
CONSTANTS Operations, Places, Outcomes, Open

VARIABLES
  phase,   \* "open", "routed" or "settled"
  place,   \* where it was sent; 0 is nowhere
  outcome  \* what settled it

Init ==
  /\ phase = [o \in Operations |-> "open"]
  /\ place = [o \in Operations |-> 0]
  /\ outcome = [o \in Operations |-> Open]

Send(o) ==
  /\ phase[o] = "open"
  /\ phase' = [phase EXCEPT ![o] = "routed"]
  /\ \E p \in Places : place' = [place EXCEPT ![o] = p]
  /\ UNCHANGED outcome

Settle(o) ==
  /\ phase[o] \in {"open", "routed"}
  /\ phase' = [phase EXCEPT ![o] = "settled"]
  /\ \E x \in Outcomes :
       x.route = place[o] /\ outcome' = [outcome EXCEPT ![o] = x]
  /\ UNCHANGED place

Next == \E o \in Operations : Send(o) \/ Settle(o)

Spec == Init /\ [][Next]_<<phase, place, outcome>>
=============================================================================
