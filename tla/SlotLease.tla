----------------------------- MODULE SlotLease -----------------------------
(***************************************************************************)
(* What the control repository promises about Agent work, whatever its     *)
(* callers do: a slot is held for one action at a time, only the action    *)
(* that holds its slot can be completed, and a completed action never      *)
(* holds its slot again.                                                   *)
(***************************************************************************)
CONSTANTS Actions, Slots, SlotOf

VARIABLES
  holding,   \* the actions that hold their slot
  completed  \* the actions whose work was accepted

Rivals(a) == {b \in Actions : SlotOf[b] = SlotOf[a]} \ {a}

Init == holding = {} /\ completed = {}

\* Holders may lose their slot at any time: they expire, fail, are cancelled.
Lose(lost) ==
  /\ holding' = holding \ lost
  /\ UNCHANGED completed

\* An action takes (or keeps) its slot in the transaction that removes others.
Take(a, lost) ==
  /\ a \notin completed
  /\ Rivals(a) \cap (holding \ lost) = {}
  /\ holding' = (holding \ lost) \cup {a}
  /\ UNCHANGED completed

Finish(a) ==
  /\ a \in holding
  /\ holding' = holding \ {a}
  /\ completed' = completed \cup {a}

Next ==
  \/ \E lost \in SUBSET holding : Lose(lost) \/ \E a \in Actions : Take(a, lost)
  \/ \E a \in Actions : Finish(a)

Spec == Init /\ [][Next]_<<holding, completed>>

\* A slot has one holder, and no holder is completed.
OneHolder ==
  /\ \A a \in holding : Rivals(a) \cap holding = {}
  /\ holding \cap completed = {}
=============================================================================
