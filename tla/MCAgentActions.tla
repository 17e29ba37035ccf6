--------------------------- MODULE MCAgentActions ---------------------------
(* Small instances of AgentActions for TLC. *)
EXTENDS AgentActions, TLC

CONSTANTS a1, a2, s1, s2, t1, t2, c1, c2, w1, w2

OneSlot == {s1}
TwoSlots == {s1, s2}
EveryScope == SUBSET Slots \ {{}}

Symmetric == Permutations(Actions)

\* Two actions of one slot that restage the same candidate ...
SameSlot == [a \in Actions |-> s1]
SameCandidate == [a \in Actions |-> c1]
SameWorkspace == [a \in Actions |-> w1]

\* ... or author different candidates of it, in different workspaces ...
OwnCandidate == [a \in Actions |-> IF a = a1 THEN c1 ELSE c2]
OwnWorkspace == [a \in Actions |-> IF a = a1 THEN w1 ELSE w2]

\* ... or belong to different slots.
OwnSlot == [a \in Actions |-> IF a = a1 THEN s1 ELSE s2]
=============================================================================
