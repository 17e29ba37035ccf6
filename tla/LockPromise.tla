---------------------------- MODULE LockPromise ----------------------------
(***************************************************************************)
(* What NamedProcessLock promises to those that work under it: it is taken *)
(* when nobody is inside, and whoever is inside leaves before another one  *)
(* enters.                                                                 *)
(***************************************************************************)
CONSTANT Processes

VARIABLE inside

Init == inside = {}

Enter(p) == inside = {} /\ inside' = {p}
Leave(p) == inside = {p} /\ inside' = {}

Next == \E p \in Processes : Enter(p) \/ Leave(p)

Spec == Init /\ [][Next]_inside
=============================================================================
