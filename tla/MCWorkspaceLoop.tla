--------------------------- MODULE MCWorkspaceLoop ---------------------------
(***************************************************************************)
(* Small instance of WorkspaceLoop for TLC: one first action and two rival *)
(* plans for the second.                                                   *)
(***************************************************************************)
EXTENDS WorkspaceLoop, TLC

First == [revision |-> 1, id |-> "first"]
Second == [revision |-> 2, id |-> "second"]
Rival == [revision |-> 2, id |-> "rival"]
Rounds == {First, Second, Rival}

\* The host may overtake the plans of the events; "t1" and "t2" may agree on an
\* action or not.
Proposals(planner) ==
  CASE planner = Host    -> {First, Rival}
    [] planner = <<"t2">> -> {Second, Rival}
    [] OTHER             -> {Second}

Interchangeable == Permutations(Workers)
=============================================================================
