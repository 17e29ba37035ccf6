--------------------------- MODULE MCControlOutbox ---------------------------
(* Small instances of ControlOutbox for TLC. *)
EXTENDS ControlOutbox

CONSTANTS i1, i2, d1, d2

\* Both workers serve both intents ...
SharedScope == [d \in Workers |-> Intents]

\* ... or the first serves both and the second only the kept one (test.request).
OwnTopic == [d \in Workers |-> IF d = d1 THEN Intents ELSE {i2}]
=============================================================================
