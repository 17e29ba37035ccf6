------------------------ MODULE MCEvidenceOperations ------------------------
EXTENDS EvidenceOperations, TLC

\* Processes are interchangeable: no definition tells one from another.
Symmetry == Permutations(Processes)
=============================================================================
