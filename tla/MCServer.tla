------------------------------ MODULE MCServer ------------------------------
(* The server process on small instances.                                  *)
EXTENDS Server, TLC

\* Descriptors and workers are interchangeable in the safety runs.
Symmetry == Permutations(Fds) \cup Permutations(Workers)
=============================================================================
