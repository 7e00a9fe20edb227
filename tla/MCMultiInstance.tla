-------------------------- MODULE MCMultiInstance --------------------------
(* MultiInstance on a small instance: two IDs compete for a queue of one   *)
(* entry, and there is a spare handle so that an ID can be scheduled again *)
(* while its stopped predecessor winds down.                               *)
EXTENDS MultiInstance, TLC

\* IDs, handles and goroutines are interchangeable (safety runs only).
Symmetry == Permutations(IDs) \cup Permutations(Handles) \cup Permutations(Gors)
=============================================================================
