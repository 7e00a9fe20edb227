--------------------------- MODULE MCClientsManager ---------------------------
(* Small instances of ClientsManager. *)
EXTENDS ClientsManager

CONSTANTS s1, s2, a1, a2

\* Each EndpointSlice lists a gateway of its own.
MCInitialSlices == [s \in Slices |-> IF s = s1 THEN {a1} ELSE {a2}]
=============================================================================
