----------------------------- MODULE MCNodeAgent -----------------------------
(* Small instances of NodeAgent. *)
EXTENDS NodeAgent

CONSTANT a1

\* Earlier lives of the gateway at a1 and of the controller left nodes behind, and
\* so did another controller.
MCOldNodes == {<<a1, "old">>, <<a1, "own">>, <<KIC, "old">>, <<OtherKIC, "old">>}
=============================================================================
