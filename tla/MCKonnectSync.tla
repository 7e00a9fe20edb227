---------------------------- MODULE MCKonnectSync ----------------------------
(* Small instances of KonnectSync. *)
EXTENDS KonnectSync
=============================================================================
