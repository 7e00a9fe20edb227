--------------------------- MODULE MCKonnectEntity ---------------------------
(* Small instances of KonnectEntity. *)
EXTENDS KonnectEntity, TLC

\* Types in a control plane with a lookup by UID, updated with PUT; with names that
\* Konnect keeps unique (as those of services), and with others.
UniquePut ==
  [hasParent |-> TRUE, mirrorParent |-> FALSE, hasLookup |-> TRUE,
   uniqueNames |-> TRUE, upserts |-> TRUE, checksID |-> FALSE]
EqualPut == [UniquePut EXCEPT !.uniqueNames = FALSE]
BothPut == {UniquePut, EqualPut}

\* Types whose missing entities are created again under another ID.
OnlyRecreated == {[UniquePut EXCEPT !.upserts = FALSE]}

\* UIDs and Konnect IDs are interchangeable.
Symmetry == Permutations(UIDs) \cup Permutations(KIDs)
=============================================================================
