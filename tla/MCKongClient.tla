----------------------------- MODULE MCKongClient -----------------------------
(* Small instances of KongClient. *)
EXTENDS KongClient, TLC

CONSTANTS o1, o2, o3, v1, bad, empty, route, using, free, c1, c2, broken

\* v1, route and using render to the same entities, bad to what Kong rejects, empty to none.
MCRenders ==
  [v \in Versions |-> CASE v = bad -> broken [] v = empty -> Nothing [] v = free -> c2 [] OTHER -> c1]

\* Fetching a content gives it back, or a part of it, or something Kong rejects.
MCFetched == [e \in Contents |-> IF e = c1 THEN {c1, c2, broken} ELSE {e}]

\* One object that is edited; none refers to another.
MCVersionsOf == [o \in Objs |-> Versions]
MCUses == [v \in Versions |-> {}]

\* A chain: o2 uses o1, as a route uses a service, and o3 uses o2 in one of its
\* versions, as a plugin is bound to a route, and nothing in the other.
MCFallbackVersionsOf ==
  [o \in Objs |-> CASE o = o1 -> {v1, bad} [] o = o2 -> {route} [] o = o3 -> {using, free}]
MCFallbackUses ==
  [v \in Versions |-> CASE v = route -> {o1} [] v = using -> {o2} [] OTHER -> {}]
=============================================================================
