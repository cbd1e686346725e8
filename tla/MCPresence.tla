----------------------------- MODULE MCPresence -----------------------------
(* Instances of Presence for TLC. *)
EXTENDS Presence

CONSTANTS a1, e1, r1, r2

OneAgent == {a1}
OneExt == {e1}

\* Two replicas of one extension.
TwoReplicas == {r1, r2}
MCExtOf == [r \in TwoReplicas |-> e1]

AllFaults == {"crash", "lost", "late", "ctx"}
=============================================================================
