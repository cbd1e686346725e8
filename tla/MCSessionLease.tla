--------------------------- MODULE MCSessionLease ---------------------------
(* Instances of SessionLease for TLC.  The revisions are few because a      *)
(* revision is in use only while the key or a replica remembers it.         *)
EXTENDS SessionLease, TLC

CONSTANTS r1, r2

OneReplica == {r1}
TwoReplicas == {r1, r2}
SixRevs == 1..6

Symmetry == Permutations(Replicas)
=============================================================================
