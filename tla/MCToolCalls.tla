----------------------------- MODULE MCToolCalls -----------------------------
(* Instances of ToolCalls for TLC.  A call or a signal is a model value; the  *)
(* functions below say whose it is.                                           *)
EXTENDS ToolCalls, TLC

CONSTANTS x1, x2, c1, c2, c3, s1, s2, s3, t1, t2, u1, i1, i2

OneReplica == {x1}
TwoReplicas == {x1, x2}
TwoCalls == {c1, c2}
ThreeCalls == {c1, c2, c3}
TwoSignals == {s1, s2}
ThreeSignals == {s1, s2, s3}

\* Two calls of one session and one of the same tenant without a session; a signal
\* for the session, one for its tenant, and one for a session of the same name
\* under another tenant.
MCTenant == c1 :> t1 @@ c2 :> t1 @@ c3 :> t1 @@ s1 :> t1 @@ s2 :> t1 @@ s3 :> t2
MCSession == c1 :> u1 @@ c2 :> u1 @@ c3 :> NoSession @@ s1 :> u1 @@ s2 :> NoSession @@ s3 :> u1
MCCallId == c1 :> i1 @@ c2 :> i2 @@ c3 :> i1

\* The same id twice in one session: a call made again.
RetryId == c1 :> i1 @@ c2 :> i1 @@ c3 :> i1

Symmetry == Permutations(Replicas)
=============================================================================
