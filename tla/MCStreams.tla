----------------------------- MODULE MCStreams -----------------------------
(* Instances of Streams for TLC. *)
EXTENDS Streams, TLC

CONSTANTS p1, p2

TwoProcs == {p1, p2}
Symmetry == Permutations(TwoProcs)

\* One session's events.
Events == {ChSessionEvents("t1", "s1")}

TwoAges == {24, 12}

\* Both processes want the usual retention; or one of them does, and neither publishes
\* nor replays anything.
UsualAges == \E p \in Procs : age[p] = 24
OneAgePublishes ==
    (\A p \in Procs : age[p] = 24) \/ UNCHANGED <<published, reader>>

\* One process replays at a time: calls of Replay change nothing that another one sees.
OneReads ==
    Cardinality({p \in Procs : reader'[p].stage # "idle"}) < 2

AllLayouts == {"empty", "legacy", "drifted", "stray", "swapped"}
AllFaults == {"crash", "info", "reply", "slow"}
=============================================================================
