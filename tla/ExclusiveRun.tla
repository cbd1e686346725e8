---------------------------- MODULE ExclusiveRun ----------------------------
(***************************************************************************)
(* What WithSessionLease promises to its callers, without leases, clocks   *)
(* or revisions: the turns of one session run one at a time, on whichever  *)
(* replica.  SessionLease implements it (under its timing assumption) with *)
(* running <- the replicas that are inside fn.                             *)
(***************************************************************************)
CONSTANT Replicas

VARIABLE running      \* the replicas executing a turn of the session

Init == running = {}

Enter(r) == running = {} /\ running' = {r}

Leave(r) == r \in running /\ running' = running \ {r}

Next == \E r \in Replicas : Enter(r) \/ Leave(r)

Spec == Init /\ [][Next]_running
=============================================================================
