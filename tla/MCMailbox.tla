------------------------------ MODULE MCMailbox ------------------------------
(* Instances of Mailbox for TLC. *)
EXTENDS Mailbox, TLC

CONSTANTS k1, k2, j1, j2, m1, m2, m3

OneConsumer == {k1}
TwoConsumers == {k1, k2}
OneReader == {j1}
TwoReaders == {j1, j2}
ThreeMsgs == {m1, m2, m3}
AllButSecond == {m1, m3}
FirstMsg == {m1}
SecondMsg == {m2}
ThirdMsg == {m3}
None == {}

AllFaults == {"crash", "ackwait", "ackloss", "readers", "dlqfail", "leave", "expire"}
SlowHandlers == {"ackwait", "expire"}

\* A consumer that has counted or does something.
Engaged == {k \in Consumers : loop[k] # "next" \/ \E m \in Msgs : naks[k][m] # 0}

\* The scenes of MailboxSafe: a message of any fate with two consumers; the same
\* and the id that it gets from a requeue, while one consumer is engaged at a
\* time; a malformed message alone.
Scenes ==
    /\ mailbox[m1] = "none" \/ mailbox[m3] = "none"
    /\ mailbox[m2] # "none" => \A k, l \in Engaged : k = l

Symmetry == Permutations(Consumers) \cup Permutations(Readers)
=============================================================================
