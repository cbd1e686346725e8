--------------------------- MODULE Mailbox_proofs ---------------------------
(***************************************************************************)
(* Theorems about the mailbox, for any number of consumers, readers and    *)
(* messages and under any faults; PoisonBoundedHolds alone is about        *)
(* answers that arrive and a durable that nobody deletes.                  *)
(***************************************************************************)
EXTENDS Mailbox, TLAPS

\* A loop past Next has a message in hand.
InHand ==
    \A k \in Consumers :
        loop[k] \in {"handle", "settle", "copy", "drop"} => cur[k] \in Msgs

\* A reader past Next has a dead letter in hand, and RequeueDLQ has published
\* the one it is about to ack.
LetterInHand ==
    \A j \in Readers :
        /\ reader[j] # "idle" => letter[j] \in Msgs
        /\ reader[j] = "published" => letter[j] \in taken

Base == TypeOK /\ InHand /\ LetterInHand

\* The Term handler drops a message only after the copy, or its failure.
CopiedFirst ==
    \A k \in Consumers :
        loop[k] = "drop" => cur[k] \in closed \/ dlq[cur[k]] # "none"

NoLoss == Base /\ CopiedFirst /\ NothingLost

-----------------------------------------------------------------------------
\* The first state is typed, with nothing in hand.
LEMMA BaseInit == Init => Base
  <1>1. Limit \in Nat \ {0} /\ MaxFailures \in Nat
    BY ConstantsAssumption
  <1> QED
    BY <1>1 DEF Init, Base, TypeOK, InHand, LetterInHand

\* Every step keeps the types and what the loops and readers have in hand.
LEMMA BaseStep ==
    ASSUME Base, [Next]_vars
    PROVE  Base'
  <1>0. Limit \in Nat \ {0} /\ MaxFailures \in Nat /\ NoMsg \notin Msgs
    BY ConstantsAssumption
  <1> USE DEF Base, TypeOK, InHand, LetterInHand
  <1>1. ASSUME NEW m \in Msgs, PublishMailbox(m) PROVE Base'
    BY <1>1 DEF PublishMailbox, InboxPublish
  <1>2. ASSUME NEW m \in Msgs, Redeliver(m) PROVE Base'
    BY <1>2 DEF Redeliver
  <1>3. ASSUME NEW k \in Consumers, Fetch(k) PROVE Base'
    <2>1. PICK m \in Msgs :
             /\ loop[k] = "next" /\ mailbox' = [mailbox EXCEPT ![m] = "out"]
             /\ UNCHANGED <<dlq, verdict, naks, reader, letter,
                            closed, taken, failures>>
             /\ IF m \in Undecodable
                THEN loop' = [loop EXCEPT ![k] = "stopped"] /\ UNCHANGED cur
                ELSE loop' = [loop EXCEPT ![k] = "handle"] /\ cur' = [cur EXCEPT ![k] = m]
      BY <1>3 DEF Fetch
    <2>2. mailbox' \in [Msgs -> {"none", "ready", "out", "delayed", "gone", "expired"}]
      BY <2>1
    <2>3. /\ loop' \in [Consumers -> {"next", "handle", "settle", "copy", "drop", "stopped"}]
          /\ cur' \in [Consumers -> Msgs \cup {NoMsg}]
      <3>1. CASE m \in Undecodable
        BY <2>1, <3>1
      <3>2. CASE m \notin Undecodable
        BY <2>1, <3>2
      <3> QED
        BY <3>1, <3>2
    <2>4. ASSUME NEW l \in Consumers, loop'[l] \in {"handle", "settle", "copy", "drop"}
          PROVE  cur'[l] \in Msgs
      <3>1. CASE l = k
        BY <2>1, <2>4, <3>1
      <3>2. CASE l # k
        <4>1. loop'[l] = loop[l] /\ cur'[l] = cur[l]
          BY <2>1, <3>2
        <4> QED
          BY <2>4, <4>1
      <3> QED
        BY <3>1, <3>2
    <2> QED
      BY <2>1, <2>2, <2>3, <2>4
  <1>4. ASSUME NEW k \in Consumers, Skip(k) PROVE Base'
    BY <1>4 DEF Skip, Settled, AnswerLost, Continue
  <1>5. ASSUME NEW k \in Consumers, Handle(k) PROVE Base'
    BY <1>5, <1>0 DEF Handle
  <1>6. ASSUME NEW k \in Consumers, Accept(k) PROVE Base'
    BY <1>6, <1>0 DEF Accept, Settled, AnswerLost, Continue, Forget
  <1>7. ASSUME NEW k \in Consumers, Nak(k) PROVE Base'
    <2>1. mailbox' \in [Msgs -> {"none", "ready", "out", "delayed", "gone", "expired"}]
      BY <1>7 DEF Nak, Naked, NakIgnored
    <2>2. naks' \in [Consumers -> [Msgs -> 0 .. Limit - 1]]
      BY <1>7, <1>0 DEF Nak
    <2> QED
      BY <1>7, <2>1, <2>2 DEF Nak, Continue
  <1>8. ASSUME NEW k \in Consumers, Park(k) PROVE Base'
    BY <1>8, <1>0 DEF Park, Forget
  <1>9. ASSUME NEW k \in Consumers, TermCopy(k) PROVE Base'
    BY <1>9 DEF TermCopy
  <1>10. ASSUME NEW k \in Consumers, TermDrop(k) PROVE Base'
    BY <1>10 DEF TermDrop, Settled, AnswerLost, Continue
  <1>11. ASSUME NEW k \in Consumers, IdleExit(k) PROVE Base'
    BY <1>11 DEF IdleExit
  <1>12. ASSUME NEW k \in Consumers, Crash(k) PROVE Base'
    BY <1>12, <1>0 DEF Crash, Continue
  <1>13. ASSUME NEW j \in Readers, ReadLetter(j) PROVE Base'
    BY <1>13 DEF ReadLetter
  <1>14. ASSUME NEW j \in Readers, PutBack(j) PROVE Base'
    BY <1>14 DEF PutBack, Naked, LetterAnswerLost, Done
  <1>15. ASSUME NEW j \in Readers, Triage(j) PROVE Base'
    BY <1>15 DEF Triage, Settled, LetterAnswerLost, Done
  <1>16. ASSUME NEW j \in Readers, Requeue(j) PROVE Base'
    BY <1>16 DEF Requeue, InboxPublish
  <1>17. ASSUME NEW j \in Readers, RequeueAck(j) PROVE Base'
    BY <1>17 DEF RequeueAck, Settled, LetterAnswerLost, Anew, Done
  <1>18. ASSUME NEW j \in Readers, ReaderCrash(j) PROVE Base'
    BY <1>18 DEF ReaderCrash, Done
  <1>19. ASSUME NEW m \in Msgs, Expire(m) PROVE Base'
    BY <1>19 DEF Expire
  <1>20. ASSUME CloseMailbox PROVE Base'
    BY <1>20 DEF CloseMailbox, Anew
  <1>21. ASSUME CloseDLQ PROVE Base'
    BY <1>21 DEF CloseDLQ, Anew
  <1>22. ASSUME UNCHANGED vars PROVE Base'
    BY <1>22 DEF vars
  <1> QED
    BY <1>1, <1>2, <1>3, <1>4, <1>5, <1>6, <1>7, <1>8, <1>9, <1>10, <1>11, <1>12,
       <1>13, <1>14, <1>15, <1>16, <1>17, <1>18, <1>19, <1>20, <1>21, <1>22
       DEF Next, Consume

\* Base holds in every state of the specification.
LEMMA BaseAlways == Spec => []Base
  BY BaseInit, BaseStep, PTL DEF Spec

\* Type correctness: in particular every count of naks stays below the limit.
THEOREM MailboxTypeCorrect == Spec => []TypeOK
  BY BaseAlways, PTL DEF Base

-----------------------------------------------------------------------------
\* No message is copied, settled or accepted before the first step.
LEMMA NoLossInit == Init => NoLoss
  BY BaseInit DEF Init, NoLoss, CopiedFirst, NothingLost

\* Nothing is lost in a step.  Copies are never taken back, so what has to be
\* shown is that only Skip, Accept and TermDrop settle a message.
LEMMA NoLossStep ==
    ASSUME NoLoss, [Next]_vars
    PROVE  NoLoss'
  <1>0. Base'
    BY BaseStep DEF NoLoss
  <1> SUFFICES (CopiedFirst /\ NothingLost)'
    BY <1>0 DEF NoLoss
  <1> USE DEF NoLoss, Base, TypeOK, InHand, LetterInHand, CopiedFirst, NothingLost
  <1>1. ASSUME NEW m \in Msgs, PublishMailbox(m) PROVE (CopiedFirst /\ NothingLost)'
    BY <1>1 DEF PublishMailbox, InboxPublish
  <1>2. ASSUME NEW m \in Msgs, Redeliver(m) PROVE (CopiedFirst /\ NothingLost)'
    BY <1>2 DEF Redeliver
  <1>3. ASSUME NEW k \in Consumers, Fetch(k) PROVE (CopiedFirst /\ NothingLost)'
    <2>1. PICK m \in Msgs :
             /\ mailbox' = [mailbox EXCEPT ![m] = "out"]
             /\ UNCHANGED <<dlq, closed>>
             /\ \/ loop' = [loop EXCEPT ![k] = "stopped"] /\ UNCHANGED cur
                \/ loop' = [loop EXCEPT ![k] = "handle"] /\ cur' = [cur EXCEPT ![k] = m]
      BY <1>3 DEF Fetch
    <2> QED
      BY <2>1
  <1>4. ASSUME NEW k \in Consumers, Skip(k) PROVE (CopiedFirst /\ NothingLost)'
    BY <1>4 DEF Skip, Settled, AnswerLost, Continue
  <1>5. ASSUME NEW k \in Consumers, Handle(k) PROVE (CopiedFirst /\ NothingLost)'
    BY <1>5 DEF Handle
  <1>6. ASSUME NEW k \in Consumers, Accept(k) PROVE (CopiedFirst /\ NothingLost)'
    BY <1>6 DEF Accept, Settled, AnswerLost, Continue, Forget
  <1>7. ASSUME NEW k \in Consumers, Nak(k) PROVE (CopiedFirst /\ NothingLost)'
    BY <1>7 DEF Nak, Naked, NakIgnored, Continue
  <1>8. ASSUME NEW k \in Consumers, Park(k) PROVE (CopiedFirst /\ NothingLost)'
    BY <1>8 DEF Park, Forget
  <1>9. ASSUME NEW k \in Consumers, TermCopy(k) PROVE (CopiedFirst /\ NothingLost)'
    BY <1>9 DEF TermCopy
  <1>10. ASSUME NEW k \in Consumers, TermDrop(k) PROVE (CopiedFirst /\ NothingLost)'
    BY <1>10 DEF TermDrop, Settled, AnswerLost, Continue
  <1>11. ASSUME NEW k \in Consumers, IdleExit(k) PROVE (CopiedFirst /\ NothingLost)'
    BY <1>11 DEF IdleExit
  <1>12. ASSUME NEW k \in Consumers, Crash(k) PROVE (CopiedFirst /\ NothingLost)'
    BY <1>12 DEF Crash, Continue
  <1>13. ASSUME NEW j \in Readers, ReadLetter(j) PROVE (CopiedFirst /\ NothingLost)'
    BY <1>13 DEF ReadLetter
  <1>14. ASSUME NEW j \in Readers, PutBack(j) PROVE (CopiedFirst /\ NothingLost)'
    BY <1>14 DEF PutBack, Naked, LetterAnswerLost, Done
  <1>15. ASSUME NEW j \in Readers, Triage(j) PROVE (CopiedFirst /\ NothingLost)'
    BY <1>15 DEF Triage, Settled, LetterAnswerLost, Done
  <1>16. ASSUME NEW j \in Readers, Requeue(j) PROVE (CopiedFirst /\ NothingLost)'
    BY <1>16 DEF Requeue, InboxPublish
  <1>17. ASSUME NEW j \in Readers, RequeueAck(j) PROVE (CopiedFirst /\ NothingLost)'
    BY <1>17 DEF RequeueAck, Settled, LetterAnswerLost, Anew, Done
  <1>18. ASSUME NEW j \in Readers, ReaderCrash(j) PROVE (CopiedFirst /\ NothingLost)'
    BY <1>18 DEF ReaderCrash, Done
  <1>19. ASSUME NEW m \in Msgs, Expire(m) PROVE (CopiedFirst /\ NothingLost)'
    BY <1>19 DEF Expire
  <1>20. ASSUME CloseMailbox PROVE (CopiedFirst /\ NothingLost)'
    BY <1>20 DEF CloseMailbox, Anew
  <1>21. ASSUME CloseDLQ PROVE (CopiedFirst /\ NothingLost)'
    BY <1>21 DEF CloseDLQ, Anew
  <1>22. ASSUME UNCHANGED vars PROVE (CopiedFirst /\ NothingLost)'
    BY <1>22 DEF vars
  <1> QED
    BY <1>1, <1>2, <1>3, <1>4, <1>5, <1>6, <1>7, <1>8, <1>9, <1>10, <1>11, <1>12,
       <1>13, <1>14, <1>15, <1>16, <1>17, <1>18, <1>19, <1>20, <1>21, <1>22
       DEF Next, Consume

\* No crash, redelivery, late or lost answer loses a message: what left the
\* mailbox, and did not expire there after 24 hours, was handled, skipped or
\* discarded, or is a dead letter, or its copy to the dead letters failed.
THEOREM NothingLostHolds == Spec => []NothingLost
  <1>1. NoLoss /\ [Next]_vars => NoLoss'
    BY NoLossStep
  <1>2. NoLoss => NothingLost
    BY DEF NoLoss
  <1> QED
    BY <1>1, <1>2, NoLossInit, PTL DEF Spec

-----------------------------------------------------------------------------
\* Only ConsumeDLQ's and RequeueDLQ's acks settle a dead letter.
LEMMA LettersStep ==
    ASSUME Base, LettersKept, [Next]_vars
    PROVE  LettersKept'
  <1> USE DEF Base, TypeOK, InHand, LetterInHand, LettersKept
  <1>1. ASSUME NEW m \in Msgs, PublishMailbox(m) PROVE LettersKept'
    BY <1>1 DEF PublishMailbox, InboxPublish
  <1>2. ASSUME NEW m \in Msgs, Redeliver(m) PROVE LettersKept'
    BY <1>2 DEF Redeliver
  <1>3. ASSUME NEW k \in Consumers, Consume(k) \/ IdleExit(k) \/ Crash(k)
        PROVE  LettersKept'
    <2>1. UNCHANGED <<dlq, taken>> \/ TermCopy(k)
      BY <1>3 DEF Consume, Fetch, Skip, Handle, Accept, Nak, Park, TermDrop, IdleExit, Crash
    <2>2. CASE UNCHANGED <<dlq, taken>>
      BY <2>2
    <2>3. CASE TermCopy(k)
      BY <2>3 DEF TermCopy
    <2> QED
      BY <2>1, <2>2, <2>3
  <1>4. ASSUME NEW j \in Readers, ReadLetter(j) PROVE LettersKept'
    BY <1>4 DEF ReadLetter
  <1>5. ASSUME NEW j \in Readers, PutBack(j) PROVE LettersKept'
    BY <1>5 DEF PutBack, Naked, LetterAnswerLost
  <1>6. ASSUME NEW j \in Readers, Triage(j) PROVE LettersKept'
    BY <1>6 DEF Triage, Settled, LetterAnswerLost
  <1>7. ASSUME NEW j \in Readers, Requeue(j) PROVE LettersKept'
    BY <1>7 DEF Requeue, InboxPublish
  <1>8. ASSUME NEW j \in Readers, RequeueAck(j) PROVE LettersKept'
    BY <1>8 DEF RequeueAck, Settled, LetterAnswerLost, Anew
  <1>9. ASSUME NEW j \in Readers, ReaderCrash(j) PROVE LettersKept'
    BY <1>9 DEF ReaderCrash
  <1>10. ASSUME NEW m \in Msgs, Expire(m) PROVE LettersKept'
    BY <1>10 DEF Expire
  <1>11. ASSUME CloseMailbox \/ CloseDLQ PROVE LettersKept'
    BY <1>11 DEF CloseMailbox, CloseDLQ, Anew
  <1>12. ASSUME UNCHANGED vars PROVE LettersKept'
    BY <1>12 DEF vars
  <1> QED
    BY <1>1, <1>2, <1>3, <1>4, <1>5, <1>6, <1>7, <1>8, <1>9, <1>10, <1>11, <1>12 DEF Next

\* No dead letter disappears unread before it expires: it is accepted by a
\* ConsumeDLQ handler, or RequeueDLQ has published it again before its ack, under
\* every fault.
THEOREM LettersKeptHolds == Spec => []LettersKept
  <1>1. Init => LettersKept
    BY DEF Init, LettersKept
  <1>2. Base /\ LettersKept /\ [Next]_vars => LettersKept'
    BY LettersStep
  <1> QED
    BY <1>1, <1>2, BaseAlways, PTL DEF Spec
-----------------------------------------------------------------------------
\* A consumer's nak count never runs ahead of the failures there were, and a
\* message on its way to the dead letters has its cause.
Counted ==
    \A k \in Consumers :
        /\ \A m \in Msgs : naks[k][m] <= failures[k][m]
        /\ loop[k] = "settle" /\ verdict[k] = "fail" => naks[k][cur[k]] < failures[k][cur[k]]
        /\ loop[k] = "copy" => verdict[k] = "term" \/ failures[k][cur[k]] >= Limit

\* A failure is counted once by the consumer that saw it, and a reset of its count
\* takes none of the failures back, so that no step breaks Counted.
LEMMA CountedStep ==
    ASSUME MaxFailures >= Limit, Base, Counted, [Next]_vars
    PROVE  Counted'
  <1>0. Limit \in Nat \ {0} /\ MaxFailures \in Nat
    BY ConstantsAssumption
  <1> USE DEF Base, TypeOK, InHand, Counted
  <1>1. ASSUME NEW k \in Consumers, Fetch(k) PROVE Counted'
    <2>1. /\ UNCHANGED <<verdict, naks, failures>> /\ loop[k] = "next"
          /\ loop' = [loop EXCEPT ![k] = loop'[k]] /\ loop'[k] \in {"stopped", "handle"}
          /\ \A l \in Consumers \ {k} : cur'[l] = cur[l]
      BY <1>1 DEF Fetch
    <2> QED
      BY <2>1
  <1>2. ASSUME NEW k \in Consumers, Handle(k) PROVE Counted'
    <2>1. PICK v \in {"ok", "term", "discard", "fail"} :
             /\ verdict' = [verdict EXCEPT ![k] = v]
             /\ failures' = [failures EXCEPT ![k][cur[k]] =
                               IF v = "fail" /\ @ < MaxFailures THEN @ + 1 ELSE @]
      BY <1>2 DEF Handle
    <2>2. /\ loop[k] = "handle" /\ loop' = [loop EXCEPT ![k] = "settle"]
          /\ UNCHANGED <<cur, naks>>
      BY <1>2 DEF Handle
    <2>3. \A l \in Consumers, m \in Msgs : failures'[l][m] >= failures[l][m]
      BY <2>1, <2>2, <1>0
    <2>4. v = "fail" => naks[k][cur[k]] < failures'[k][cur[k]]
      BY <2>1, <2>2, <1>0
    <2>5. \A l \in Consumers, m \in Msgs :
             failures[l][m] \in Nat /\ failures'[l][m] \in Nat /\ naks[l][m] \in Nat
      BY <2>1, <2>2, <1>0
    <2>6. \A l \in Consumers, m \in Msgs : naks'[l][m] <= failures'[l][m]
      BY <2>2, <2>3, <2>5, <1>0
    <2>7. \A l \in Consumers \ {k} :
             loop'[l] = loop[l] /\ verdict'[l] = verdict[l] /\ cur'[l] = cur[l]
      BY <2>1, <2>2
    <2>8. ASSUME NEW l \in Consumers, loop'[l] = "settle", verdict'[l] = "fail"
          PROVE  naks'[l][cur'[l]] < failures'[l][cur'[l]]
      <3>1. CASE l = k
        BY <2>1, <2>2, <2>4, <2>8, <3>1
      <3>2. CASE l # k
        BY <2>2, <2>3, <2>5, <2>7, <2>8, <3>2, <1>0
      <3> QED
        BY <3>1, <3>2
    <2>9. ASSUME NEW l \in Consumers, loop'[l] = "copy"
          PROVE  verdict'[l] = "term" \/ failures'[l][cur'[l]] >= Limit
      <3>1. l # k /\ loop[l] = "copy" /\ cur'[l] = cur[l] /\ cur[l] \in Msgs
        BY <2>2, <2>7, <2>9
      <3> QED
        BY <2>3, <2>5, <2>7, <3>1, <1>0
    <2> QED
      BY <2>6, <2>8, <2>9
  <1>3. ASSUME NEW k \in Consumers, Accept(k) PROVE Counted'
    BY <1>3, <1>0 DEF Accept, Continue, Forget
  <1>4. ASSUME NEW k \in Consumers, Nak(k) PROVE Counted'
    BY <1>4, <1>0 DEF Nak, Continue
  <1>5. ASSUME NEW k \in Consumers, Park(k) PROVE Counted'
    BY <1>5, <1>0 DEF Park, Forget
  <1>6. ASSUME NEW k \in Consumers, Skip(k) \/ TermDrop(k) PROVE Counted'
    BY <1>6 DEF Skip, TermDrop, Continue
  <1>7. ASSUME NEW k \in Consumers, TermCopy(k) PROVE Counted'
    BY <1>7 DEF TermCopy
  <1>8. ASSUME NEW k \in Consumers, IdleExit(k) PROVE Counted'
    BY <1>8 DEF IdleExit
  <1>9. ASSUME NEW k \in Consumers, Crash(k) PROVE Counted'
    BY <1>9, <1>0 DEF Crash, Continue
  <1>10. ASSUME UNCHANGED <<loop, cur, verdict, naks, failures>> PROVE Counted'
    BY <1>10
  <1>11. ASSUME CloseMailbox PROVE Counted'
    BY <1>11 DEF CloseMailbox
  <1> QED
    BY <1>1, <1>2, <1>3, <1>4, <1>5, <1>6, <1>7, <1>8, <1>9, <1>10, <1>11
       DEF Next, Consume, PublishMailbox, Redeliver, Expire, CloseDLQ, ReadLetter, PutBack, Triage,
           Requeue, RequeueAck, ReaderCrash, vars

\* Counted holds in every state of the specification.
LEMMA CountedAlways ==
    ASSUME MaxFailures >= Limit
    PROVE  Spec => []Counted
  <1>1. ASSUME Init PROVE Counted
    <2>1. \A k \in Consumers, m \in Msgs : naks[k][m] = 0 /\ failures[k][m] = 0
      BY <1>1 DEF Init
    <2>2. \A k \in Consumers : loop[k] = "next"
      BY <1>1 DEF Init
    <2>3. \A k \in Consumers, m \in Msgs : naks[k][m] <= failures[k][m]
      BY <2>1
    <2> QED
      BY <2>2, <2>3 DEF Counted
  <1>2. Base /\ Counted /\ [Next]_vars => Counted'
    BY CountedStep
  <1> QED
    BY <1>1, <1>2, BaseAlways, PTL DEF Spec

\* What a reader has in hand is in the dead-letter stream.
LettersStored ==
    \A j \in Readers : reader[j] # "idle" => dlq[letter[j]] # "none"

\* No step takes a dead letter out of the stream's memory again.
LEMMA LettersStoredAlways == Spec => []LettersStored
  <1>1. Init => LettersStored
    BY DEF Init, LettersStored
  <1>2. ASSUME Base, LettersStored, [Next]_vars PROVE LettersStored'
    <2> USE <1>2 DEF Base, TypeOK, LetterInHand, LettersStored
    <2>1. ASSUME NEW k \in Consumers, TermCopy(k) PROVE LettersStored'
      BY <2>1 DEF TermCopy
    <2>2. ASSUME NEW m \in Msgs, Redeliver(m) \/ Expire(m) PROVE LettersStored'
      BY <2>2 DEF Redeliver, Expire
    <2>3. ASSUME NEW j \in Readers, ReadLetter(j) PROVE LettersStored'
      BY <2>3 DEF ReadLetter
    <2>4. ASSUME NEW j \in Readers, PutBack(j) \/ Triage(j) \/ RequeueAck(j)
          PROVE  LettersStored'
      BY <2>4 DEF PutBack, Triage, RequeueAck, Naked, Settled, LetterAnswerLost, Anew, Done
    <2>5. ASSUME NEW j \in Readers, Requeue(j) \/ ReaderCrash(j) PROVE LettersStored'
      BY <2>5 DEF Requeue, ReaderCrash, Done
    <2>6. CASE CloseDLQ
      BY <2>6 DEF CloseDLQ, Anew
    <2>7. CASE UNCHANGED <<dlq, reader, letter>>
      BY <2>7
    <2> QED
      BY <2>1, <2>2, <2>3, <2>4, <2>5, <2>6, <2>7
         DEF Next, Consume, PublishMailbox, Fetch, Skip, Handle, Accept, Nak, Park,
             TermDrop, IdleExit, Crash, CloseMailbox, vars
  <1> QED
    BY <1>1, <1>2, BaseAlways, PTL DEF Spec

\* With any number of consumers, crashes and redeliveries, a message becomes a dead
\* letter only by the Term of a consumer that has it in hand and whose handler asked
\* for it, or after Limit failures of that consumer's own.
THEOREM ParkedForCauseHolds ==
    ASSUME MaxFailures >= Limit
    PROVE  Spec => ParkedForCause
  <1> DEFINE Cause ==
        \A m \in Msgs : dlq[m] = "none" /\ dlq'[m] # "none" =>
            \E k \in Consumers : /\ loop[k] = "copy" /\ cur[k] = m
                                 /\ verdict[k] = "term" \/ failures[k][m] >= Limit
  <1>1. ASSUME Base, Counted, LettersStored, Next PROVE Cause
    <2> USE <1>1 DEF Base, TypeOK, LetterInHand
    <2>1. ASSUME NEW k \in Consumers, TermCopy(k) PROVE Cause
      BY <2>1 DEF TermCopy, Counted
    <2>2. ASSUME NEW m \in Msgs, Redeliver(m) \/ Expire(m) PROVE Cause
      BY <2>2 DEF Redeliver, Expire
    <2>3. ASSUME NEW j \in Readers, ReadLetter(j) PROVE Cause
      BY <2>3 DEF ReadLetter
    <2>4. ASSUME NEW j \in Readers, PutBack(j) \/ Triage(j) \/ RequeueAck(j) PROVE Cause
      BY <2>4 DEF PutBack, Triage, RequeueAck, Naked, Settled, LetterAnswerLost, Anew,
                 LettersStored
    <2>5. CASE CloseDLQ
      BY <2>5 DEF CloseDLQ, Anew
    <2>6. CASE UNCHANGED dlq
      BY <2>6
    <2> QED
      BY <2>1, <2>2, <2>3, <2>4, <2>5, <2>6
         DEF Next, Consume, PublishMailbox, Fetch, Skip, Handle, Accept, Nak, Park,
             TermDrop, IdleExit, Crash, CloseMailbox, Requeue, ReaderCrash
  <1>2. Base /\ Counted /\ LettersStored /\ [Next]_vars => [Cause]_vars
    BY <1>1
  <1> QED
    BY <1>2, BaseAlways, CountedAlways, LettersStoredAlways, PTL DEF Spec, ParkedForCause
-----------------------------------------------------------------------------
(* How often a message fails in one consumer: as often as its nak count says, *)
(* while the consumer may fail on the message again.                          *)

\* A consumer that may fail on m yet, or has just done so.
MayFail(j, m) ==
    IF cur[j] = m /\ loop[j] \in {"handle", "settle", "copy", "drop"}
    THEN loop[j] \in {"handle", "settle"}
    ELSE mailbox[m] \notin {"gone", "expired"}

\* The failures on m that a consumer has counted or is about to count.
Reached(j, m) ==
    IF loop[j] = "settle" /\ cur[j] = m /\ verdict[j] = "fail"
    THEN naks[j][m] + 1
    ELSE naks[j][m]

\* What j has failed on m is what it has counted, until it cannot fail again.
Tallied(j, m) ==
    failures[j][m] <= IF MayFail(j, m) THEN Reached(j, m) ELSE Limit

\* A step of another consumer, and one of its own that fails no message, adds no
\* failure, lets j fail again only if it could before, and takes no count back.
LEMMA TallyKept ==
    ASSUME Base, Base', NEW j \in Consumers, NEW m \in Msgs, Tallied(j, m),
           failures'[j][m] = failures[j][m],
           MayFail(j, m)' => MayFail(j, m) /\ Reached(j, m)' >= Reached(j, m)
    PROVE  Tallied(j, m)'
  <1>1. /\ naks[j][m] \in 0 .. Limit - 1 /\ naks'[j][m] \in 0 .. Limit - 1
        /\ failures[j][m] \in Nat /\ Limit \in Nat
    BY ConstantsAssumption DEF Base, TypeOK
  <1>2. Reached(j, m) \in 0 .. Limit /\ Reached(j, m)' \in 0 .. Limit
    BY <1>1 DEF Reached
  <1> QED
    BY <1>1, <1>2 DEF Tallied

\* While no answer to the server is lost, a step keeps the tally, is a new failure
\* of j on m, or is the end of j with all its counts.
LEMMA TallyStep ==
    ASSUME Faults \cap {"ackloss", "leave"} = {}, Base, Base',
           NEW j \in Consumers, NEW m \in Msgs, Tallied(j, m), [Next]_vars
    PROVE  Tallied(j, m)'
  <1> DEFINE Kept ==
        /\ failures'[j][m] = failures[j][m]
        /\ MayFail(j, m)' => MayFail(j, m) /\ Reached(j, m)' >= Reached(j, m)
  <1>0. Limit \in Nat \ {0} /\ MaxFailures \in Nat
        /\ "ackloss" \notin Faults /\ "leave" \notin Faults
    BY ConstantsAssumption
  <1>n. /\ naks[j][m] \in 0 .. Limit - 1 /\ naks'[j][m] \in 0 .. Limit - 1
        /\ failures[j][m] \in 0 .. MaxFailures /\ failures'[j][m] \in 0 .. MaxFailures
    BY <1>0 DEF Base, TypeOK
  <1>k. SUFFICES ASSUME ~Kept PROVE Tallied(j, m)'
    BY TallyKept
  <1> USE DEF MayFail, Reached
  <1>1. CASE /\ UNCHANGED <<loop, cur, verdict, naks, failures>>
             /\ mailbox[m] \in {"gone", "expired"} => mailbox'[m] \in {"gone", "expired"}
    BY <1>1, <1>n, <1>k
  <1>2. ASSUME NEW k \in Consumers, Fetch(k) PROVE Kept
    <2>1. PICK n \in Msgs :
             /\ loop[k] = "next" /\ mailbox[n] = "ready"
             /\ mailbox' = [mailbox EXCEPT ![n] = "out"]
             /\ UNCHANGED <<verdict, naks, failures>>
             /\ \/ loop' = [loop EXCEPT ![k] = "stopped"] /\ UNCHANGED cur
                \/ loop' = [loop EXCEPT ![k] = "handle"] /\ cur' = [cur EXCEPT ![k] = n]
      BY <1>2 DEF Fetch
    <2> QED
      BY <2>1, <1>n DEF Base, TypeOK
  <1>3. ASSUME NEW k \in Consumers, Skip(k) PROVE Kept
    BY <1>3, <1>n, <1>0 DEF Skip, Settled, AnswerLost, Continue, Base, TypeOK, InHand
  <1>4. ASSUME NEW k \in Consumers, Handle(k) PROVE Tallied(j, m)'
    <2>1. CASE k = j /\ cur[k] = m /\ verdict'[k] = "fail"
      <3>1. /\ loop[j] = "handle" /\ loop'[j] = "settle" /\ cur'[j] = m
            /\ naks' = naks /\ verdict'[j] = "fail"
            /\ failures'[j][m] \in {failures[j][m], failures[j][m] + 1}
        BY <1>4, <2>1 DEF Handle, Base, TypeOK
      <3>2. failures[j][m] <= naks[j][m]
        BY <2>1, <3>1 DEF Tallied
      <3>3. MayFail(j, m)' /\ Reached(j, m)' = naks[j][m] + 1
        BY <3>1
      <3> QED
        BY <1>n, <3>1, <3>2, <3>3 DEF Tallied
    <2>2. ASSUME ~(k = j /\ cur[k] = m /\ verdict'[k] = "fail") PROVE Kept
      BY <1>4, <2>2, <1>n DEF Handle, Base, TypeOK, InHand
    <2> QED
      BY <2>1, <2>2, <1>k
  <1>5. ASSUME NEW k \in Consumers, Accept(k) PROVE Kept
    BY <1>5, <1>n, <1>0 DEF Accept, Forget, Settled, AnswerLost, Continue, Base, TypeOK, InHand
  <1>6. ASSUME NEW k \in Consumers, Nak(k) PROVE Kept
    BY <1>6, <1>n DEF Nak, Naked, NakIgnored, Continue, Base, TypeOK, InHand
  <1>7. ASSUME NEW k \in Consumers, Park(k) PROVE Kept
    BY <1>7, <1>n DEF Park, Forget, Base, TypeOK, InHand
  <1>8. ASSUME NEW k \in Consumers, TermCopy(k) PROVE Kept
    BY <1>8, <1>n DEF TermCopy, Base, TypeOK, InHand
  <1>9. ASSUME NEW k \in Consumers, TermDrop(k) PROVE Kept
    BY <1>9, <1>n, <1>0 DEF TermDrop, Settled, AnswerLost, Continue, Base, TypeOK, InHand
  <1>10. ASSUME NEW k \in Consumers, IdleExit(k) PROVE Kept
    BY <1>10, <1>n DEF IdleExit, Base, TypeOK
  <1>11. ASSUME NEW k \in Consumers, Crash(k) PROVE Tallied(j, m)'
    <2>1. CASE k = j
      <3>1. failures'[j][m] = 0
        BY <1>11, <2>1 DEF Crash, Base, TypeOK
      <3> QED
        BY <1>0, <1>n, <3>1 DEF Tallied
    <2>2. ASSUME k # j PROVE Kept
      BY <1>11, <2>2, <1>n DEF Crash, Continue, Base, TypeOK
    <2> QED
      BY <2>1, <2>2, <1>k
  <1>12. ASSUME NEW n \in Msgs, PublishMailbox(n) \/ Redeliver(n) \/ Expire(n) PROVE Kept
    BY <1>12, <1>n DEF PublishMailbox, InboxPublish, Redeliver, Expire, Base, TypeOK
  <1>13. ASSUME NEW i \in Readers, Requeue(i) PROVE Kept
    BY <1>13, <1>n DEF Requeue, InboxPublish, Base, TypeOK
  <1>14. ~CloseMailbox
    BY <1>0 DEF CloseMailbox
  <1>15. CASE UNCHANGED <<mailbox, loop, cur, verdict, naks, failures>>
    BY <1>15, <1>1
  <1> QED
    BY <1>2, <1>3, <1>4, <1>5, <1>6, <1>7, <1>8, <1>9, <1>10, <1>11, <1>12, <1>13,
       <1>14, <1>15, <1>k
       DEF Next, Consume, ReadLetter, PutBack, Triage, RequeueAck, ReaderCrash,
           CloseDLQ, vars

AllTallied == \A j \in Consumers, m \in Msgs : Tallied(j, m)

\* The promise of the mailbox, for any number of consumers that share the durable:
\* while no answer to the server is lost and nobody deletes the durable, a consumer
\* fails on a message at most Limit times before it parks it, or another does, and
\* the message is out of every reach.  Redeliveries after AckWait, deaths of
\* consumers, failed copies, expiry and everything that readers do are allowed.
THEOREM PoisonBoundedHolds ==
    ASSUME Faults \cap {"ackloss", "leave"} = {}
    PROVE  Spec => []PoisonBounded
  <1>0. Limit \in Nat \ {0} /\ MaxFailures \in Nat
    BY ConstantsAssumption
  <1>1. ASSUME Init PROVE AllTallied
    <2>1. ASSUME NEW j \in Consumers, NEW m \in Msgs PROVE Tallied(j, m)
      BY <1>0, <1>1 DEF Init, Tallied, Reached
    <2> QED
      BY <2>1 DEF AllTallied
  <1>2. ASSUME Base, Base', AllTallied, [Next]_vars PROVE AllTallied'
    <2>1. ASSUME NEW j \in Consumers, NEW m \in Msgs PROVE Tallied(j, m)'
      BY <1>2, TallyStep DEF AllTallied
    <2> QED
      BY <2>1 DEF AllTallied
  <1>3. ASSUME Base, AllTallied PROVE PoisonBounded
    <2>1. ASSUME NEW j \in Consumers, NEW m \in Msgs PROVE failures[j][m] <= Limit
      <3>1. naks[j][m] \in 0 .. Limit - 1 /\ failures[j][m] \in Nat
        BY <1>0, <1>3 DEF Base, TypeOK
      <3>2. Reached(j, m) \in 0 .. Limit
        BY <1>0, <3>1 DEF Reached
      <3>3. Tallied(j, m)
        BY <1>3 DEF AllTallied
      <3> QED
        BY <1>0, <3>1, <3>2, <3>3 DEF Tallied
    <2> QED
      BY <2>1 DEF PoisonBounded
  <1> QED
    BY <1>1, <1>2, <1>3, BaseAlways, PTL DEF Spec
=============================================================================
