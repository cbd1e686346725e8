------------------------------- MODULE Mailbox -------------------------------
(***************************************************************************)
(* The durable mailbox and its dead letters: PublishMailbox,               *)
(* ConsumeMailbox, ConsumeDLQ and RequeueDLQ of agent/agent.go over the    *)
(* inbox operations of transport/nats (InboxPublish, InboxConsume,         *)
(* inboxSub.Next and its Ack, Nak, Term and TermNoDLQ handlers).           *)
(*                                                                         *)
(* The mailbox stream has one durable consumer that all ConsumeMailbox     *)
(* loops share, the dead-letter stream another that ConsumeDLQ and         *)
(* RequeueDLQ share.  A message of a stream is waiting for its publisher   *)
(* (none), ready, out for delivery, naked and waiting for its delay        *)
(* (delayed), acked or terminated (gone), or older than the stream's MaxAge*)
(* of 24 hours and dropped by the server (expired).                        *)
(*                                                                         *)
(* A loop of ConsumeMailbox ends when nothing is ready for two seconds, so *)
(* that all may have ended; that is the code and no fault.  Faults says    *)
(* what may happen around it:                                              *)
(*    crash    a consumer dies, with its nak counts, and starts again      *)
(*    ackwait  a message is out for longer than AckWait, and is redelivered*)
(*    ackloss  an ack, nak or term of a consumer does not reach the server *)
(*    readers  a reader of dead letters dies, or its ack or nak is lost    *)
(*    dlqfail  the publish to the dead-letter stream fails                 *)
(*    leave    who created a durable closes his subscription, and nats.go  *)
(*             deletes the durable with it                                 *)
(*    expire   a message gets older than MaxAge                            *)
(***************************************************************************)
EXTENDS Naturals

CONSTANTS
    Consumers,      \* ConsumeMailbox loops, each in a process of its own
    Readers,        \* callers of ConsumeDLQ or RequeueDLQ
    Msgs,           \* message ids
    Own,            \* the ids that publishers draw; a requeue draws the others
    NoMsg,
    Limit,          \* maxNaks
    MaxFailures,    \* bound on the count of a message's failures in a consumer
    Malformed,      \* ids of messages without session, tenant, id or payload
    Undecodable,    \* ids of messages that decode rejects
    Poison,         \* ids of messages the handler always fails on
    Faults

ASSUME ConstantsAssumption ==
    /\ NoMsg \notin Msgs
    /\ Own \subseteq Msgs
    /\ Limit \in Nat \ {0} /\ MaxFailures \in Nat
    /\ Malformed \subseteq Msgs /\ Undecodable \subseteq Msgs /\ Poison \subseteq Msgs
    /\ Faults \subseteq {"crash", "ackwait", "ackloss", "readers", "dlqfail",
                   "leave", "expire"}

VARIABLES
    mailbox,    \* the mailbox stream and its durable consumer
    dlq,        \* the dead-letter stream and its durable consumer
    loop,       \* per consumer: next, handle, settle, copy, drop or stopped
    cur,        \* per consumer: the message in hand
    verdict,    \* per consumer: what the handler said of it
    naks,       \* per consumer: nakCount
    reader,     \* per reader of the dead letters: idle, read or published
    letter,     \* per reader: the dead letter in hand
    closed,     \* auxiliary: messages handled, skipped, discarded, or not copied
    taken,      \* auxiliary: dead letters accepted, or published again
    failures    \* auxiliary: per consumer, failed deliveries of each message

vars == <<mailbox, dlq, loop, cur, verdict, naks, reader, letter,
          closed, taken, failures>>

Init ==
    /\ mailbox = [m \in Msgs |-> "none"]
    /\ dlq = [m \in Msgs |-> "none"]
    /\ loop = [k \in Consumers |-> "next"]
    /\ cur = [k \in Consumers |-> NoMsg]
    /\ verdict = [k \in Consumers |-> "none"]
    /\ naks = [k \in Consumers |-> [m \in Msgs |-> 0]]
    /\ reader = [j \in Readers |-> "idle"]
    /\ letter = [j \in Readers |-> NoMsg]
    /\ closed = {}
    /\ taken = {}
    /\ failures = [k \in Consumers |-> [m \in Msgs |-> 0]]

-----------------------------------------------------------------------------
(* The streams.                                                            *)

Settled(stream, m) == [stream EXCEPT ![m] = IF @ = "expired" THEN @ ELSE "gone"]
Naked(stream, m) == [stream EXCEPT ![m] = IF @ = "out" THEN "delayed" ELSE @]

\* The streams keep what was acked, and a new durable starts with their first
\* message: deleting one makes everything that has not expired ready again.
Anew(stream) ==
    [m \in Msgs |-> IF stream[m] \in {"none", "expired"} THEN stream[m] ELSE "ready"]

\* Acks, naks and terms are sent and forgotten; those for a durable that is not
\* there any more are ignored.  A nak may also come too late, when the message
\* is out again to somebody else.
AnswerLost == Faults \cap {"ackloss", "leave"} # {} /\ UNCHANGED mailbox
NakIgnored == Faults \cap {"ackloss", "leave", "ackwait"} # {} /\ UNCHANGED mailbox
LetterAnswerLost == Faults \cap {"readers", "leave"} # {} /\ UNCHANGED dlq

\* A message is stored under an id that no other has had.
InboxPublish(m) == mailbox[m] = "none" /\ mailbox' = [mailbox EXCEPT ![m] = "ready"]

PublishMailbox(m) ==
    /\ m \in Own /\ InboxPublish(m)
    /\ UNCHANGED <<dlq, loop, cur, verdict, naks, reader, letter,
                   closed, taken, failures>>

\* The delay of a nak is over; AckWait is, with nobody or with somebody slow
\* at work on the message.
Redeliver(m) ==
    /\ \/ /\ \/ mailbox[m] = "delayed"
             \/ /\ mailbox[m] = "out"
                /\ "ackwait" \in Faults \/ \A k \in Consumers : cur[k] # m
          /\ mailbox' = [mailbox EXCEPT ![m] = "ready"] /\ UNCHANGED dlq
       \/ /\ \/ dlq[m] = "delayed"
             \/ /\ dlq[m] = "out"
                /\ "ackwait" \in Faults \/ \A j \in Readers : letter[j] # m
          /\ dlq' = [dlq EXCEPT ![m] = "ready"] /\ UNCHANGED mailbox
    /\ UNCHANGED <<loop, cur, verdict, naks, reader, letter,
                   closed, taken, failures>>

\* MaxAge: whatever state a message is in, somebody may be at work on it.
Expire(m) ==
    /\ "expire" \in Faults
    /\ \/ /\ mailbox[m] \in {"ready", "out", "delayed"}
          /\ mailbox' = [mailbox EXCEPT ![m] = "expired"] /\ UNCHANGED dlq
       \/ /\ dlq[m] \in {"ready", "out", "delayed"}
          /\ dlq' = [dlq EXCEPT ![m] = "expired"] /\ UNCHANGED mailbox
    /\ UNCHANGED <<loop, cur, verdict, naks, reader, letter,
                   closed, taken, failures>>

-----------------------------------------------------------------------------
(* ConsumeMailbox.                                                         *)

\* The loop goes back to Next.
Continue(k) ==
    /\ loop' = [loop EXCEPT ![k] = "next"]
    /\ cur' = [cur EXCEPT ![k] = NoMsg]
    /\ verdict' = [verdict EXCEPT ![k] = "none"]

\* Next delivers a ready message.  One that it cannot decode stays out, and
\* ends the loop like a closed subscription.
Fetch(k) ==
    /\ loop[k] = "next"
    /\ \E m \in Msgs :
          /\ mailbox[m] = "ready"
          /\ mailbox' = [mailbox EXCEPT ![m] = "out"]
          /\ IF m \in Undecodable
             THEN loop' = [loop EXCEPT ![k] = "stopped"] /\ UNCHANGED cur
             ELSE loop' = [loop EXCEPT ![k] = "handle"] /\ cur' = [cur EXCEPT ![k] = m]
    /\ UNCHANGED <<dlq, verdict, naks, reader, letter, closed, taken, failures>>

\* So does a fetch that has waited two seconds for nothing.
IdleExit(k) ==
    /\ loop[k] = "next" /\ \A m \in Msgs : mailbox[m] # "ready"
    /\ loop' = [loop EXCEPT ![k] = "stopped"]
    /\ UNCHANGED <<mailbox, dlq, cur, verdict, naks, reader, letter,
                   closed, taken, failures>>

\* The function that ConsumeMailbox returned to the one whose call created the
\* durable: the fetches that wait end, and the next durable begins again.
CloseMailbox ==
    /\ "leave" \in Faults
    /\ loop' = [k \in Consumers |-> IF loop[k] = "next" THEN "stopped" ELSE loop[k]]
    /\ mailbox' = Anew(mailbox)
    /\ UNCHANGED <<dlq, cur, verdict, naks, reader, letter,
                   closed, taken, failures>>

\* A malformed message is acked; any other goes to the handler.  Mutant: the
\* message is skipped without an ack.
SkipWithoutAck(k) ==
    /\ loop[k] = "handle" /\ cur[k] \in Malformed
    /\ closed' = closed \cup {cur[k]}
    /\ Continue(k)
    /\ UNCHANGED <<mailbox, dlq, naks, reader, letter, taken, failures>>
Skip(k) ==
    /\ loop[k] = "handle" /\ cur[k] \in Malformed
    /\ mailbox' = Settled(mailbox, cur[k]) \/ AnswerLost
    /\ closed' = closed \cup {cur[k]}
    /\ Continue(k)
    /\ UNCHANGED <<dlq, naks, reader, letter, taken, failures>>

Handle(k) ==
    /\ loop[k] = "handle" /\ cur[k] \notin Malformed
    /\ \E v \in IF cur[k] \in Poison THEN {"fail"} ELSE {"ok", "term", "discard", "fail"} :
          /\ verdict' = [verdict EXCEPT ![k] = v]
          /\ failures' = [failures EXCEPT ![k][cur[k]] =
                            IF v = "fail" /\ @ < MaxFailures THEN @ + 1 ELSE @]
    /\ loop' = [loop EXCEPT ![k] = "settle"]
    /\ UNCHANGED <<mailbox, dlq, cur, naks, reader, letter, closed, taken>>

Forget(k) == naks' = [naks EXCEPT ![k][cur[k]] = 0]

\* nil: Ack.  TermError with NoDLQ: TermNoDLQ.
Accept(k) ==
    /\ loop[k] = "settle" /\ verdict[k] \in {"ok", "discard"}
    /\ Forget(k)
    /\ mailbox' = Settled(mailbox, cur[k]) \/ AnswerLost
    /\ closed' = closed \cup {cur[k]}
    /\ Continue(k)
    /\ UNCHANGED <<dlq, reader, letter, taken, failures>>

\* Any other error: Nak.  Mutants: the count is reset by every nak; the Limit-th
\* failure is answered with one more nak.
NakAndForget(k) ==
    /\ loop[k] = "settle" /\ verdict[k] = "fail"
    /\ naks[k][cur[k]] + 1 < Limit
    /\ Forget(k)
    /\ mailbox' = Naked(mailbox, cur[k])
    /\ Continue(k)
    /\ UNCHANGED <<dlq, reader, letter, closed, taken, failures>>
NakAtLimit(k) ==
    /\ loop[k] = "settle" /\ verdict[k] = "fail"
    /\ naks[k][cur[k]] + 1 <= Limit
    /\ naks' = [naks EXCEPT ![k][cur[k]] = @ + 1]
    /\ mailbox' = Naked(mailbox, cur[k])
    /\ Continue(k)
    /\ UNCHANGED <<dlq, reader, letter, closed, taken, failures>>
Nak(k) ==
    /\ loop[k] = "settle" /\ verdict[k] = "fail"
    /\ naks[k][cur[k]] + 1 < Limit
    /\ naks' = [naks EXCEPT ![k][cur[k]] = @ + 1]
    /\ mailbox' = Naked(mailbox, cur[k]) \/ NakIgnored
    /\ Continue(k)
    /\ UNCHANGED <<dlq, reader, letter, closed, taken, failures>>

\* TermError, or the Limit-th failure: Term, which first copies the message to
\* the dead letters.  The copy carries the message's id, so a second one is
\* dropped there (in the stream's deduplication window, here for ever).
\* Mutants: the failure before the Limit-th parks the message; only a TermError
\* is copied.
ParkEarly(k) ==
    /\ loop[k] = "settle"
    /\ \/ verdict[k] = "term"
       \/ verdict[k] = "fail" /\ naks[k][cur[k]] + 2 >= Limit
    /\ Forget(k)
    /\ loop' = [loop EXCEPT ![k] = "copy"]
    /\ UNCHANGED <<mailbox, dlq, cur, verdict, reader, letter,
                   closed, taken, failures>>
Park(k) ==
    /\ loop[k] = "settle"
    /\ \/ verdict[k] = "term"
       \/ verdict[k] = "fail" /\ naks[k][cur[k]] + 1 >= Limit
    /\ Forget(k)
    /\ loop' = [loop EXCEPT ![k] = "copy"]
    /\ UNCHANGED <<mailbox, dlq, cur, verdict, reader, letter,
                   closed, taken, failures>>

TermCopyTypedOnly(k) ==
    /\ loop[k] = "copy"
    /\ dlq' = [dlq EXCEPT ![cur[k]] =
                 IF @ = "none" /\ verdict[k] = "term" THEN "ready" ELSE @]
    /\ loop' = [loop EXCEPT ![k] = "drop"]
    /\ UNCHANGED <<mailbox, cur, verdict, naks, reader, letter,
                   closed, taken, failures>>
TermCopy(k) ==
    /\ loop[k] = "copy"
    /\ \/ /\ dlq' = [dlq EXCEPT ![cur[k]] = IF @ = "none" THEN "ready" ELSE @]
          /\ UNCHANGED closed
       \/ /\ "dlqfail" \in Faults
          /\ closed' = closed \cup {cur[k]}
          /\ UNCHANGED dlq
    /\ loop' = [loop EXCEPT ![k] = "drop"]
    /\ UNCHANGED <<mailbox, cur, verdict, naks, reader, letter, taken, failures>>

TermDrop(k) ==
    /\ loop[k] = "drop"
    /\ mailbox' = Settled(mailbox, cur[k]) \/ AnswerLost
    /\ Continue(k)
    /\ UNCHANGED <<dlq, naks, reader, letter, closed, taken, failures>>

\* The process dies, and another starts with no counts.
Crash(k) ==
    /\ "crash" \in Faults
    /\ Continue(k)
    /\ naks' = [naks EXCEPT ![k] = [m \in Msgs |-> 0]]
    /\ failures' = [failures EXCEPT ![k] = [m \in Msgs |-> 0]]
    /\ UNCHANGED <<mailbox, dlq, reader, letter, closed, taken>>

-----------------------------------------------------------------------------
(* ConsumeDLQ and RequeueDLQ.                                              *)

Done(j) ==
    /\ reader' = [reader EXCEPT ![j] = "idle"]
    /\ letter' = [letter EXCEPT ![j] = NoMsg]

ReadLetter(j) ==
    /\ reader[j] = "idle"
    /\ \E m \in Msgs :
          /\ dlq[m] = "ready"
          /\ dlq' = [dlq EXCEPT ![m] = "out"]
          /\ letter' = [letter EXCEPT ![j] = m]
    /\ reader' = [reader EXCEPT ![j] = "read"]
    /\ UNCHANGED <<mailbox, loop, cur, verdict, naks, closed, taken, failures>>

\* ConsumeDLQ's handler fails; or it is not the letter RequeueDLQ looks for; or
\* RequeueDLQ cannot publish it.
PutBack(j) ==
    /\ reader[j] = "read"
    /\ dlq' = Naked(dlq, letter[j]) \/ LetterAnswerLost
    /\ Done(j)
    /\ UNCHANGED <<mailbox, loop, cur, verdict, naks, closed, taken, failures>>

\* ConsumeDLQ's handler accepts the letter.
Triage(j) ==
    /\ reader[j] = "read"
    /\ taken' = taken \cup {letter[j]}
    /\ dlq' = Settled(dlq, letter[j]) \/ LetterAnswerLost
    /\ Done(j)
    /\ UNCHANGED <<mailbox, loop, cur, verdict, naks, closed, failures>>

\* RequeueDLQ publishes the letter under a fresh id ...  Mutant: the letter is
\* acked first.
AckThenRequeue(j) ==
    /\ reader[j] = "read"
    /\ dlq' = Settled(dlq, letter[j])
    /\ reader' = [reader EXCEPT ![j] = "published"]
    /\ UNCHANGED <<mailbox, loop, cur, verdict, naks, letter, closed, taken, failures>>
Requeue(j) ==
    /\ reader[j] = "read"
    /\ \E n \in Msgs \ Own : InboxPublish(n)
    /\ taken' = taken \cup {letter[j]}
    /\ reader' = [reader EXCEPT ![j] = "published"]
    /\ UNCHANGED <<dlq, loop, cur, verdict, naks, letter, closed, failures>>

\* ... and acks the letter.  It returns, and closes its subscription: if that
\* created the durable, the letters that were acked are ready again, this one too.
RequeueAck(j) ==
    /\ reader[j] = "published"
    /\ \/ dlq' = Settled(dlq, letter[j])
       \/ LetterAnswerLost
       \/ "leave" \in Faults /\ dlq' = Anew(dlq)
    /\ Done(j)
    /\ UNCHANGED <<mailbox, loop, cur, verdict, naks, closed, taken, failures>>

\* RequeueDLQ returns without having found its letter, or what ConsumeDLQ
\* returned is called, where the durable was created.
CloseDLQ ==
    /\ "leave" \in Faults
    /\ dlq' = Anew(dlq)
    /\ UNCHANGED <<mailbox, loop, cur, verdict, naks, reader, letter,
                   closed, taken, failures>>

ReaderCrash(j) ==
    /\ "readers" \in Faults /\ reader[j] # "idle"
    /\ Done(j)
    /\ UNCHANGED <<mailbox, dlq, loop, cur, verdict, naks, closed, taken, failures>>

-----------------------------------------------------------------------------
Consume(k) ==
    Fetch(k) \/ Skip(k) \/ Handle(k) \/ Accept(k) \/ Nak(k) \/ Park(k)
    \/ TermCopy(k) \/ TermDrop(k)

Next ==
    \/ \E m \in Msgs : PublishMailbox(m) \/ Redeliver(m) \/ Expire(m)
    \/ CloseMailbox \/ CloseDLQ
    \/ \E k \in Consumers : Consume(k) \/ IdleExit(k) \/ Crash(k)
    \/ \E j \in Readers :
          \/ ReadLetter(j) \/ PutBack(j) \/ Triage(j)
          \/ Requeue(j) \/ RequeueAck(j) \/ ReaderCrash(j)

Spec == Init /\ [][Next]_vars

\* A consumer that has something to do does it, and its handler returns; the
\* server redelivers.  A message that is ready while loops run is fetched by one or
\* another: the stream is a queue.  Nothing keeps a loop from ending idle.
Fairness ==
    /\ \A k \in Consumers : WF_vars(Consume(k))
    /\ \A m \in Msgs :
          /\ WF_vars(Redeliver(m))
          /\ SF_vars(\E k \in Consumers : Fetch(k) /\ mailbox[m] = "ready" /\ mailbox'[m] = "out")

FairSpec == Spec /\ Fairness

-----------------------------------------------------------------------------
(* Properties.                                                             *)

\* Every variable has its type.
TypeOK ==
    /\ mailbox \in [Msgs -> {"none", "ready", "out", "delayed", "gone", "expired"}]
    /\ dlq \in [Msgs -> {"none", "ready", "out", "delayed", "gone", "expired"}]
    /\ loop \in [Consumers -> {"next", "handle", "settle", "copy", "drop", "stopped"}]
    /\ cur \in [Consumers -> Msgs \cup {NoMsg}]
    /\ verdict \in [Consumers -> {"none", "ok", "term", "discard", "fail"}]
    /\ naks \in [Consumers -> [Msgs -> 0 .. Limit - 1]]
    /\ reader \in [Readers -> {"idle", "read", "published"}]
    /\ letter \in [Readers -> Msgs \cup {NoMsg}]
    /\ closed \subseteq Msgs /\ taken \subseteq Msgs
    /\ failures \in [Consumers -> [Msgs -> 0 .. MaxFailures]]

\* A message leaves the mailbox handled, skipped, discarded or parked, or its
\* copy to the dead letters failed: whatever crashes, redeliveries, lost acks and
\* other consumers come between, nothing else loses it before it expires.  A
\* message that expires, after 24 hours, may have seen no handler.
NothingLost ==
    \A m \in Msgs : mailbox[m] \notin {"none", "ready", "out", "delayed", "expired"}
                      => m \in closed \/ dlq[m] # "none"

\* A dead letter leaves the dead letters because it expired there, because
\* somebody accepted it, or because it was published to the mailbox again under
\* another id.
LettersKept ==
    \A m \in Msgs : dlq[m] \notin {"none", "ready", "out", "delayed", "expired"}
                      => m \in taken

\* A message fails at most Limit times before it is parked ("redelivered at most
\* maxNaks times before ConsumeMailbox terms it into the DLQ"): in each consumer, for
\* the consumers do not know each other's counts.
PoisonBounded == \A k \in Consumers, m \in Msgs : failures[k][m] <= Limit

\* Only messages that were given up are dead letters: the consumer process that
\* parks one has itself failed on it Limit times, or its handler asked for it.
ParkedForCause ==
    [][\A m \in Msgs : dlq[m] = "none" /\ dlq'[m] # "none" =>
          \E k \in Consumers : /\ loop[k] = "copy" /\ cur[k] = m
                               /\ verdict[k] = "term" \/ failures[k][m] >= Limit]_vars

\* Every loop has ended, for nothing was ready for two seconds (the delay of a nak
\* is enough), or at a message that it could not decode.
AllStopped == \A k \in Consumers : loop[k] = "stopped"

\* A message the handler always fails on is parked in the end, unless it expires
\* or every loop has ended before.
PoisonParked ==
    \A m \in Poison :
        mailbox[m] = "ready" ~> dlq[m] # "none" \/ mailbox[m] = "expired" \/ AllStopped

\* A published message leaves the mailbox in the end, unless every loop has ended
\* before.
EventuallyClosed ==
    \A m \in Msgs :
        mailbox[m] = "ready" ~> mailbox[m] \in {"gone", "expired"} \/ AllStopped
=============================================================================
