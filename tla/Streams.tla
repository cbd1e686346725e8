------------------------------ MODULE Streams ------------------------------
(***************************************************************************)
(* The stream topology: ConnectWithOptions, ensureStreams and Replay of    *)
(* transport/nats/nats.go, PublishSessionEvent of extension/config.go and  *)
(* the embedded server of natsrun/natsrun.go.                              *)
(*                                                                         *)
(* Every process that connects brings the three streams into the layout it *)
(* wants, one stream after the other and each in two requests, a look and  *)
(* a change.  Several processes do so at once, die in between, and may     *)
(* find a legacy layout, in which the mailbox stream also takes the        *)
(* session's events.  A server that was started by natsrun in Memory mode  *)
(* creates the streams itself, in memory, when clients can already connect.*)
(*                                                                         *)
(* Connected processes publish a session's events, which a stream keeps    *)
(* until they are too old, and replay them.                                *)
(*                                                                         *)
(* Faults says what may go wrong around the code:                          *)
(*    crash   a process dies while it connects                             *)
(*    info    StreamInfo fails; the code takes the stream for missing      *)
(*    reply   a request for a change, or a publish, is applied, but its    *)
(*            answer lost                                                  *)
(*    slow    a delivery to Replay takes over half a second, or the whole  *)
(*            replay over the time that a message waits for its ack        *)
(***************************************************************************)
EXTENDS Wire, FiniteSets

CONSTANTS
    Procs,      \* processes that connect
    Channels,   \* the channels that they publish on
    Ages,       \* the values of Options.MaxAge that occur
    Layouts,    \* names of the layouts that an external server may have at first
    MaxTries,   \* bound on the connects of all processes
    MaxMsgs,    \* bound on what is published
    MaxStarts,  \* bound on the starts of the embedded server
    MaxAgain,   \* bound on the redeliveries to a call of Replay
    Faults

ASSUME ConstantsAssumption ==
    /\ Ages \subseteq Nat \ {0} /\ Ages # {}
    /\ Layouts \subseteq {"empty", "legacy", "drifted", "stray", "swapped"}
    /\ Channels \subseteq Seq(STRING)
    /\ NilPayload \notin Nat           \* a message's payload is its number
    /\ MaxTries \in Nat /\ MaxMsgs \in Nat /\ MaxStarts \in Nat /\ MaxAgain \in Nat
    /\ Faults \subseteq {"crash", "info", "reply", "slow"}

VARIABLES
    age,        \* per process: its MaxAge
    mode,       \* the layout that an external server was left with; or the storage of the
                \* embedded server: memory, file or temp (files in a temporary directory)
    server,     \* down, starting or up
    next,       \* the stream that the embedded server creates next
    starts,     \* starts of the embedded server so far
    streams,    \* per stream: its configuration
    store,      \* per stream: its messages
    pc,         \* per process: off, info, add, update, ready or failed
    since,      \* auxiliary, per process: the start of the server that its connect began under
    at,         \* per process: the stream that ensureStreams is at
    seen,       \* per process: the configuration that StreamInfo has returned
    tries,      \* connects so far
    why,        \* per process: the error of its last connect
    blind,      \* per process: StreamInfo has failed in its last connect
    published,  \* how many messages were published
    promised,   \* auxiliary: the events whose publish was acknowledged
    expired,    \* auxiliary: the events that became too old
    reader      \* per process: its call of Replay, with how it has gone (auxiliary): blind,
                \* a StreamInfo failed; cut, it ended with messages pending; again, how
                \* many messages were redelivered

connectVars == <<pc, since, at, seen, tries, why, blind>>
dataVars == <<store, published, promised, expired, reader>>
serverVars == <<mode, server, next, starts>>
vars == <<age, serverVars, streams, connectVars, dataVars>>

Missing == [subjects |-> {}, age |-> 0, storage |-> ""]
NoSeen == Missing
NoCall == [stage |-> "idle", ch |-> <<>>, stream |-> "", pos |-> 0, out |-> <<>>,
           due |-> {}, blind |-> FALSE, cut |-> FALSE, again |-> 0]

\* Mutant: the stream of events comes first.
EventsFirst == <<"ABC_EVENTS", "ABC_MAILBOX", "ABC_DLQ">>

\* The specs, in the order of ensureStreams.
Specs == <<"ABC_MAILBOX", "ABC_EVENTS", "ABC_DLQ">>
Names == {Specs[i] : i \in 1..3}
Wanted(n) == CASE n = "ABC_MAILBOX" -> {inboxWildcard}
               [] n = "ABC_EVENTS"  -> {eventsWildcard}
               [] n = "ABC_DLQ"     -> {dlqWildcard}

Stream(subjects, storage) == [subjects |-> subjects, age |-> 24, storage |-> storage]
NoStreams == [n \in Names |-> Missing]

\* What a server may have been left with: by nobody; by a release whose mailbox took the
\* events too; by somebody who added a filter of his own, in the events' stream or in a
\* stream's beside the legacy one; by somebody who exchanged two filters.
Layout(name) ==
    LET stray == <<"abc", "stray">>
        mailbox == Stream({inboxWildcard, eventsWildcard}, "file")
    IN  CASE name = "empty"   -> NoStreams
          [] name = "legacy"  -> [NoStreams EXCEPT !["ABC_MAILBOX"] = mailbox]
          [] name = "drifted" -> [NoStreams EXCEPT !["ABC_MAILBOX"] = mailbox,
                                                   !["ABC_EVENTS"] = Stream({stray}, "file")]
          [] name = "stray"   -> [n \in Names |-> Stream(Wanted(n) \cup
                                      (IF n = "ABC_EVENTS" THEN {stray} ELSE {}), "file")]
          [] name = "swapped" -> [NoStreams EXCEPT
                                      !["ABC_MAILBOX"] = Stream({eventsWildcard}, "file"),
                                      !["ABC_EVENTS"] = Stream({inboxWildcard}, "file")]

External == mode \in Layouts

\* A message that was left in a stream by the first version of the protocol.
OldMessage(ch) == [subject |-> ch, data |-> [v |-> 1], id |-> 0]

Init ==
    /\ age \in [Procs -> Ages]
    /\ mode \in Layouts \cup {"memory", "file", "temp"}
    /\ server = IF External THEN "up" ELSE "down"
    /\ next = 1
    /\ starts = 0
    /\ streams = IF External THEN Layout(mode) ELSE NoStreams
    /\ store = [n \in Names |->
                  IF \E s \in streams[n].subjects, ch \in Channels : Matches(s, ch)
                  THEN <<OldMessage(CHOOSE ch \in Channels :
                                       \E s \in streams[n].subjects : Matches(s, ch))>>
                  ELSE <<>>]
    /\ pc = [p \in Procs |-> "off"]
    /\ since = [p \in Procs |-> 0]
    /\ at = [p \in Procs |-> 1]
    /\ seen = [p \in Procs |-> NoSeen]
    /\ tries = 0
    /\ why = [p \in Procs |-> "none"]
    /\ blind = [p \in Procs |-> FALSE]
    /\ published = 0
    /\ promised = {}
    /\ expired = {}
    /\ reader = [p \in Procs |-> NoCall]

-----------------------------------------------------------------------------
(* JetStream.                                                              *)

Overlaps(n, subjects) ==
    \E m \in Names \ {n} : \E s \in streams[m].subjects, t \in subjects : Overlap(s, t)

\* What AddStream and UpdateStream answer.  A stream that exists may be added again as
\* it is.
AddAnswer(n, config) ==
    CASE streams[n] = config -> "ok"
      [] streams[n] \notin {config, Missing} -> "name in use"
      [] OTHER -> IF Overlaps(n, config.subjects) THEN "overlap" ELSE "ok"
UpdateAnswer(n, subjects) ==
    CASE streams[n] = Missing -> "not found"
      [] Overlaps(n, subjects) -> "overlap"
      [] OTHER -> "ok"

\* The stream that takes what is published on a channel; there is at most one.
Taker(ch) == {n \in Names : \E s \in streams[n].subjects : Matches(s, ch)}

\* The oldest message of a stream is too old.
Expire(n) ==
    /\ store[n] # <<>>
    /\ store' = [store EXCEPT ![n] = Tail(@)]
    /\ expired' = expired \cup {Head(store[n]).id}
    /\ UNCHANGED <<age, serverVars, streams, connectVars, published, promised, reader>>

-----------------------------------------------------------------------------
(* ConnectWithOptions.                                                     *)

Connect(p) ==
    /\ server # "down"
    /\ pc[p] \in {"off", "failed"}
    /\ tries < MaxTries
    /\ tries' = tries + 1
    /\ pc' = [pc EXCEPT ![p] = "info"]
    /\ since' = [since EXCEPT ![p] = starts]
    /\ at' = [at EXCEPT ![p] = 1]
    /\ why' = [why EXCEPT ![p] = "none"]
    /\ blind' = [blind EXCEPT ![p] = FALSE]
    /\ UNCHANGED <<age, serverVars, streams, seen, dataVars>>

\* The stream is as wanted; the next one, or the end.
Advance(p) ==
    /\ at' = [at EXCEPT ![p] = IF @ = 3 THEN 1 ELSE @ + 1]
    /\ pc' = [pc EXCEPT ![p] = IF at[p] = 3 THEN "ready" ELSE "info"]
    /\ seen' = [seen EXCEPT ![p] = NoSeen]

\* StreamInfo.  A failure of any kind is taken for a stream that is not there.
Info(p) ==
    LET n == Specs[at[p]] IN
    /\ pc[p] = "info" /\ server # "down"
    /\ \/ /\ streams[n] # Missing
          /\ \/ /\ streams[n].subjects = Wanted(n)
                /\ Advance(p)
             \/ /\ streams[n].subjects # Wanted(n)
                /\ seen' = [seen EXCEPT ![p] = streams[n]]
                /\ pc' = [pc EXCEPT ![p] = "update"]
                /\ UNCHANGED at
          /\ UNCHANGED blind
       \/ /\ streams[n] = Missing \/ "info" \in Faults
          /\ blind' = [blind EXCEPT ![p] = @ \/ streams[n] # Missing]
          /\ pc' = [pc EXCEPT ![p] = "add"]
          /\ UNCHANGED <<at, seen>>
    /\ UNCHANGED <<age, serverVars, streams, since, tries, why, dataVars>>

\* An error of a change ends the connect.
Fail(p, error) ==
    /\ pc' = [pc EXCEPT ![p] = "failed"]
    /\ why' = [why EXCEPT ![p] = error]
    /\ seen' = [seen EXCEPT ![p] = NoSeen]
    /\ UNCHANGED at

\* The end of a change: its answer arrives, or gets lost.
Changed(p, answer) ==
    \/ /\ answer = "ok"
       /\ Advance(p)
       /\ UNCHANGED why
    \/ /\ answer # "ok"
       /\ Fail(p, answer)
    \/ /\ "reply" \in Faults
       /\ Fail(p, "request")

\* Mutant: an error of AddStream is ignored.
AddIgnoringErrors(p) ==
    LET n == Specs[at[p]]
        config == [subjects |-> Wanted(n), age |-> age[p], storage |-> "file"]
    IN  /\ pc[p] = "add" /\ server # "down"
        /\ streams' = IF AddAnswer(n, config) = "ok" THEN [streams EXCEPT ![n] = config]
                      ELSE streams
        /\ Changed(p, "ok")
        /\ UNCHANGED <<age, serverVars, since, tries, blind, dataVars>>

Add(p) ==
    LET n == Specs[at[p]]
        config == [subjects |-> Wanted(n), age |-> age[p], storage |-> "file"]
        answer == AddAnswer(n, config)
    IN  /\ pc[p] = "add" /\ server # "down"
        /\ streams' = IF answer = "ok" THEN [streams EXCEPT ![n] = config] ELSE streams
        /\ Changed(p, answer)
        /\ UNCHANGED <<age, serverVars, since, tries, blind, dataVars>>

\* UpdateStream with the configuration that was seen and the subjects that are wanted.
Update(p) ==
    LET n == Specs[at[p]]
        answer == UpdateAnswer(n, Wanted(n))
    IN  /\ pc[p] = "update" /\ server # "down"
        /\ streams' = IF answer = "ok"
                      THEN [streams EXCEPT ![n] = [seen[p] EXCEPT !.subjects = Wanted(n)]]
                      ELSE streams
        /\ Changed(p, answer)
        /\ UNCHANGED <<age, serverVars, since, tries, blind, dataVars>>

\* A process dies while it connects.  One that dies later is one that does nothing more.
Crash(p) ==
    /\ "crash" \in Faults
    /\ pc[p] \in {"info", "add", "update"}
    /\ pc' = [pc EXCEPT ![p] = "off"]
    /\ seen' = [seen EXCEPT ![p] = NoSeen]
    /\ UNCHANGED <<age, serverVars, streams, since, at, tries, why, blind, dataVars>>

-----------------------------------------------------------------------------
(* The embedded server.                                                    *)

\* Start, up to the moment at which the server accepts connections.  In Memory mode it
\* goes on to create the streams; in File mode it does not.
Start ==
    /\ ~External /\ server = "down"
    /\ starts < MaxStarts
    /\ starts' = starts + 1
    /\ server' = IF mode = "memory" THEN "starting" ELSE "up"
    /\ next' = 1
    /\ UNCHANGED <<age, mode, streams, connectVars, dataVars>>

\* The end of the server: what was in memory, or in the temporary directory, is gone.
Shutdown ==
    /\ server' = "down"
    /\ next' = 1
    /\ IF mode = "file" THEN UNCHANGED <<streams, store>>
       ELSE streams' = NoStreams /\ store' = [n \in Names |-> <<>>]
    /\ expired' = IF mode = "file" THEN expired
                  ELSE expired \cup
                       UNION {{store[n][i].id : i \in 1..Len(store[n])} : n \in Names}

\* precreateMemoryStream, one stream; an error of any ends the server that was started.
Precreate ==
    LET n == Specs[next]
        config == [subjects |-> Wanted(n), age |-> 24, storage |-> "memory"]
        answer == AddAnswer(n, config)
    IN  /\ server = "starting"
        /\ \/ /\ answer = "ok"
              /\ streams' = [streams EXCEPT ![n] = config]
              /\ IF next = 3 THEN server' = "up" /\ next' = 1
                 ELSE next' = next + 1 /\ UNCHANGED server
              /\ UNCHANGED <<store, expired>>
           \/ /\ answer # "ok"
              /\ Shutdown
        /\ UNCHANGED <<age, mode, starts, connectVars, published, promised, reader>>

Stop ==
    /\ ~External /\ server = "up"
    /\ Shutdown
    /\ UNCHANGED <<age, mode, starts, connectVars, published, promised, reader>>

-----------------------------------------------------------------------------
(* What is published and replayed.                                         *)

\* InboxPublish: the stream that takes the channel stores the message and answers; with
\* no such stream there is an error, and nothing happens.
Publish(p, ch) ==
    /\ pc[p] = "ready" /\ server # "down"
    /\ published < MaxMsgs
    /\ published' = published + 1
    /\ \E n \in Taker(ch) :
          store' = [store EXCEPT ![n] = Append(@,
                      [subject |-> ch, id |-> published + 1,
                       data |-> buildEnvelope("queue", ch, published + 1, tenantOf(ch, ""),
                                              published + 1, "")])]
    /\ \/ promised' = promised \cup {[id |-> published + 1, ch |-> ch]}
       \/ "reply" \in Faults /\ UNCHANGED promised
    /\ UNCHANGED <<age, serverVars, streams, connectVars, expired, reader>>

\* Replay begins with the stream of events.
Replay(p, ch) ==
    /\ pc[p] = "ready"
    /\ reader[p].stage = "idle"
    /\ reader' = [reader EXCEPT ![p] = [NoCall EXCEPT
           !.stage = "find", !.ch = ch, !.stream = "ABC_EVENTS",
           !.due = {m.id : m \in {x \in promised : x.ch = ch}}]]
    /\ UNCHANGED <<age, serverVars, streams, connectVars, store, published, promised, expired>>

\* The stream that is asked about after another one, "" after the last.
After(n) == CASE n = "ABC_EVENTS" -> "ABC_MAILBOX" [] n = "ABC_MAILBOX" -> "ABC_DLQ" [] OTHER -> ""

\* The first stream with a filter that matches the channel is read; one that StreamInfo
\* says nothing of is passed over.
ReplayFind(p) ==
    LET r == reader[p]
        n == r.stream
    IN
    /\ r.stage = "find" /\ server # "down"
    /\ \/ /\ streams[n] # Missing
          /\ reader' = [reader EXCEPT ![p] =
                IF \E s \in streams[n].subjects : s = r.ch \/ subjectMatch(s, r.ch)
                THEN [r EXCEPT !.stage = "read"]
                ELSE [r EXCEPT !.stream = After(n),
                               !.stage = IF After(n) = "" THEN "done" ELSE "find"]]
       \/ /\ streams[n] = Missing \/ "info" \in Faults
          /\ reader' = [reader EXCEPT ![p] =
                [r EXCEPT !.stream = After(n), !.blind = r.blind \/ streams[n] # Missing,
                          !.stage = IF After(n) = "" THEN "done" ELSE "find"]]
    /\ UNCHANGED <<age, serverVars, streams, connectVars, store, published, promised, expired>>

\* Where the stream has the messages of the channel that the consumer has not delivered
\* yet, and the first of these.
Rest(p) ==
    LET stored == store[reader[p].stream] IN
    {i \in 1..Len(stored) : stored[i].subject = reader[p].ch /\ stored[i].id >= reader[p].pos}
NextMsg(p) == store[reader[p].stream][Least(Rest(p))]

\* What is returned once the consumer has delivered a message: one that cannot be decoded
\* is passed over.
Returned(out, m) == IF decode(m) = NoEnvelope THEN out ELSE Append(out, decode(m).payload)

\* Mutant: a message that cannot be decoded ends the replay.
ReplayUpToBad(p) ==
    /\ reader[p].stage = "read" /\ server # "down"
    /\ Rest(p) # {}
    /\ LET m == NextMsg(p) IN
       reader' = [reader EXCEPT ![p].pos = m.id + 1,
                                ![p].stage = IF decode(m) = NoEnvelope THEN "done" ELSE "read",
                                ![p].out = Returned(@, m)]
    /\ UNCHANGED <<age, serverVars, streams, connectVars, store, published, promised, expired>>

\* NextMsg: the next message of the stream.
ReplayRead(p) ==
    /\ reader[p].stage = "read" /\ server # "down"
    /\ Rest(p) # {}
    /\ LET r == reader[p]
           m == NextMsg(p)
       IN  reader' = [reader EXCEPT ![p] = [r EXCEPT !.pos = m.id + 1,
                                                     !.out = Returned(r.out, m)]]
    /\ UNCHANGED <<age, serverVars, streams, connectVars, store, published, promised, expired>>

\* Where the stream has what the consumer has delivered; as nothing is ever acked, the
\* server delivers it again once the time for its ack is over.
Unacked(p) ==
    LET stored == store[reader[p].stream] IN
    {i \in 1..Len(stored) : stored[i].subject = reader[p].ch /\ stored[i].id < reader[p].pos}

\* NextMsg: a message that was delivered before.
ReplayAgain(p) ==
    /\ reader[p].stage = "read" /\ server # "down"
    /\ "slow" \in Faults /\ reader[p].again < MaxAgain
    /\ \E i \in Unacked(p) :
          LET r == reader[p] IN
          reader' = [reader EXCEPT ![p] = [r EXCEPT
              !.again = r.again + 1, !.out = Returned(r.out, store[r.stream][i])]]
    /\ UNCHANGED <<age, serverVars, streams, connectVars, store, published, promised, expired>>

\* Half a second without a message: nothing is left, or what is left comes too late (also
\* for good, once the consumer has as many messages without an ack as it may).
ReplayEnd(p) ==
    /\ reader[p].stage = "read"
    /\ Rest(p) = {} \/ server = "down" \/ "slow" \in Faults
    /\ LET r == reader[p] IN
       reader' = [reader EXCEPT ![p] = [r EXCEPT !.stage = "done", !.cut = Rest(p) # {}]]
    /\ UNCHANGED <<age, serverVars, streams, connectVars, store, published, promised, expired>>

\* The caller has what was replayed.
ReplayReturn(p) ==
    /\ reader[p].stage = "done"
    /\ reader' = [reader EXCEPT ![p] = NoCall]
    /\ UNCHANGED <<age, serverVars, streams, connectVars, store, published, promised, expired>>

Reading(p) ==
    \/ ReplayFind(p) \/ ReplayRead(p) \/ ReplayAgain(p) \/ ReplayEnd(p) \/ ReplayReturn(p)

Next ==
    \/ Start \/ Precreate \/ Stop
    \/ \E n \in Names : Expire(n)
    \/ \E p \in Procs :
          \/ Connect(p) \/ Info(p) \/ Add(p) \/ Update(p) \/ Crash(p)
          \/ \E ch \in Channels : Publish(p, ch) \/ Replay(p, ch)
          \/ Reading(p)

Spec == Init /\ [][Next]_vars

-----------------------------------------------------------------------------
(* Properties.                                                             *)

Laid(n) == streams[n].subjects = Wanted(n)

\* Once a process is connected, the three streams have the layout that it wants for as
\* long as the server runs, whoever else connects, fails or dies half way
\* (ensureStreams; nats.go:66-70 promises a topology in the desired state).  A server that
\* Start has returned in Memory mode has that layout too, all of it in memory, also when
\* clients connected while it started (natsrun.go:58-61).
Ready ==
    /\ \A p \in Procs : pc[p] = "ready" /\ since[p] = starts /\ server # "down" =>
           \A n \in Names : Laid(n)
    /\ mode = "memory" /\ server = "up" =>
           \A n \in Names : Laid(n) /\ streams[n].storage = "memory"

\* A connect fails for a cause outside of the code only: a request that got no answer or
\* whose StreamInfo failed, processes that want different retentions or storages of a
\* stream that none of them finds, or two streams that were left with each other's
\* filters.  In particular processes with one MaxAge that migrate a legacy layout at
\* the same time do not disturb one another (ensureStreams, "Order matters").
FailsForCause ==
    \A p \in Procs : pc[p] = "failed" =>
        CASE why[p] = "request" -> "reply" \in Faults
          [] why[p] = "name in use" -> \/ blind[p]
                                       \/ \E q \in Procs : age[q] # age[p]
                                       \/ mode = "memory"
          [] why[p] = "overlap" -> mode = "swapped"
          [] OTHER -> FALSE

\* What Replay returns leaves no event out between two others: before an event it has every
\* older one whose publish was acknowledged before the call and that has not become too old
\* since, unless a StreamInfo failed.  It has all of them, unless it was also cut: half a
\* second went by with messages pending, or the server was gone.  It has each once and in
\* the order of the stream, unless the server delivered some again (Replay,
\* PublishSessionEvent).
ReplaysAll ==
    \A p \in Procs : reader[p].stage = "done" =>
        LET r == reader[p] IN
        /\ r.blind \/ \A i \in 1..Len(r.out) : \A id \in r.due \ expired :
                         id < r.out[i] => \E j \in 1..Len(r.out) : j < i /\ r.out[j] = id
        /\ r.blind \/ r.cut \/ \A id \in r.due \ expired : \E i \in 1..Len(r.out) : r.out[i] = id
        /\ r.again = 0 => \A i, j \in 1..Len(r.out) : i < j => r.out[i] < r.out[j]
=============================================================================
