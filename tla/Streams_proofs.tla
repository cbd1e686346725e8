--------------------------- MODULE Streams_proofs ---------------------------
(***************************************************************************)
(* Theorems about the stream topology, for any number of processes,        *)
(* retentions, connects and starts, under any faults: a process that is    *)
(* ready has the streams it needs (Ready), one that failed had a reason    *)
(* (FailsForCause), and what Replay returns is complete (ReplaysAll).      *)
(***************************************************************************)
EXTENDS Streams, SequenceTheorems, WellFoundedInduction, TLAPS

Stray == <<"abc", "stray">>
StreamConfig == [subjects : SUBSET {inboxWildcard, eventsWildcard, dlqWildcard, Stray},
                 age : Nat, storage : {"", "file", "memory"}]

\* The layout of nobody's making: a stream that the server was left with.
Found(n) == External /\ Layout(mode)[n] # Missing

\* The types of the variables.
Typed ==
    /\ age \in [Procs -> Ages]
    /\ mode \in Layouts \cup {"memory", "file", "temp"}
    /\ server \in {"down", "starting", "up"}
    /\ next \in 1..3 /\ starts \in Nat
    /\ streams \in [Names -> StreamConfig]
    /\ pc \in [Procs -> {"off", "info", "add", "update", "ready", "failed"}]
    /\ since \in [Procs -> 0..starts]
    /\ at \in [Procs -> 1..3]
    /\ seen \in [Procs -> StreamConfig]
    /\ why \in [Procs -> {"none", "request", "name in use", "not found", "overlap"}]
    /\ blind \in [Procs -> BOOLEAN]

\* An external server is up all the time; one that starts is in Memory mode.
ServerRuns ==
    /\ External => server = "up" /\ starts = 0
    /\ server = "starting" => mode = "memory"

\* A stream that the server was left with stays, with filters that it was left with or
\* that a process wants; any other one is as some process wants it, or as the embedded
\* server does.
Origin ==
    \A n \in Names :
        IF Found(n)
        THEN /\ streams[n] # Missing
             /\ mode # "swapped" =>
                   streams[n].subjects \subseteq
                       Wanted(n) \cup (CASE n = "ABC_MAILBOX" -> {eventsWildcard}
                                         [] n = "ABC_EVENTS" -> {Stray}
                                         [] n = "ABC_DLQ" -> {})
        ELSE \/ streams[n] = Missing
             \/ /\ Laid(n)
                /\ mode # "memory" => /\ streams[n].storage = "file"
                                      /\ \E q \in Procs : streams[n].age = age[q]

\* A process is about to change what is there, and to add what is not.
Asked ==
    \A p \in Procs :
        /\ pc[p] = "update" => Found(Specs[at[p]])
        /\ pc[p] = "add" => blind[p] \/ ~Found(Specs[at[p]])

\* A process has brought the streams before the one it is at into the layout that it
\* wants, and the embedded server those before the next one.
Progress ==
    /\ \A p \in Procs : since[p] = starts /\ server # "down" =>
          /\ pc[p] = "ready" => \A n \in Names : Laid(n)
          /\ pc[p] \in {"info", "add", "update"} => \A i \in 1..3 : i < at[p] => Laid(Specs[i])
    /\ mode = "memory" =>
          \A i \in 1..3 :
              server = "up" \/ (server = "starting" /\ i < next) =>
                  Laid(Specs[i]) /\ streams[Specs[i]].storage = "memory"

Topology == Typed /\ ServerRuns /\ Origin /\ Asked /\ Progress
-----------------------------------------------------------------------------
\* The three streams, and the order in which ensureStreams goes through them.
LEMMA NamesInOrder ==
    /\ Names = {"ABC_MAILBOX", "ABC_EVENTS", "ABC_DLQ"}
    /\ Specs[1] = "ABC_MAILBOX" /\ Specs[2] = "ABC_EVENTS" /\ Specs[3] = "ABC_DLQ"
    /\ \A i \in 1..3 : Specs[i] \in Names
    /\ \A n \in Names : \E i \in 1..3 : n = Specs[i]
  <1>1. Specs[1] = "ABC_MAILBOX" /\ Specs[2] = "ABC_EVENTS" /\ Specs[3] = "ABC_DLQ"
    BY DEF Specs
  <1>2. \A i : i \in 1..3 <=> i = 1 \/ i = 2 \/ i = 3
    OBVIOUS
  <1>3. Names = {"ABC_MAILBOX", "ABC_EVENTS", "ABC_DLQ"}
    BY <1>1, <1>2 DEF Names
  <1> QED
    BY <1>1, <1>2, <1>3

\* The place after one place, and the places up to it.
LEMMA UpToThree ==
    \A k \in 1..3 : /\ (IF k = 3 THEN 1 ELSE k + 1) \in 1..3
                    /\ \A i \in 1..3 : i <= k => i < k \/ i = k
                    /\ k = 3 => \A i \in 1..3 : i <= k
  OBVIOUS

\* What a process wants of a stream; a stream that has it is there.
LEMMA WantedIsThere ==
    ASSUME NEW n \in Names
    PROVE  /\ Wanted(n) \in SUBSET {inboxWildcard, eventsWildcard, dlqWildcard, Stray}
           /\ Wanted(n) # {}
           /\ Laid(n) => streams[n] # Missing
  <1>1. n = "ABC_MAILBOX" \/ n = "ABC_EVENTS" \/ n = "ABC_DLQ"
    BY NamesInOrder
  <1>2. /\ Wanted(n) \in SUBSET {inboxWildcard, eventsWildcard, dlqWildcard, Stray}
        /\ Wanted(n) # {}
    BY <1>1 DEF Wanted
  <1>3. Laid(n) => streams[n] # Missing
    <2>1. Missing.subjects = {}
      BY DEF Missing
    <2> QED
      BY <1>2, <2>1 DEF Laid
  <1> QED
    BY <1>2, <1>3

\* What Add and Precreate make is a configuration.
LEMMA ConfigIsTyped ==
    ASSUME NEW n \in Names, NEW g \in Nat, NEW st \in {"file", "memory"}
    PROVE  [subjects |-> Wanted(n), age |-> g, storage |-> st] \in StreamConfig
  BY WantedIsThere DEF StreamConfig

\* What the server may have been left with.
LEMMA LayoutIsTyped ==
    ASSUME mode \in Layouts
    PROVE  /\ Layout(mode) \in [Names -> StreamConfig]
           /\ NoStreams \in [Names -> StreamConfig]
           /\ \A n \in Names : mode # "swapped" /\ Layout(mode)[n] # Missing =>
                 Layout(mode)[n].subjects \subseteq
                       Wanted(n) \cup (CASE n = "ABC_MAILBOX" -> {eventsWildcard}
                                         [] n = "ABC_EVENTS" -> {Stray}
                                         [] n = "ABC_DLQ" -> {})
  <1>0. Missing \in StreamConfig /\ Missing.subjects = {}
    BY DEF Missing, StreamConfig
  <1>1. NoStreams \in [Names -> StreamConfig]
    BY <1>0 DEF NoStreams
  <1>2. \A S \in SUBSET {inboxWildcard, eventsWildcard, dlqWildcard, Stray} :
           Stream(S, "file") \in StreamConfig /\ Stream(S, "file").subjects = S
    BY DEF Stream, StreamConfig
  <1>3. mode \in {"empty", "legacy", "drifted", "stray", "swapped"}
    BY ConstantsAssumption
  <1>4. CASE mode = "empty"
    BY <1>0, <1>1, <1>4 DEF Layout, NoStreams
  <1>5. CASE mode = "legacy"
    <2>1. Layout(mode) = [NoStreams EXCEPT !["ABC_MAILBOX"] =
                             Stream({inboxWildcard, eventsWildcard}, "file")]
      BY <1>5 DEF Layout
    <2> QED
      BY <1>0, <1>1, <1>2, <2>1, NamesInOrder DEF NoStreams, Wanted
  <1>6. CASE mode = "drifted"
    <2>1. Layout(mode) = [NoStreams EXCEPT !["ABC_MAILBOX"] =
                             Stream({inboxWildcard, eventsWildcard}, "file"),
                                            !["ABC_EVENTS"] = Stream({Stray}, "file")]
      BY <1>6 DEF Layout, Stray
    <2> QED
      BY <1>0, <1>1, <1>2, <2>1, NamesInOrder DEF NoStreams, Wanted
  <1>7. CASE mode = "stray"
    <2>1. Layout(mode) = [n \in Names |-> Stream(Wanted(n) \cup
                                      (IF n = "ABC_EVENTS" THEN {Stray} ELSE {}), "file")]
      BY <1>7 DEF Layout, Stray
    <2>2. ASSUME NEW n \in Names
          PROVE  Wanted(n) \cup (IF n = "ABC_EVENTS" THEN {Stray} ELSE {})
                    \in SUBSET {inboxWildcard, eventsWildcard, dlqWildcard, Stray}
      BY WantedIsThere
    <2>3. \A n \in Names :
             /\ Layout(mode)[n] \in StreamConfig
             /\ Layout(mode)[n].subjects = Wanted(n) \cup (IF n = "ABC_EVENTS" THEN {Stray} ELSE {})
      BY <1>2, <2>1, <2>2
    <2>4. Layout(mode) \in [Names -> StreamConfig]
      BY <2>1, <2>3
    <2> QED
      BY <1>1, <2>3, <2>4, NamesInOrder
  <1>8. CASE mode = "swapped"
    <2>1. Layout(mode) = [NoStreams EXCEPT !["ABC_MAILBOX"] = Stream({eventsWildcard}, "file"),
                                            !["ABC_EVENTS"] = Stream({inboxWildcard}, "file")]
      BY <1>8 DEF Layout
    <2> QED
      BY <1>0, <1>1, <1>2, <1>8, <2>1, NamesInOrder DEF NoStreams
  <1> QED
    BY <1>3, <1>4, <1>5, <1>6, <1>7, <1>8

\* AddStream succeeds for a stream that is not there or is the same.
LEMMA Added ==
    ASSUME NEW n, NEW c, AddAnswer(n, c) = "ok"
    PROVE  streams[n] = Missing \/ streams[n] = c
  BY DEF AddAnswer

\* Topology holds at first.
LEMMA TopologyInit == Init => Topology
  <1> SUFFICES ASSUME Init PROVE Topology
    OBVIOUS
  <1>0. NoSeen \in StreamConfig /\ Missing \in StreamConfig
    BY DEF NoSeen, Missing, StreamConfig
  <1>1. streams \in [Names -> StreamConfig]
    BY <1>0, LayoutIsTyped DEF Init, External, NoStreams
  <1>2. Typed
    BY <1>0, <1>1 DEF Init, Typed
  <1>3. ServerRuns
    BY DEF Init, ServerRuns
  <1>4. Origin
    <2>1. CASE External
      BY <2>1, LayoutIsTyped DEF Init, Origin, Found, External
    <2>2. CASE ~External
      BY <2>2 DEF Init, Origin, Found, NoStreams
    <2> QED
      BY <2>1, <2>2
  <1>5. Asked
    BY DEF Init, Asked
  <1>6. Progress
    <2>1. mode = "memory" => server = "down"
      BY ConstantsAssumption DEF Init, External
    <2> QED
      BY <2>1 DEF Init, Progress
  <1> QED
    BY <1>2, <1>3, <1>4, <1>5, <1>6 DEF Topology
-----------------------------------------------------------------------------
\* The steps of a process that leave the streams as they are.
LEMMA LookStep ==
    ASSUME Topology, NEW p \in Procs, Connect(p) \/ Info(p) \/ Crash(p)
    PROVE  Topology'
  <1>0. /\ UNCHANGED <<age, mode, server, next, starts, streams>>
        /\ NoSeen \in StreamConfig
    BY DEF Connect, Info, Crash, serverVars, NoSeen, Missing, StreamConfig
  <1>1. (\A n \in Names : (Found(n) <=> Found(n)') /\ (Laid(n) <=> Laid(n)')) /\ ServerRuns' /\ Origin'
    BY <1>0 DEF Topology, ServerRuns, Origin, Found, External, Laid
  <1>2. /\ server' # "down" /\ mode' = "memory" =>
              \A i \in 1..3 : server' = "up" \/ (server' = "starting" /\ i < next') =>
                  Laid(Specs[i])' /\ streams'[Specs[i]].storage = "memory"
        /\ \A i \in 1..3 : Specs[i] \in Names
    BY <1>0, <1>1, NamesInOrder DEF Topology, Progress
  <1>3. CASE Connect(p)
    <2>1. /\ pc' = [pc EXCEPT ![p] = "info"] /\ since' = [since EXCEPT ![p] = starts]
          /\ at' = [at EXCEPT ![p] = 1] /\ why' = [why EXCEPT ![p] = "none"]
          /\ blind' = [blind EXCEPT ![p] = FALSE] /\ UNCHANGED seen
      BY <1>3 DEF Connect
    <2>2. Typed'
      <3>1. since' \in [Procs -> 0..starts]
        <4>1. starts \in Nat
          BY DEF Topology, Typed
        <4>2. starts \in 0..starts
          BY <4>1
        <4> QED
          BY <2>1, <4>2 DEF Topology, Typed
      <3>2. /\ pc' \in [Procs -> {"off", "info", "add", "update", "ready", "failed"}]
            /\ why' \in [Procs -> {"none", "request", "name in use", "not found", "overlap"}]
            /\ blind' \in [Procs -> BOOLEAN]
        BY <2>1 DEF Topology, Typed
      <3>3. at' \in [Procs -> 1..3]
        <4>1. 1 \in 1..3
          OBVIOUS
        <4> QED
          BY <2>1, <4>1 DEF Topology, Typed
      <3> QED
        BY <1>0, <2>1, <3>1, <3>2, <3>3 DEF Topology, Typed
    <2>3. Asked'
      BY <1>1, <2>1, <2>2, NamesInOrder DEF Topology, Typed, Asked
    <2>4. pc'[p] = "info" /\ at'[p] = 1
      BY <2>1 DEF Topology, Typed
    <2>5. \A q \in Procs : q # p => pc'[q] = pc[q] /\ at'[q] = at[q] /\ since'[q] = since[q]
      BY <2>1 DEF Topology, Typed
    <2>6. Progress'
      BY <1>0, <1>1, <1>2, <2>4, <2>5, NamesInOrder DEF Topology, Progress
    <2> QED
      BY <1>1, <2>2, <2>3, <2>6 DEF Topology
  <1>4. CASE Crash(p)
    <2>1. /\ pc' = [pc EXCEPT ![p] = "off"] /\ seen' = [seen EXCEPT ![p] = NoSeen]
          /\ UNCHANGED <<since, at, why, blind>>
      BY <1>4 DEF Crash
    <2>2. Typed'
      <3>1. /\ pc' \in [Procs -> {"off", "info", "add", "update", "ready", "failed"}]
            /\ seen' \in [Procs -> StreamConfig]
        BY <1>0, <2>1 DEF Topology, Typed
      <3> QED
        BY <1>0, <2>1, <3>1 DEF Topology, Typed
    <2>3. Asked'
      BY <1>1, <2>1, NamesInOrder DEF Topology, Typed, Asked
    <2>4. \A q \in Procs : pc'[q] \in {"off", pc[q]}
      BY <2>1 DEF Topology, Typed
    <2>5. Progress'
      BY <1>0, <1>1, <1>2, <2>1, <2>4, NamesInOrder DEF Topology, Progress
    <2> QED
      BY <1>1, <2>2, <2>3, <2>5 DEF Topology
  <1>5. CASE Info(p)
    <2> DEFINE n == Specs[at[p]]
    <2>0. at[p] \in 1..3 /\ n \in Names /\ pc[p] = "info" /\ UNCHANGED <<since, why>>
      BY <1>5, NamesInOrder DEF Info, Topology, Typed
    <2>1. CASE streams[n].subjects = Wanted(n) /\ Advance(p) /\ UNCHANGED blind
      <3>1. /\ at' = [at EXCEPT ![p] = IF @ = 3 THEN 1 ELSE @ + 1]
            /\ pc' = [pc EXCEPT ![p] = IF at[p] = 3 THEN "ready" ELSE "info"]
            /\ seen' = [seen EXCEPT ![p] = NoSeen]
        BY <2>1 DEF Advance
      <3>2. Typed'
        <4>1. /\ pc' \in [Procs -> {"off", "info", "add", "update", "ready", "failed"}]
              /\ seen' \in [Procs -> StreamConfig]
          BY <1>0, <3>1 DEF Topology, Typed
        <4>2. at' \in [Procs -> 1..3]
          <5>1. (IF at[p] = 3 THEN 1 ELSE at[p] + 1) \in 1..3
            BY <2>0
          <5> QED
            BY <3>1, <5>1 DEF Topology, Typed
        <4> QED
          BY <1>0, <2>0, <2>1, <4>1, <4>2 DEF Topology, Typed
      <3>3. Asked'
        BY <1>1, <2>1, <3>1, NamesInOrder DEF Topology, Typed, Asked
      <3>4. Laid(n)
        BY <2>1 DEF Laid
      <3>5. /\ \A q \in Procs : q # p => pc'[q] = pc[q] /\ at'[q] = at[q]
            /\ since' = since /\ server' = server /\ starts' = starts
            /\ at[p] = 3 => pc'[p] = "ready"
            /\ at[p] # 3 => pc'[p] = "info" /\ at'[p] = at[p] + 1
        BY <1>0, <2>0, <3>1 DEF Topology, Typed
      <3>6. ASSUME since[p] = starts, server # "down"
            PROVE  \A i \in 1..3 : i <= at[p] => Laid(Specs[i])
        BY <2>0, <3>4, <3>6 DEF Topology, Progress
      <3>7. Progress'
        BY <1>0, <1>1, <1>2, <2>0, <3>5, <3>6, NamesInOrder DEF Topology, Progress
      <3> QED
        BY <1>1, <3>2, <3>3, <3>7 DEF Topology
    <2>2. CASE /\ streams[n] # Missing /\ streams[n].subjects # Wanted(n)
               /\ seen' = [seen EXCEPT ![p] = streams[n]]
               /\ pc' = [pc EXCEPT ![p] = "update"]
               /\ UNCHANGED <<at, blind>>
      <3>1. Typed'
        BY <1>0, <2>0, <2>2 DEF Topology, Typed
      <3>2. Found(n)
        BY <2>0, <2>2 DEF Topology, Origin, Laid
      <3>3. Asked'
        BY <1>1, <2>0, <2>2, <3>2, NamesInOrder DEF Topology, Typed, Asked
      <3>4. \A q \in Procs : pc'[q] = pc[q] \/ (pc[q] = "info" /\ pc'[q] = "update")
        BY <2>0, <2>2 DEF Topology, Typed
      <3>5. Progress'
        BY <1>0, <1>1, <1>2, <2>0, <2>2, <3>4, NamesInOrder DEF Topology, Progress
      <3> QED
        BY <1>1, <3>1, <3>3, <3>5 DEF Topology
    <2>3. CASE /\ blind' = [blind EXCEPT ![p] = @ \/ streams[n] # Missing]
               /\ pc' = [pc EXCEPT ![p] = "add"]
               /\ UNCHANGED <<at, seen>>
      <3>1. Typed'
        BY <1>0, <2>0, <2>3 DEF Topology, Typed
      <3>2. streams[n] = Missing => ~Found(n)
        BY <2>0 DEF Topology, Origin
      <3>3. blind'[p] = (blind[p] \/ streams[n] # Missing)
        BY <2>3 DEF Topology, Typed
      <3>4. \A q \in Procs : q # p => pc'[q] = pc[q] /\ blind'[q] = blind[q] /\ at'[q] = at[q]
        BY <2>3 DEF Topology, Typed
      <3>5. pc'[p] = "add" /\ at'[p] = at[p]
        BY <2>3 DEF Topology, Typed
      <3>6. Asked'
        <4>1. \A q \in Procs : at[q] \in 1..3
          BY DEF Topology, Typed
        <4>2. \A q \in Procs : Specs[at[q]] \in Names
          BY <4>1, NamesInOrder
        <4> QED
          BY <1>1, <3>2, <3>3, <3>4, <3>5, <4>2 DEF Topology, Asked
      <3>7. Progress'
        BY <1>0, <1>1, <1>2, <2>0, <2>3, <3>4, <3>5, NamesInOrder DEF Topology, Progress
      <3> QED
        BY <1>1, <3>1, <3>6, <3>7 DEF Topology
    <2> QED
      BY <1>5, <2>1, <2>2, <2>3 DEF Info
  <1> QED
    BY <1>3, <1>4, <1>5

\* Where a process is after a change: at the next stream, at the end, or failed.
LEMMA ChangedPlace ==
    ASSUME Typed, NEW p \in Procs, NEW answer, Changed(p, answer),
           answer \in {"ok", "name in use", "not found", "overlap"}
    PROVE  /\ pc' \in [Procs -> {"off", "info", "add", "update", "ready", "failed"}]
           /\ at' \in [Procs -> 1..3]
           /\ seen' \in [Procs -> StreamConfig]
           /\ why' \in [Procs -> {"none", "request", "name in use", "not found", "overlap"}]
           /\ \A q \in Procs : q # p => pc'[q] = pc[q] /\ at'[q] = at[q] /\ why'[q] = why[q]
           /\ \/ answer = "ok" /\ at[p] = 3 /\ pc'[p] = "ready"
              \/ answer = "ok" /\ at[p] # 3 /\ pc'[p] = "info" /\ at'[p] = at[p] + 1
              \/ /\ pc'[p] = "failed"
                 /\ \/ why'[p] = answer /\ answer # "ok"
                    \/ why'[p] = "request" /\ "reply" \in Faults
  <1>0. NoSeen \in StreamConfig
    BY DEF NoSeen, Missing, StreamConfig
  <1>1. CASE Advance(p) /\ answer = "ok" /\ UNCHANGED why
    <2>1. /\ at' = [at EXCEPT ![p] = IF @ = 3 THEN 1 ELSE @ + 1]
          /\ pc' = [pc EXCEPT ![p] = IF at[p] = 3 THEN "ready" ELSE "info"]
          /\ seen' = [seen EXCEPT ![p] = NoSeen]
      BY <1>1 DEF Advance
    <2>2. at[p] \in 1..3
      BY DEF Typed
    <2>3. (IF at[p] = 3 THEN 1 ELSE at[p] + 1) \in 1..3
      BY <2>2, UpToThree
    <2>4. at' \in [Procs -> 1..3]
      BY <2>1, <2>3 DEF Typed
    <2>5. /\ pc' \in [Procs -> {"off", "info", "add", "update", "ready", "failed"}]
          /\ seen' \in [Procs -> StreamConfig]
      BY <1>0, <2>1 DEF Typed
    <2>6. why' \in [Procs -> {"none", "request", "name in use", "not found", "overlap"}]
      BY <1>1 DEF Typed
    <2>7. /\ \A q \in Procs : q # p => pc'[q] = pc[q] /\ at'[q] = at[q] /\ why'[q] = why[q]
          /\ at[p] = 3 => pc'[p] = "ready"
          /\ at[p] # 3 => pc'[p] = "info" /\ at'[p] = at[p] + 1
      BY <1>1, <2>1 DEF Typed
    <2> QED
      BY <1>1, <2>4, <2>5, <2>6, <2>7
  <1>2. ASSUME NEW error, Fail(p, error),
               \/ error = answer /\ answer # "ok"
               \/ error = "request" /\ "reply" \in Faults
        PROVE  /\ pc' \in [Procs -> {"off", "info", "add", "update", "ready", "failed"}]
               /\ at' \in [Procs -> 1..3]
               /\ seen' \in [Procs -> StreamConfig]
               /\ why' \in [Procs -> {"none", "request", "name in use", "not found", "overlap"}]
               /\ \A q \in Procs : q # p => pc'[q] = pc[q] /\ at'[q] = at[q] /\ why'[q] = why[q]
               /\ pc'[p] = "failed" /\ why'[p] = error
    <2>1. /\ pc' = [pc EXCEPT ![p] = "failed"] /\ why' = [why EXCEPT ![p] = error]
          /\ seen' = [seen EXCEPT ![p] = NoSeen] /\ UNCHANGED at
      BY <1>2 DEF Fail
    <2>2. error \in {"request", "name in use", "not found", "overlap"}
      BY <1>2
    <2>3. /\ pc' \in [Procs -> {"off", "info", "add", "update", "ready", "failed"}]
          /\ at' \in [Procs -> 1..3]
          /\ seen' \in [Procs -> StreamConfig]
      BY <1>0, <2>1 DEF Typed
    <2>4. why' \in [Procs -> {"none", "request", "name in use", "not found", "overlap"}]
      BY <2>1, <2>2 DEF Typed
    <2>5. /\ \A q \in Procs : q # p => pc'[q] = pc[q] /\ at'[q] = at[q] /\ why'[q] = why[q]
          /\ pc'[p] = "failed" /\ why'[p] = error
      BY <2>1 DEF Typed
    <2> QED
      BY <2>3, <2>4, <2>5
  <1> QED
    BY <1>1, <1>2 DEF Changed

\* A change that keeps what is laid, and lays the stream at hand if it succeeds.
LEMMA ChangedStep ==
    ASSUME Topology, NEW p \in Procs, NEW answer, Changed(p, answer),
           answer \in {"ok", "name in use", "not found", "overlap"},
           pc[p] \in {"add", "update"},
           UNCHANGED <<age, mode, server, next, starts, since, blind>>,
           streams' \in [Names -> StreamConfig], Origin',
           NEW n \in Names, n = Specs[at[p]], answer = "ok" => Laid(n)',
           \A m \in Names : Laid(m) => /\ Laid(m)'
                                       /\ mode = "memory" /\ streams[m].storage = "memory" =>
                                             streams'[m].storage = "memory"
    PROVE  Topology'
  <1>1. /\ pc' \in [Procs -> {"off", "info", "add", "update", "ready", "failed"}]
        /\ at' \in [Procs -> 1..3]
        /\ seen' \in [Procs -> StreamConfig]
        /\ why' \in [Procs -> {"none", "request", "name in use", "not found", "overlap"}]
        /\ \A q \in Procs : q # p => pc'[q] = pc[q] /\ at'[q] = at[q]
        /\ \/ answer = "ok" /\ at[p] = 3 /\ pc'[p] = "ready"
           \/ answer = "ok" /\ at[p] # 3 /\ pc'[p] = "info" /\ at'[p] = at[p] + 1
           \/ pc'[p] = "failed"
    BY ChangedPlace DEF Topology
  <1>2. Typed'
    BY <1>1 DEF Topology, Typed
  <1>3. ServerRuns' /\ \A m : Found(m) <=> Found(m)'
    BY DEF Topology, ServerRuns, Found, External
  <1>4. Asked'
    BY <1>1, <1>3 DEF Topology, Asked
  <1>5. ASSUME since[p] = starts, server # "down", answer = "ok"
        PROVE  \A i \in 1..3 : i <= at[p] => Laid(Specs[i])'
    <2>1. at[p] \in 1..3
      BY DEF Topology, Typed
    <2>2. \A i \in 1..3 : i < at[p] => Laid(Specs[i])'
      BY <1>5, NamesInOrder DEF Topology, Progress
    <2>3. \A i \in 1..3 : i <= at[p] => i < at[p] \/ i = at[p]
      BY <2>1, UpToThree
    <2> QED
      BY <1>5, <2>2, <2>3
  <1>6. ASSUME NEW q \in Procs, since[q] = starts, server # "down"
        PROVE  /\ pc'[q] = "ready" => \A m \in Names : Laid(m)'
               /\ pc'[q] \in {"info", "add", "update"} =>
                     \A i \in 1..3 : i < at'[q] => Laid(Specs[i])'
    <2>1. CASE q # p
      BY <1>1, <1>6, <2>1, NamesInOrder DEF Topology, Progress
    <2>2. CASE q = p
      <3>1. at[p] \in 1..3 /\ \A m \in Names : \E i \in 1..3 : m = Specs[i]
        BY NamesInOrder DEF Topology, Typed
      <3>2. CASE answer = "ok" /\ at[p] = 3 /\ pc'[p] = "ready"
        <4>1. \A i \in 1..3 : i <= at[p]
          BY <3>2
        <4> QED
          BY <1>5, <1>6, <2>2, <3>1, <3>2, <4>1
      <3>3. CASE answer = "ok" /\ at[p] # 3 /\ pc'[p] = "info" /\ at'[p] = at[p] + 1
        <4>1. \A i \in 1..3 : i < at'[p] => i <= at[p]
          BY <3>1, <3>3
        <4> QED
          BY <1>5, <1>6, <2>2, <3>3, <4>1
      <3> QED
        BY <1>1, <2>2, <3>2, <3>3
    <2> QED
      BY <2>1, <2>2
  <1>7. Progress'
    BY <1>6, NamesInOrder DEF Topology, Progress
  <1> QED
    BY <1>2, <1>3, <1>4, <1>7 DEF Topology

\* Topology is kept: a stream is added.
LEMMA AddStep ==
    ASSUME Topology, NEW p \in Procs, Add(p)
    PROVE  Topology'
  <1>0. PICK n, config : /\ n = Specs[at[p]]
                         /\ config = [subjects |-> Wanted(n), age |-> age[p], storage |-> "file"]
    OBVIOUS
  <1>1. /\ pc[p] = "add" /\ Changed(p, AddAnswer(n, config))
        /\ streams' = IF AddAnswer(n, config) = "ok" THEN [streams EXCEPT ![n] = config]
                      ELSE streams
        /\ UNCHANGED <<age, mode, server, next, starts, since, blind>>
    BY <1>0 DEF Add, serverVars
  <1>2. n \in Names /\ streams \in [Names -> StreamConfig]
    BY <1>0, NamesInOrder DEF Topology, Typed
  <1>3. config \in StreamConfig /\ config.subjects = Wanted(n) /\ config.storage = "file"
        /\ config.age = age[p]
    <2>1. age[p] \in Nat
      BY ConstantsAssumption DEF Topology, Typed
    <2> QED
      BY <1>0, <1>2, <2>1, ConfigIsTyped
  <1>4. AddAnswer(n, config) \in {"ok", "name in use", "not found", "overlap"}
    BY DEF AddAnswer
  <1>5. CASE AddAnswer(n, config) # "ok"
    <2>1. streams' = streams
      BY <1>1, <1>5
    <2>2. Origin'
      BY <1>1, <2>1 DEF Topology, Origin, Found, External, Laid
    <2> QED
      BY <1>0, <1>1, <1>2, <1>4, <1>5, <2>1, <2>2, ChangedStep DEF Laid
  <1>6. CASE AddAnswer(n, config) = "ok"
    <2>1. streams' = [streams EXCEPT ![n] = config]
      BY <1>1, <1>6
    <2>2. streams[n] = Missing \/ streams[n] = config
      BY <1>6, Added
    <2>3. /\ streams' \in [Names -> StreamConfig] /\ streams'[n] = config /\ Laid(n)'
          /\ \A m \in Names : m # n => streams'[m] = streams[m]
      BY <1>2, <1>3, <2>1 DEF Laid
    <2>4. Laid(n) => streams[n] = config
      BY <1>2, <2>2, WantedIsThere
    <2>5. \A m \in Names : Laid(m) => Laid(m)' /\ streams'[m] = streams[m]
      BY <2>3, <2>4 DEF Laid
    <2>6. Origin'
      <3>1. ASSUME NEW m \in Names, m # n
            PROVE  (Laid(m) <=> Laid(m)') /\ streams'[m] = streams[m]
        BY <2>3, <3>1 DEF Laid
      <3>2. Found(n) => streams[n] = config /\ streams[n] # Missing
        BY <1>2, <2>2 DEF Topology, Origin
      <3> QED
        BY <1>1, <1>3, <2>3, <3>1, <3>2 DEF Topology, Origin, Found, External
    <2> QED
      BY <1>0, <1>1, <1>2, <1>4, <1>6, <2>3, <2>5, <2>6, ChangedStep
  <1> QED
    BY <1>5, <1>6

\* Topology is kept: a stream is updated.
LEMMA UpdateStep ==
    ASSUME Topology, NEW p \in Procs, Update(p)
    PROVE  Topology'
  <1>0. PICK n, config : n = Specs[at[p]] /\ config = [seen[p] EXCEPT !.subjects = Wanted(n)]
    OBVIOUS
  <1>1. /\ pc[p] = "update" /\ Changed(p, UpdateAnswer(n, Wanted(n)))
        /\ streams' = IF UpdateAnswer(n, Wanted(n)) = "ok" THEN [streams EXCEPT ![n] = config]
                      ELSE streams
        /\ UNCHANGED <<age, mode, server, next, starts, since, blind>>
    BY <1>0 DEF Update, serverVars
  <1>2. n \in Names /\ streams \in [Names -> StreamConfig] /\ Found(n)
    BY <1>0, <1>1, NamesInOrder DEF Topology, Typed, Asked
  <1>3. config \in StreamConfig /\ config.subjects = Wanted(n)
    BY <1>0, <1>2, WantedIsThere DEF Topology, Typed, StreamConfig
  <1>4. UpdateAnswer(n, Wanted(n)) \in {"ok", "name in use", "not found", "overlap"}
    BY DEF UpdateAnswer
  <1>5. CASE UpdateAnswer(n, Wanted(n)) # "ok"
    <2>1. streams' = streams
      BY <1>1, <1>5
    <2>2. Origin'
      BY <1>1, <2>1 DEF Topology, Origin, Found, External, Laid
    <2> QED
      BY <1>0, <1>1, <1>2, <1>4, <1>5, <2>1, <2>2, ChangedStep DEF Laid
  <1>6. CASE UpdateAnswer(n, Wanted(n)) = "ok"
    <2>1. /\ streams' = [streams EXCEPT ![n] = config]
          /\ mode # "memory"
      BY <1>1, <1>2, <1>6, ConstantsAssumption DEF Found, External
    <2>3. /\ streams' \in [Names -> StreamConfig] /\ streams'[n] = config /\ Laid(n)'
          /\ \A m \in Names : m # n => streams'[m] = streams[m]
      BY <1>2, <1>3, <2>1 DEF Laid
    <2>5. \A m \in Names : Laid(m) => Laid(m)'
      BY <2>3 DEF Laid
    <2>6. Origin'
      <3>1. ASSUME NEW m \in Names, m # n
            PROVE  (Laid(m) <=> Laid(m)') /\ streams'[m] = streams[m]
        BY <2>3, <3>1 DEF Laid
      <3>2. streams'[n] # Missing
        <4>1. Missing.subjects = {} /\ Wanted(n) # {}
          BY <1>2, WantedIsThere DEF Missing
        <4> QED
          BY <1>3, <2>3, <4>1
      <3> QED
        BY <1>1, <1>2, <1>3, <2>3, <3>1, <3>2 DEF Topology, Origin, Found, External
    <2> QED
      BY <1>0, <1>1, <1>2, <1>4, <1>6, <2>1, <2>3, <2>5, <2>6, ChangedStep
  <1> QED
    BY <1>5, <1>6
-----------------------------------------------------------------------------
\* The start of the embedded server: nobody's connect is one of this start.
LEMMA StartStep ==
    ASSUME Topology, Start
    PROVE  Topology'
  <1>1. /\ ~External /\ server = "down" /\ starts' = starts + 1 /\ next' = 1
        /\ server' = IF mode = "memory" THEN "starting" ELSE "up"
        /\ UNCHANGED <<age, mode, streams, pc, since, at, seen, why, blind>>
    BY DEF Start, connectVars
  <1>2. starts \in Nat /\ starts' \in Nat /\ next' \in 1..3 /\ \A q \in Procs : since[q] \in 0..starts
    <2>1. starts \in Nat /\ \A q \in Procs : since[q] \in 0..starts
      BY DEF Topology, Typed
    <2> QED
      BY <1>1, <2>1
  <1>3. \A q \in Procs : since[q] \in 0..starts' /\ since[q] # starts'
    BY <1>1, <1>2
  <1>4. since' \in [Procs -> 0..starts']
    BY <1>1, <1>3 DEF Topology, Typed
  <1>5. Typed'
    <2>1. server' \in {"down", "starting", "up"}
      BY <1>1
    <2> QED
      BY <1>1, <1>2, <1>4, <2>1 DEF Topology, Typed
  <1>6. ServerRuns' /\ Origin' /\ Asked'
    BY <1>1 DEF Topology, ServerRuns, Origin, Asked, Found, External, Laid
  <1>7. Progress'
    BY <1>1, <1>3 DEF Progress
  <1> QED
    BY <1>5, <1>6, <1>7 DEF Topology

\* Its end: what was there may be gone.
LEMMA ShutdownStep ==
    ASSUME Topology, ~External, Shutdown, UNCHANGED <<age, mode, starts, connectVars>>
    PROVE  Topology'
  <1>1. /\ server' = "down" /\ next' = 1
        /\ streams' = streams \/ streams' = NoStreams
        /\ UNCHANGED <<age, mode, starts, pc, since, at, seen, why, blind>>
    BY DEF Shutdown, connectVars
  <1>2. NoStreams \in [Names -> StreamConfig] /\ \A n \in Names : NoStreams[n] = Missing
    BY DEF NoStreams, Missing, StreamConfig
  <1>3. Typed'
    <2>1. next' \in 1..3 /\ streams' \in [Names -> StreamConfig]
      <3>1. streams \in [Names -> StreamConfig]
        BY DEF Topology, Typed
      <3> QED
        BY <1>1, <1>2, <3>1
    <2> QED
      BY <1>1, <2>1 DEF Topology, Typed
  <1>4. ServerRuns' /\ Asked' /\ Progress'
    BY <1>1 DEF Topology, ServerRuns, Asked, Progress, Found, External
  <1>5. Origin'
    BY <1>1, <1>2 DEF Topology, Origin, Found, External, Laid
  <1> QED
    BY <1>3, <1>4, <1>5 DEF Topology

\* In Memory mode it creates the streams, one after the other, or ends.
LEMMA PrecreateStep ==
    ASSUME Topology, Precreate
    PROVE  Topology'
  <1>0. PICK n, config : n = Specs[next] /\ config = [subjects |-> Wanted(n), age |-> 24,
                                                      storage |-> "memory"]
    OBVIOUS
  <1>1. /\ server = "starting" /\ UNCHANGED <<age, mode, starts, connectVars>>
        /\ UNCHANGED <<pc, since, at, seen, why, blind>>
    BY DEF Precreate, connectVars
  <1>2. mode = "memory" /\ ~External
    BY <1>1, ConstantsAssumption DEF Topology, ServerRuns, External
  <1>3. CASE Shutdown
    BY <1>1, <1>2, <1>3, ShutdownStep
  <1>4. CASE /\ AddAnswer(n, config) = "ok"
             /\ streams' = [streams EXCEPT ![n] = config]
             /\ IF next = 3 THEN server' = "up" /\ next' = 1
                ELSE next' = next + 1 /\ UNCHANGED server
    <2>1. /\ next \in 1..3 /\ n \in Names /\ streams \in [Names -> StreamConfig]
          /\ config \in StreamConfig
      BY <1>0, NamesInOrder, ConfigIsTyped DEF Topology, Typed
    <2>2. /\ streams'[n] = config /\ \A m \in Names : m # n => streams'[m] = streams[m]
          /\ streams' \in [Names -> StreamConfig]
          /\ config.subjects = Wanted(n) /\ config.storage = "memory"
      BY <1>0, <1>4, <2>1
    <2>3. /\ Laid(n)' /\ streams'[n].storage = "memory"
          /\ \A m \in Names : Laid(m) => Laid(m)'
          /\ \A m \in Names : streams[m].storage = "memory" => streams'[m].storage = "memory"
      BY <2>2 DEF Laid
    <2>4. next' \in 1..3 /\ server' \in {"starting", "up"}
      BY <1>1, <1>4, <2>1, UpToThree
    <2>5. Typed'
      BY <1>1, <2>2, <2>4 DEF Topology, Typed
    <2>6. ServerRuns' /\ Asked'
      BY <1>1, <1>2 DEF Topology, ServerRuns, Asked, Found, External
    <2>7. Origin'
      BY <1>1, <1>2, <2>2, <2>3 DEF Topology, Origin, Found, External, Laid
    <2>8. \A i \in 1..3 : i <= next => Laid(Specs[i])' /\ streams'[Specs[i]].storage = "memory"
      <3>1. \A i \in 1..3 : i <= next => i < next \/ i = next
        BY <2>1, UpToThree
      <3>2. \A i \in 1..3 : i < next => Laid(Specs[i])' /\ streams'[Specs[i]].storage = "memory"
        BY <1>1, <1>2, <2>3, NamesInOrder DEF Topology, Progress
      <3> QED
        BY <1>0, <2>3, <3>1, <3>2
    <2>9. \A i \in 1..3 : server' = "up" \/ (server' = "starting" /\ i < next') => i <= next
      <3>1. CASE next = 3
        BY <3>1
      <3>2. CASE next # 3
        <4>1. next' = next + 1
          BY <1>4, <3>2
        <4>2. \A i \in 1..3 : i < next' => i <= next
          BY <2>1, <4>1
        <4> QED
          BY <1>1, <1>4, <3>2, <4>2
      <3> QED
        BY <3>1, <3>2
    <2>10. \A q \in Procs : since'[q] = starts' /\ server' # "down" =>
              /\ pc'[q] = "ready" => \A m \in Names : Laid(m)'
              /\ pc'[q] \in {"info", "add", "update"} =>
                    \A i \in 1..3 : i < at'[q] => Laid(Specs[i])'
      BY <1>1, <2>3, NamesInOrder DEF Topology, Progress
    <2>11. Progress'
      BY <2>8, <2>9, <2>10 DEF Progress
    <2> QED
      BY <2>5, <2>6, <2>7, <2>11 DEF Topology
  <1> QED
    BY <1>0, <1>3, <1>4 DEF Precreate

\* Topology holds in every state of the specification.
LEMMA TopologyStep ==
    ASSUME Topology, [Next]_vars
    PROVE  Topology'
  <1>1. CASE UNCHANGED <<age, serverVars, streams, connectVars>>
    <2>1. /\ UNCHANGED <<age, mode, server, next, starts, streams, pc, since, at, seen>>
          /\ UNCHANGED <<why, blind>>
      BY <1>1 DEF serverVars, connectVars
    <2> QED
      BY <2>1 DEF Topology, Typed, ServerRuns, Origin, Asked, Progress, Found, External, Laid
  <1>2. CASE Stop
    BY <1>2, ShutdownStep DEF Stop
  <1>3. ASSUME NEW n \in Names, Expire(n)
        PROVE  UNCHANGED <<age, serverVars, streams, connectVars>>
    BY <1>3 DEF Expire
  <1>4. ASSUME NEW p \in Procs,
               \/ \E ch \in Channels : Publish(p, ch) \/ Replay(p, ch)
               \/ Reading(p)
        PROVE  UNCHANGED <<age, serverVars, streams, connectVars>>
    BY <1>4 DEF Publish, Replay, Reading, ReplayFind, ReplayRead, ReplayAgain, ReplayEnd,
                   ReplayReturn
  <1>5. CASE UNCHANGED vars
    BY <1>1, <1>5 DEF vars
  <1> QED
    BY <1>1, <1>2, <1>3, <1>4, <1>5, LookStep, AddStep, UpdateStep, StartStep, PrecreateStep
       DEF Next

\* Topology is an invariant.
LEMMA TopologyAlways == Spec => []Topology
  BY TopologyInit, TopologyStep, PTL DEF Spec

\* Once a process is connected, the three streams have the layout that it wants for as
\* long as the server runs, whoever else connects, fails or dies half way, and whatever
\* the server was left with; a server that Start has returned in Memory mode has it too,
\* all of it in memory.
THEOREM ReadyHolds == Spec => []Ready
  <1>1. Topology => Ready
    <2>1. \A n \in Names : \E i \in 1..3 : n = Specs[i]
      BY NamesInOrder
    <2> QED
      BY <2>1 DEF Topology, Progress, Ready
  <1> QED
    BY <1>1, TopologyAlways, PTL
-----------------------------------------------------------------------------
\* Filters with different third tokens are apart.
LEMMA ApartAtThree ==
    ASSUME NEW f, NEW g, Len(f) \in Nat, Len(g) \in Nat, Len(f) >= 3, Len(g) >= 3,
           \A i \in 1..3 : f[i] # ">" /\ g[i] # ">",
           f[3] # g[3], f[3] # "*", g[3] # "*"
    PROVE  ~Overlap(f, g)
  <1> SUFFICES ASSUME NEW k \in 0..Len(f), k <= Len(g),
                      \A i \in 1..k : ">" \notin {f[i], g[i]} /\ (f[i] = g[i] \/ "*" \in {f[i], g[i]}),
                      \/ k = Len(f) /\ k = Len(g)
                      \/ k < Len(f) /\ k < Len(g) /\ ">" \in {f[k + 1], g[k + 1]}
               PROVE  FALSE
    BY DEF Overlap
  <1>1. k < 3
    <2>1. k >= 3 => 3 \in 1..k
      OBVIOUS
    <2> QED
      BY <2>1
  <1>2. k + 1 \in 1..3 /\ k # Len(f)
    BY <1>1
  <1> QED
    BY <1>2

\* So are the streams' filters, and the one that somebody added.
LEMMA FiltersApart ==
    ASSUME NEW s \in {inboxWildcard, eventsWildcard, dlqWildcard, Stray},
           NEW t \in {inboxWildcard, eventsWildcard, dlqWildcard}, s # t
    PROVE  ~Overlap(s, t)
  <1>1. /\ Len(inboxWildcard) = 4 /\ inboxWildcard[1] = "abc" /\ inboxWildcard[2] = "*"
        /\ inboxWildcard[3] = "mailbox"
    BY DEF inboxWildcard
  <1>2. /\ Len(eventsWildcard) = 5 /\ eventsWildcard[1] = "abc" /\ eventsWildcard[2] = "*"
        /\ eventsWildcard[3] = "session"
    BY DEF eventsWildcard
  <1>3. /\ Len(dlqWildcard) = 4 /\ dlqWildcard[1] = "abc" /\ dlqWildcard[2] = "*"
        /\ dlqWildcard[3] = "dlq"
    BY DEF dlqWildcard
  <1>4. \A i : i \in 1..3 <=> i = 1 \/ i = 2 \/ i = 3
    OBVIOUS
  <1>5. CASE s # Stray
    <2>1. \A f \in {inboxWildcard, eventsWildcard, dlqWildcard} :
             /\ Len(f) \in Nat /\ Len(f) >= 3 /\ \A i \in 1..3 : f[i] # ">"
             /\ f[3] # "*"
      BY <1>1, <1>2, <1>3, <1>4
    <2>2. s[3] # t[3]
      BY <1>1, <1>2, <1>3, <1>5
    <2> QED
      BY <1>5, <2>1, <2>2, ApartAtThree
  <1>6. CASE s = Stray
    <2>1. Len(s) = 2 /\ s[1] = "abc" /\ s[2] = "stray"
      BY <1>6 DEF Stray
    <2>2. t[1] = "abc" /\ t[2] = "*" /\ Len(t) \in {4, 5}
      BY <1>1, <1>2, <1>3
    <2> SUFFICES ASSUME NEW k \in 0..2,
                        \/ k = 2 /\ k = Len(t)
                        \/ k < 2 /\ k < Len(t) /\ ">" \in {s[k + 1], t[k + 1]}
                 PROVE  FALSE
      BY <2>1 DEF Overlap
    <2>3. k = 0 \/ k = 1
      BY <2>2
    <2> QED
      BY <2>1, <2>2, <2>3
  <1> QED
    BY <1>5, <1>6

\* Whoever changes a stream finds none of its filters in another stream: the mailbox has
\* given the events away before the stream of events asks for them.
LEMMA NothingOverlaps ==
    ASSUME Topology, NEW p \in Procs, pc[p] \in {"add", "update"}, mode # "swapped"
    PROVE  ~Overlaps(Specs[at[p]], Wanted(Specs[at[p]]))
  <1> DEFINE n == Specs[at[p]]
  <1>1. at[p] \in 1..3 /\ n \in Names /\ streams \in [Names -> StreamConfig]
    BY NamesInOrder DEF Topology, Typed
  <1> SUFFICES ASSUME NEW m \in Names, m # n, NEW s \in streams[m].subjects,
                      NEW t \in Wanted(n)
               PROVE  ~Overlap(s, t)
    BY DEF Overlaps
  <1>2. \/ s \in Wanted(m)
        \/ m = "ABC_MAILBOX" /\ s = eventsWildcard /\ Found(m)
        \/ m = "ABC_EVENTS" /\ s = Stray
    <2>1. streams[m] # Missing
      <3>1. Missing.subjects = {}
        BY DEF Missing
      <3> QED
        BY <3>1
    <2>2. CASE Found(m)
      <3>1. streams[m].subjects \subseteq
               Wanted(m) \cup (CASE m = "ABC_MAILBOX" -> {eventsWildcard}
                                 [] m = "ABC_EVENTS" -> {Stray}
                                 [] m = "ABC_DLQ" -> {})
        BY <2>2 DEF Topology, Origin
      <3> QED
        BY <2>2, <3>1, NamesInOrder
    <2>3. CASE ~Found(m)
      BY <2>1, <2>3 DEF Topology, Origin, Laid
    <2> QED
      BY <2>2, <2>3
  <1>3. m = "ABC_MAILBOX" /\ Found(m) /\ n = "ABC_EVENTS" => streams[m].subjects = Wanted(m)
    <2>1. Found(m) => server # "down" /\ since[p] = starts
      <3>1. since[p] \in 0..starts /\ (Found(m) => server = "up" /\ starts = 0)
        BY DEF Topology, Typed, ServerRuns, Found
      <3> QED
        BY <3>1
    <2>2. n = "ABC_EVENTS" => 1 < at[p]
      BY <1>1, NamesInOrder
    <2> QED
      BY <2>1, <2>2, NamesInOrder DEF Topology, Progress, Laid
  <1>4. /\ t \in {inboxWildcard, eventsWildcard, dlqWildcard}
        /\ s \in {inboxWildcard, eventsWildcard, dlqWildcard, Stray}
    BY <1>1, <1>2, NamesInOrder DEF Wanted
  <1>5. /\ inboxWildcard # eventsWildcard /\ inboxWildcard # dlqWildcard
        /\ eventsWildcard # dlqWildcard
        /\ Stray # inboxWildcard /\ Stray # eventsWildcard /\ Stray # dlqWildcard
    <2>1. inboxWildcard[3] = "mailbox" /\ eventsWildcard[3] = "session" /\ dlqWildcard[3] = "dlq"
      BY DEF inboxWildcard, eventsWildcard, dlqWildcard
    <2>2. Stray[2] = "stray" /\ inboxWildcard[2] = "*" /\ eventsWildcard[2] = "*" /\ dlqWildcard[2] = "*"
      BY DEF Stray, inboxWildcard, eventsWildcard, dlqWildcard
    <2> QED
      BY <2>1, <2>2
  <1>6. s # t
    <2>1. CASE s \in Wanted(m)
      BY <1>1, <1>5, <2>1, NamesInOrder DEF Wanted
    <2>2. CASE m = "ABC_MAILBOX" /\ s = eventsWildcard /\ Found(m)
      BY <1>1, <1>3, <1>5, <2>2, NamesInOrder DEF Wanted
    <2>3. CASE s = Stray
      BY <1>4, <1>5, <2>3
    <2> QED
      BY <1>2, <2>1, <2>2, <2>3
  <1> QED
    BY <1>4, <1>6, FiltersApart

\* The cause of an error that a process p reports.
Cause(p, error) ==
    CASE error = "request" -> "reply" \in Faults
      [] error = "name in use" -> \/ blind[p]
                                  \/ \E q \in Procs : age[q] # age[p]
                                  \/ mode = "memory"
      [] error = "overlap" -> mode = "swapped"
      [] OTHER -> FALSE

\* A change is refused for a cause.
LEMMA AnswerHasCause ==
    ASSUME Topology, NEW p \in Procs, Add(p) \/ Update(p),
           pc'[p] = "failed"
    PROVE  Cause(p, why'[p])
  <1> DEFINE n == Specs[at[p]]
             config == [subjects |-> Wanted(n), age |-> age[p], storage |-> "file"]
  <1>1. n \in Names /\ streams[n] \in StreamConfig
    BY NamesInOrder DEF Topology, Typed
  <1>2. CASE Add(p)
    <2>1. Changed(p, AddAnswer(n, config)) /\ pc[p] = "add"
      BY <1>2 DEF Add
    <2>2. AddAnswer(n, config) \in {"ok", "name in use", "overlap"}
      BY DEF AddAnswer
    <2>3. \/ why'[p] = AddAnswer(n, config) /\ why'[p] # "ok"
          \/ why'[p] = "request" /\ "reply" \in Faults
      BY <2>1, <2>2, ChangedPlace DEF Topology
    <2>4. AddAnswer(n, config) = "overlap" => Overlaps(n, Wanted(n))
      BY DEF AddAnswer
    <2>5. CASE AddAnswer(n, config) = "name in use"
      <3>1. streams[n] # Missing /\ streams[n] # config
        BY <2>5 DEF AddAnswer
      <3>2. CASE ~blind[p] /\ mode # "memory"
        <4>1. /\ streams[n].subjects = Wanted(n) /\ streams[n].storage = "file"
              /\ \E q \in Procs : streams[n].age = age[q]
          BY <1>1, <2>1, <3>1, <3>2 DEF Topology, Asked, Origin, Laid
        <4>2. streams[n].age # age[p]
          BY <1>1, <3>1, <4>1 DEF StreamConfig
        <4> QED
          BY <2>3, <2>5, <4>1, <4>2 DEF Cause
      <3>3. CASE blind[p] \/ mode = "memory"
        BY <2>3, <2>5, <3>3 DEF Cause
      <3> QED
        BY <3>2, <3>3
    <2> QED
      BY <2>1, <2>2, <2>3, <2>4, <2>5, NothingOverlaps DEF Cause
  <1>3. CASE Update(p)
    <2>1. Changed(p, UpdateAnswer(n, Wanted(n))) /\ pc[p] = "update"
      BY <1>3 DEF Update
    <2>2. streams[n] # Missing
      BY <1>1, <2>1 DEF Topology, Asked, Origin
    <2>3. UpdateAnswer(n, Wanted(n)) \in {"ok", "overlap"}
      BY <2>2 DEF UpdateAnswer
    <2>4. \/ why'[p] = UpdateAnswer(n, Wanted(n)) /\ why'[p] # "ok"
          \/ why'[p] = "request" /\ "reply" \in Faults
      BY <2>1, <2>3, ChangedPlace DEF Topology
    <2>5. UpdateAnswer(n, Wanted(n)) = "overlap" => Overlaps(n, Wanted(n))
      BY DEF UpdateAnswer
    <2> QED
      BY <2>1, <2>3, <2>4, <2>5, NothingOverlaps DEF Cause
  <1> QED
    BY <1>2, <1>3

\* A connect fails for a cause outside of the code only; in particular, processes with one
\* retention that migrate a legacy layout at the same time do not disturb one another.
THEOREM FailsForCauseHolds == Spec => []FailsForCause
  <1> DEFINE Inv == \A p \in Procs : pc[p] = "failed" => Cause(p, why[p])
  <1>1. Init => Inv
    BY DEF Init
  <1>2. ASSUME Topology, Inv, [Next]_vars PROVE Inv'
    <2>1. UNCHANGED <<age, mode>>
      <3>1. ASSUME NEW p \in Procs, Connect(p) \/ Info(p) \/ Add(p) \/ Update(p) \/ Crash(p)
            PROVE  UNCHANGED <<age, mode>>
        BY <3>1 DEF Connect, Info, Add, Update, Crash, serverVars
      <3>2. ASSUME NEW p \in Procs, NEW ch \in Channels, Publish(p, ch) \/ Replay(p, ch)
            PROVE  UNCHANGED <<age, mode>>
        BY <3>2 DEF Publish, Replay, serverVars
      <3>3. ASSUME NEW p \in Procs, Reading(p) PROVE UNCHANGED <<age, mode>>
        BY <3>3 DEF Reading, ReplayFind, ReplayRead, ReplayAgain, ReplayEnd,
                   ReplayReturn, serverVars
      <3>4. Start \/ Precreate \/ Stop \/ (\E n \in Names : Expire(n)) => UNCHANGED <<age, mode>>
        BY DEF Start, Precreate, Stop, Expire, serverVars
      <3>5. UNCHANGED vars => UNCHANGED <<age, mode>>
        BY DEF vars, serverVars
      <3> QED
        BY <1>2, <3>1, <3>2, <3>3, <3>4, <3>5 DEF Next
    <2>2. ASSUME NEW p \in Procs, pc'[p] = "failed",
                 (pc[p] = "failed" /\ why'[p] = why[p] /\ blind'[p] = blind[p])
                 \/ (Cause(p, why'[p]) /\ blind'[p] = blind[p])
          PROVE  Cause(p, why[p])'
      BY <1>2, <2>1, <2>2 DEF Cause
    <2>3. CASE UNCHANGED connectVars
      BY <2>2, <2>3 DEF connectVars
    <2>4. ASSUME NEW p \in Procs, Add(p) \/ Update(p) PROVE Inv'
      <3>1. UNCHANGED blind /\ \A q \in Procs : q # p => pc'[q] = pc[q] /\ why'[q] = why[q]
        BY <1>2, <2>4, ChangedPlace DEF Add, Update, AddAnswer, UpdateAnswer, Topology
      <3> QED
        BY <1>2, <2>2, <2>4, <3>1, AnswerHasCause
    <2>5. ASSUME NEW p \in Procs, Connect(p) \/ Info(p) \/ Crash(p) PROVE Inv'
      <3>1. /\ pc'[p] # "failed"
            /\ \A q \in Procs : q # p => pc'[q] = pc[q] /\ why'[q] = why[q] /\ blind'[q] = blind[q]
        BY <1>2, <2>5 DEF Connect, Info, Crash, Advance, Topology, Typed
      <3> QED
        BY <2>2, <3>1
    <2>6. ASSUME NEW p \in Procs,
                 \/ \E ch \in Channels : Publish(p, ch) \/ Replay(p, ch)
                 \/ Reading(p)
          PROVE  UNCHANGED connectVars
      BY <2>6 DEF Publish, Replay, Reading, ReplayFind, ReplayRead, ReplayAgain, ReplayEnd,
                   ReplayReturn
    <2>7. Start \/ Precreate \/ Stop \/ (\E n \in Names : Expire(n)) => UNCHANGED connectVars
      BY DEF Start, Precreate, Stop, Expire
    <2>8. UNCHANGED vars => UNCHANGED connectVars
      BY DEF vars
    <2> QED
      BY <1>2, <2>3, <2>4, <2>5, <2>6, <2>7, <2>8 DEF Next
  <1>3. Inv => FailsForCause
    BY DEF Cause, FailsForCause
  <1> QED
    BY <1>1, <1>2, <1>3, TopologyAlways, PTL DEF Spec
-----------------------------------------------------------------------------
\* What a stream keeps: messages of the protocol's first version, and messages that a
\* process has published, in the order of their numbers.
Message(ch, k) ==
    [subject |-> ch, id |-> k,
     data |-> buildEnvelope("queue", ch, k, tenantOf(ch, ""), k, "")]
Messages == {OldMessage(ch) : ch \in Channels}
               \cup {Message(x[1], x[2]) : x \in Channels \X (Nat \ {0})}

\* What a stream has was published, in the order of the numbers.
StoreInv ==
    /\ published \in Nat
    /\ store \in [Names -> Seq(Messages)]
    /\ \A n \in Names :
          /\ \A i \in 1..Len(store[n]) : store[n][i].id <= published
          /\ \A i, j \in 1..Len(store[n]) : i < j => store[n][i].id < store[n][j].id

\* The stream n takes the channel ch, and keeps the message with a number.
Home(n, ch) == \E s \in Wanted(n) : Matches(s, ch)
Kept(n, id, ch) == \E i \in 1..Len(store[n]) : store[n][i].id = id /\ store[n][i].subject = ch

\* What was promised is in the stream that a reader would look in, or is expired.
PromisedInv ==
    /\ \A e \in promised :
          /\ e.ch \in Channels /\ e.id \in 1..published
          /\ e.id \in expired \/ \E n \in Names : Laid(n) /\ Home(n, e.ch) /\ Kept(n, e.id, e.ch)
    /\ promised # {} => \A n \in Names : streams[n] = Missing \/ Laid(n)

\* The streams that Replay has not asked about yet.
Ahead(n) == CASE n = "ABC_EVENTS" -> Names
              [] n = "ABC_MAILBOX" -> {"ABC_MAILBOX", "ABC_DLQ"}
              [] n = "ABC_DLQ" -> {"ABC_DLQ"}
              [] OTHER -> {}

\* What a call has returned so far is in order, and what it reads next comes after that.
InOrder(r) ==
    /\ \A i \in 1..Len(r.out) : r.out[i] < r.pos
    /\ r.again = 0 => \A i, j \in 1..Len(r.out) : i < j => r.out[i] < r.out[j]

\* Nothing that is owed is left out between two messages.
NoHole(r) ==
    r.blind \/ \A i \in 1..Len(r.out) : \A id \in r.due \ expired :
        id < r.out[i] => \E j \in 1..Len(r.out) : j < i /\ r.out[j] = id

Call == [stage : {"idle", "find", "read", "done"}, ch : Channels \cup {<<>>},
         stream : Names \cup {""}, pos : Nat, out : Seq(Nat), due : SUBSET Nat, blind : BOOLEAN,
         cut : BOOLEAN, again : Nat]

\* What a call of Replay owes is what was promised before it; it has that, or finds it in
\* what it has not read yet, unless it was blind or that has expired.
Owed(r) ==
    /\ r.stage # "idle" => /\ r.ch \in Channels
                           /\ \A id \in r.due : \E e \in promised : e.id = id /\ e.ch = r.ch
    /\ r.stage = "find" =>
          /\ r.stream \in Names /\ r.out = <<>> /\ r.pos = 0
          /\ r.blind \/ \A id \in r.due \ expired :
                           \E n \in Ahead(r.stream) :
                               Home(n, r.ch) /\ Kept(n, id, r.ch) /\ Laid(n)
    /\ r.stage = "read" =>
          /\ r.stream \in Names
          /\ r.blind \/ \A id \in r.due \ expired :
                           \/ \E i \in 1..Len(r.out) : r.out[i] = id
                           \/ id >= r.pos /\ Kept(r.stream, id, r.ch)
    /\ r.stage = "done" =>
          r.blind \/ r.cut \/ \A id \in r.due \ expired :
                                \E i \in 1..Len(r.out) : r.out[i] = id

ReaderInv ==
    /\ reader \in [Procs -> Call]
    /\ \A p \in Procs : InOrder(reader[p]) /\ NoHole(reader[p]) /\ Owed(reader[p])

-----------------------------------------------------------------------------
\* A set of natural numbers that is not empty has a least one.
LEMMA LeastIsLeast ==
    ASSUME NEW S, S \subseteq Nat, S # {}
    PROVE  Least(S) \in S /\ \A k \in S : Least(S) <= k
  <1>1. PICK x \in S : \A y \in S : ~(<<y, x>> \in OpToRel(<, Nat))
    BY WFMin, NatLessThanWellFounded
  <1>2. \A y \in S : x <= y
    <2>1. ASSUME NEW y \in S, y < x PROVE FALSE
      <3>1. <<y, x>> \in OpToRel(<, Nat)
        BY <2>1 DEF OpToRel
      <3> QED
        BY <1>1, <3>1
    <2> QED
      BY <2>1
  <1> QED
    BY <1>2 DEF Least

\* A filter that the server takes: ">" stands at its end only.
Filter(f) == f # <<>> /\ \A i \in 1..Len(f) - 1 : f[i] # ">"

\* A filter has a last token, after a number of others that are not ">".
LEMMA FilterIs ==
    ASSUME NEW S, NEW f \in Seq(S), Filter(f)
    PROVE  \E k \in Nat \ {0} : Len(f) = k /\ \A i \in 1..k - 1 : f[i] # ">"
  <1>1. Len(f) \in Nat /\ Len(f) # 0
    BY LenProperties, EmptySeq DEF Filter
  <1> QED
    BY <1>1 DEF Filter

\* Matches, said with the filter's length.
LEMMA MatchesIs ==
    ASSUME NEW S, NEW T, NEW f \in Seq(S), NEW ch \in Seq(T), NEW k \in Nat \ {0}, Len(f) = k
    PROVE  Matches(f, ch) <=>
              IF f[k] = ">" THEN Len(ch) >= k /\ \A i \in 1..k - 1 : f[i] \in {"*", ch[i]}
              ELSE Len(ch) = k /\ \A i \in 1..k : f[i] \in {"*", ch[i]}
  <1>1. Len(ch) \in Nat
    BY LenProperties
  <1>2. Len(ch) > k - 1 <=> Len(ch) >= k
    BY <1>1
  <1> QED
    BY <1>2 DEF Matches

\* The client's one pass decides as the server does, for every filter that the server takes
\* and every subject: so Replay finds a channel in the stream that stores it.
THEOREM SubjectMatchAgrees ==
    ASSUME NEW S, NEW T, NEW f \in Seq(S), NEW ch \in Seq(T), Filter(f)
    PROVE  subjectMatch(f, ch) <=> Matches(f, ch)
  <1>1. PICK k \in Nat \ {0} : Len(f) = k /\ \A i \in 1..k - 1 : f[i] # ">"
    BY FilterIs
  <1>2. k \in Nat /\ k >= 1 /\ Len(ch) \in Nat
    BY LenProperties
  <1>3. PICK leaves : leaves = {i \in 1..Len(ch) : \/ i > Len(f)
                                                   \/ f[i] = ">"
                                                   \/ f[i] \notin {"*", ch[i]}}
    OBVIOUS
  <1>4. subjectMatch(f, ch) <=> IF leaves = {} THEN Len(f) = Len(ch)
                                ELSE Least(leaves) <= Len(f) /\ f[Least(leaves)] = ">"
    BY <1>3 DEF subjectMatch
  <1>5. leaves \subseteq Nat
    BY <1>2, <1>3
  <1>6. ASSUME Matches(f, ch) PROVE subjectMatch(f, ch)
    <2>1. CASE f[k] = ">"
      <3>1. Len(ch) >= k /\ \A i \in 1..k - 1 : f[i] \in {"*", ch[i]}
        BY <1>1, <1>6, <2>1, MatchesIs
      <3>2. k \in leaves
        BY <1>1, <1>2, <1>3, <2>1, <3>1
      <3>3. \A i \in leaves : i >= k
        <4>1. ASSUME NEW i \in leaves, i < k PROVE FALSE
          <5>1. i \in 1..k - 1
            BY <1>2, <1>3, <4>1
          <5> QED
            BY <1>1, <1>2, <1>3, <3>1, <4>1, <5>1
        <4> QED
          BY <1>2, <1>5, <4>1
      <3>4. Least(leaves) = k
        <4>1. Least(leaves) \in leaves /\ Least(leaves) <= k
          BY <1>5, <3>2, LeastIsLeast
        <4>2. Least(leaves) \in Nat /\ Least(leaves) >= k
          BY <1>5, <3>3, <4>1
        <4> QED
          BY <1>2, <4>1, <4>2
      <3> QED
        BY <1>1, <1>2, <1>4, <2>1, <3>2, <3>4
    <2>2. CASE f[k] # ">"
      <3>1. Len(ch) = k /\ \A i \in 1..k : f[i] \in {"*", ch[i]}
        BY <1>1, <1>6, <2>2, MatchesIs
      <3>2. \A i \in 1..k : f[i] # ">"
        <4>1. \A i \in 1..k : i = k \/ i \in 1..k - 1
          BY <1>2
        <4> QED
          BY <1>1, <2>2, <4>1
      <3>3. leaves = {}
        BY <1>1, <1>2, <1>3, <3>1, <3>2
      <3> QED
        BY <1>1, <1>4, <3>1, <3>3
    <2> QED
      BY <2>1, <2>2
  <1>7. ASSUME subjectMatch(f, ch) PROVE Matches(f, ch)
    <2>1. CASE leaves = {}
      <3>1. Len(ch) = k
        BY <1>1, <1>4, <1>7, <2>1
      <3>2. \A i \in 1..k : f[i] # ">" /\ f[i] \in {"*", ch[i]}
        BY <1>3, <2>1, <3>1
      <3>3. f[k] # ">"
        BY <1>2, <3>2
      <3> QED
        BY <1>1, <3>1, <3>2, <3>3, MatchesIs
    <2>2. CASE leaves # {}
      <3>1. PICK e : e = Least(leaves)
        OBVIOUS
      <3>2. e \in leaves /\ \A i \in leaves : e <= i
        BY <1>5, <2>2, <3>1, LeastIsLeast
      <3>3. e \in 1..k /\ e \in 1..Len(ch) /\ f[e] = ">"
        BY <1>1, <1>2, <1>3, <1>4, <1>7, <2>2, <3>1, <3>2
      <3>4. e = k
        <4>1. e \notin 1..k - 1
          BY <1>1, <3>3
        <4> QED
          BY <1>2, <3>3, <4>1
      <3>5. \A i \in 1..k - 1 : f[i] \in {"*", ch[i]}
        <4>1. ASSUME NEW i \in 1..k - 1 PROVE f[i] \in {"*", ch[i]}
          <5>1. i \in 1..Len(ch) /\ i < e
            BY <1>2, <3>3, <3>4
          <5>2. i \notin leaves
            BY <1>2, <3>2, <3>3, <5>1
          <5> QED
            BY <1>3, <5>1, <5>2
        <4> QED
          BY <4>1
      <3>6. Len(ch) >= k
        BY <1>2, <3>3, <3>4
      <3> QED
        BY <1>1, <3>3, <3>4, <3>5, <3>6, MatchesIs
    <2> QED
      BY <2>1, <2>2
  <1> QED
    BY <1>6, <1>7

\* Tokens of two filters that one token of a subject may match.
Agree(f, g, k) ==
    \A i \in 1..k : f[i] # ">" /\ g[i] # ">" /\ (f[i] = g[i] \/ "*" \in {f[i], g[i]})

\* Overlap, said with the lengths of the filters.
LEMMA OverlapIs ==
    ASSUME NEW S, NEW f \in Seq(S), NEW g \in Seq(S), NEW k \in Nat \ {0}, NEW l \in Nat \ {0},
           Len(f) = k, Len(g) = l, \A i \in 1..k - 1 : f[i] # ">", \A i \in 1..l - 1 : g[i] # ">"
    PROVE  Overlap(f, g) <=>
              \/ k = l /\ Agree(f, g, k)
              \/ f[k] = ">" /\ k <= l /\ Agree(f, g, k - 1)
              \/ g[l] = ">" /\ l <= k /\ Agree(f, g, l - 1)
  <1>1. Overlap(f, g) <=>
           \E e \in 0..k : /\ e <= l /\ Agree(f, g, e)
                           /\ \/ e = k /\ e = l
                              \/ e < k /\ e < l /\ (f[e + 1] = ">" \/ g[e + 1] = ">")
    BY DEF Overlap, Agree
  <1>2. ASSUME NEW e \in 0..k, e < k, e < l, f[e + 1] = ">" PROVE e + 1 = k
    <2>1. e + 1 \in 1..k - 1 \/ e + 1 = k
      BY <1>2
    <2> QED
      BY <1>2, <2>1
  <1>3. ASSUME NEW e \in 0..k, e < k, e < l, g[e + 1] = ">" PROVE e + 1 = l
    <2>1. e + 1 \in 1..l - 1 \/ e + 1 = l
      BY <1>3
    <2> QED
      BY <1>3, <2>1
  <1>4. ASSUME Overlap(f, g)
        PROVE  \/ k = l /\ Agree(f, g, k)
               \/ f[k] = ">" /\ k <= l /\ Agree(f, g, k - 1)
               \/ g[l] = ">" /\ l <= k /\ Agree(f, g, l - 1)
    <2>1. PICK e \in 0..k : /\ e <= l /\ Agree(f, g, e)
                            /\ \/ e = k /\ e = l
                               \/ e < k /\ e < l /\ (f[e + 1] = ">" \/ g[e + 1] = ">")
      BY <1>1, <1>4
    <2>2. CASE e = k /\ e = l
      BY <2>1, <2>2
    <2>3. CASE e < k /\ e < l /\ f[e + 1] = ">"
      <3>1. e + 1 = k /\ e = k - 1 /\ k <= l
        BY <1>2, <2>3
      <3>2. f[k] = ">" /\ Agree(f, g, k - 1)
        BY <2>1, <2>3, <3>1, Zenon
      <3> QED
        BY <3>1, <3>2
    <2>4. CASE e < k /\ e < l /\ g[e + 1] = ">"
      <3>1. e + 1 = l /\ e = l - 1 /\ l <= k
        BY <1>3, <2>4
      <3>2. g[l] = ">" /\ Agree(f, g, l - 1)
        BY <2>1, <2>4, <3>1, Zenon
      <3> QED
        BY <3>1, <3>2
    <2> QED
      BY <2>1, <2>2, <2>3, <2>4
  <1>5. ASSUME k = l, Agree(f, g, k) PROVE Overlap(f, g)
    BY <1>1, <1>5
  <1>6. ASSUME f[k] = ">", k <= l, Agree(f, g, k - 1) PROVE Overlap(f, g)
    <2>1. k - 1 \in 0..k /\ k - 1 <= l /\ k - 1 < k /\ k - 1 < l /\ (k - 1) + 1 = k
      BY <1>6
    <2> QED
      BY <1>1, <1>6, <2>1
  <1>7. ASSUME g[l] = ">", l <= k, Agree(f, g, l - 1) PROVE Overlap(f, g)
    <2>1. l - 1 \in 0..k /\ l - 1 <= l /\ l - 1 < k /\ l - 1 < l /\ (l - 1) + 1 = l
      BY <1>7
    <2> QED
      BY <1>1, <1>7, <2>1
  <1> QED
    BY <1>4, <1>5, <1>6, <1>7

\* A subject that both filters match makes them overlap.
LEMMA SharedOverlaps ==
    ASSUME NEW S, NEW T, NEW f \in Seq(S), NEW g \in Seq(S), NEW ch \in Seq(T), Filter(f), Filter(g),
           Matches(f, ch), Matches(g, ch)
    PROVE  Overlap(f, g)
  <1>1. PICK k \in Nat \ {0} : Len(f) = k /\ \A i \in 1..k - 1 : f[i] # ">"
    BY FilterIs
  <1>2. PICK l \in Nat \ {0} : Len(g) = l /\ \A i \in 1..l - 1 : g[i] # ">"
    BY FilterIs
  <1>3. PICK n : n = Len(ch) /\ n \in Nat
    BY LenProperties
  <1>4. IF f[k] = ">" THEN n >= k /\ \A i \in 1..k - 1 : f[i] \in {"*", ch[i]}
        ELSE n = k /\ \A i \in 1..k : f[i] \in {"*", ch[i]}
    BY <1>1, <1>3, MatchesIs
  <1>5. IF g[l] = ">" THEN n >= l /\ \A i \in 1..l - 1 : g[i] \in {"*", ch[i]}
        ELSE n = l /\ \A i \in 1..l : g[i] \in {"*", ch[i]}
    BY <1>2, <1>3, MatchesIs
  <1>6. /\ \A i \in 1..k - 1 : f[i] # ">" /\ f[i] \in {"*", ch[i]}
        /\ f[k] # ">" => \A i \in 1..k : f[i] # ">" /\ f[i] \in {"*", ch[i]}
    <2>1. \A i \in 1..k : i \in 1..k - 1 \/ i = k
      OBVIOUS
    <2>2. \A i \in 1..k - 1 : i \in 1..k
      OBVIOUS
    <2> QED
      BY <1>1, <1>4, <2>1, <2>2
  <1>7. /\ \A i \in 1..l - 1 : g[i] # ">" /\ g[i] \in {"*", ch[i]}
        /\ g[l] # ">" => \A i \in 1..l : g[i] # ">" /\ g[i] \in {"*", ch[i]}
    <2>1. \A i \in 1..l : i \in 1..l - 1 \/ i = l
      OBVIOUS
    <2>2. \A i \in 1..l - 1 : i \in 1..l
      OBVIOUS
    <2> QED
      BY <1>2, <1>5, <2>1, <2>2
  <1>8. CASE f[k] # ">" /\ g[l] # ">"
    <2>1. k = l
      BY <1>4, <1>5, <1>8
    <2>2. Agree(f, g, k)
      BY <1>6, <1>7, <1>8, <2>1 DEF Agree
    <2> QED
      BY <1>1, <1>2, <2>1, <2>2, OverlapIs
  <1>9. CASE f[k] = ">" /\ (g[l] # ">" \/ k <= l)
    <2>1. k <= l /\ \A i \in 1..k - 1 : i \in 1..l - 1
      BY <1>4, <1>5, <1>9
    <2>2. Agree(f, g, k - 1)
      BY <1>6, <1>7, <2>1 DEF Agree
    <2> QED
      BY <1>1, <1>2, <1>9, <2>1, <2>2, OverlapIs
  <1>10. CASE g[l] = ">" /\ (f[k] # ">" \/ l <= k)
    <2>1. l <= k /\ \A i \in 1..l - 1 : i \in 1..k - 1
      BY <1>4, <1>5, <1>10
    <2>2. Agree(f, g, l - 1)
      BY <1>6, <1>7, <2>1 DEF Agree
    <2> QED
      BY <1>1, <1>2, <1>10, <2>1, <2>2, OverlapIs
  <1> QED
    BY <1>8, <1>9, <1>10

\* A subject that both match, where the first filter is not the longer one: the tokens of
\* the second one, and where it has a wildcard those of the first, or any.
LEMMA OverlapShares ==
    ASSUME NEW S, NEW x \in S \ {"*", ">"}, NEW f \in Seq(S), NEW g \in Seq(S),
           NEW k \in Nat \ {0}, NEW l \in Nat \ {0}, Len(f) = k, Len(g) = l,
           \A i \in 1..l - 1 : g[i] # ">", NEW e \in Nat, Agree(f, g, e),
           \/ e = k /\ e = l
           \/ e = k - 1 /\ f[k] = ">" /\ k <= l
    PROVE  \E ch \in Seq(S \ {"*", ">"}) : Matches(f, ch) /\ Matches(g, ch)
  <1>1. (\A i \in 1..k : f[i] \in S) /\ (\A i \in 1..l : g[i] \in S)
    BY ElementOfSeq
  <1>2. PICK T : T = S \ {"*", ">"}
    OBVIOUS
  <1>3. DEFINE token(i) == IF g[i] \notin {"*", ">"} THEN g[i]
                           ELSE IF i <= e /\ f[i] # "*" THEN f[i] ELSE x
  <1>4. PICK ch : ch = [i \in 1..l |-> token(i)]
    OBVIOUS
  <1>5. \A i \in 1..e : i \in 1..k /\ f[i] # ">" /\ g[i] # ">" /\ (f[i] = g[i] \/ "*" \in {f[i], g[i]})
    BY DEF Agree
  <1>6. \A i \in 1..l : token(i) \in T
    <2>1. ASSUME NEW i \in 1..l, i <= e, f[i] # "*" PROVE f[i] \in T
      <3>1. i \in 1..e
        BY <2>1
      <3> QED
        BY <1>1, <1>2, <1>5, <2>1, <3>1
    <2>2. x \in T
      BY <1>2
    <2>3. \A i \in 1..l : g[i] \notin {"*", ">"} => g[i] \in T
      BY <1>1, <1>2
    <2> QED
      BY <2>1, <2>2, <2>3
  <1>7. ch \in Seq(T) /\ Len(ch) = l /\ \A i \in 1..l : ch[i] = token(i)
    <2>1. ch \in [1..l -> T]
      BY <1>4, <1>6
    <2> HIDE DEF token
    <2>2. ch \in Seq(T)
      BY <2>1
    <2>3. Len(ch) = l
      BY <2>1, <2>2, LenProperties
    <2> QED
      BY <1>4, <2>2, <2>3
  <1>8. Matches(g, ch)
    <2>1. \A i \in 1..l : g[i] # ">" => g[i] \in {"*", ch[i]}
      BY <1>7
    <2>2. \A i \in 1..l - 1 : g[i] \in {"*", ch[i]}
      <3>1. \A i \in 1..l - 1 : i \in 1..l
        OBVIOUS
      <3> QED
        BY <2>1, <3>1
    <2>3. l \in 1..l /\ l >= l
      OBVIOUS
    <2>4. CASE g[l] = ">"
      BY <1>7, <2>2, <2>3, <2>4, MatchesIs
    <2>5. CASE g[l] # ">"
      <3>1. \A i \in 1..l : i \in 1..l - 1 \/ i = l
        OBVIOUS
      <3>2. \A i \in 1..l : g[i] \in {"*", ch[i]}
        BY <2>1, <2>2, <2>3, <2>5, <3>1
      <3> QED
        BY <1>7, <2>5, <3>2, MatchesIs
    <2> QED
      BY <2>4, <2>5
  <1>9. \A i \in 1..e : f[i] \in {"*", ch[i]}
    <2>1. ASSUME NEW i \in 1..e PROVE f[i] \in {"*", ch[i]}
      <3>1. i \in 1..l /\ i <= e
        BY <2>1
      <3>2. ch[i] = token(i)
        BY <1>7, <3>1
      <3> QED
        BY <1>5, <3>1, <3>2
    <2> QED
      BY <2>1
  <1>10. Matches(f, ch)
    <2>1. CASE e = k /\ e = l
      <3>1. f[k] # ">" /\ Len(ch) = k
        BY <1>5, <1>7, <2>1
      <3> QED
        BY <1>7, <1>9, <2>1, <3>1, MatchesIs
    <2>2. CASE e = k - 1 /\ f[k] = ">" /\ k <= l
      <3>1. Len(ch) >= k
        BY <1>7, <2>2
      <3> QED
        BY <1>7, <1>9, <2>2, <3>1, MatchesIs
    <2> QED
      BY <2>1, <2>2
  <1> QED
    BY <1>2, <1>7, <1>8, <1>10

\* Two filters overlap exactly if there is a subject, of tokens proper, that both match: what
\* the server refuses is that a message might be stored twice, and nothing else.
THEOREM OverlapIsShared ==
    ASSUME NEW S, NEW x \in S \ {"*", ">"}, NEW f \in Seq(S), NEW g \in Seq(S), Filter(f), Filter(g)
    PROVE  Overlap(f, g) <=>
              \E ch \in Seq(S \ {"*", ">"}) : Matches(f, ch) /\ Matches(g, ch)
  <1>1. PICK k \in Nat \ {0} : Len(f) = k /\ \A i \in 1..k - 1 : f[i] # ">"
    BY FilterIs
  <1>2. PICK l \in Nat \ {0} : Len(g) = l /\ \A i \in 1..l - 1 : g[i] # ">"
    BY FilterIs
  <1>3. ASSUME Overlap(f, g)
        PROVE  \E ch \in Seq(S \ {"*", ">"}) : Matches(f, ch) /\ Matches(g, ch)
    <2>1. \/ k = l /\ Agree(f, g, k)
          \/ f[k] = ">" /\ k <= l /\ Agree(f, g, k - 1)
          \/ g[l] = ">" /\ l <= k /\ Agree(f, g, l - 1)
      BY <1>1, <1>2, <1>3, OverlapIs
    <2>2. k - 1 \in Nat /\ l - 1 \in Nat /\ k \in Nat
      OBVIOUS
    <2>3. CASE k = l /\ Agree(f, g, k)
      BY <1>1, <1>2, <2>2, <2>3, OverlapShares
    <2>4. CASE f[k] = ">" /\ k <= l /\ Agree(f, g, k - 1)
      BY <1>1, <1>2, <2>2, <2>4, OverlapShares
    <2>5. CASE g[l] = ">" /\ l <= k /\ Agree(f, g, l - 1)
      <3>1. Agree(g, f, l - 1)
        BY <2>5 DEF Agree
      <3>2. \E ch \in Seq(S \ {"*", ">"}) : Matches(g, ch) /\ Matches(f, ch)
        BY <1>1, <1>2, <2>2, <2>5, <3>1, OverlapShares
      <3> QED
        BY <3>2
    <2> QED
      BY <2>1, <2>3, <2>4, <2>5
  <1> QED
    BY <1>3, SharedOverlaps

\* The streams' filters look at the third token of a subject.
LEMMA WildcardMatch ==
    ASSUME NEW f \in {inboxWildcard, eventsWildcard, dlqWildcard}, NEW ch \in Seq(STRING)
    PROVE  /\ Matches(f, ch) => subjectMatch(f, ch) /\ ch[3] = f[3]
           /\ f = ch \/ subjectMatch(f, ch) => ch[3] = f[3]
  <1>0. PICK T : T = {"abc", "*", "mailbox", "session", "events", "dlq", ">"}
    OBVIOUS
  <1>1. /\ f \in Seq(T) /\ f[3] # "*"
        /\ \E k \in {4, 5} : Len(f) = k /\ f[k] = ">" /\ \A i \in 1..k - 1 : f[i] # ">"
    <2>1. CASE f = inboxWildcard
      <3>1. \A i : i \in 1..3 <=> i = 1 \/ i = 2 \/ i = 3
        OBVIOUS
      <3>2. /\ Len(f) = 4 /\ f[1] = "abc" /\ f[2] = "*" /\ f[3] = "mailbox" /\ f[4] = ">"
        BY <2>1 DEF inboxWildcard
      <3>3. f \in Seq(T)
        BY <1>0, <2>1 DEF inboxWildcard
      <3> QED
        BY <3>1, <3>2, <3>3
    <2>2. CASE f = eventsWildcard
      <3>1. \A i : i \in 1..4 <=> i = 1 \/ i = 2 \/ i = 3 \/ i = 4
        OBVIOUS
      <3>2. /\ Len(f) = 5 /\ f[1] = "abc" /\ f[2] = "*" /\ f[3] = "session" /\ f[4] = "events"
            /\ f[5] = ">"
        BY <2>2 DEF eventsWildcard
      <3>3. f \in Seq(T)
        BY <1>0, <2>2 DEF eventsWildcard
      <3> QED
        BY <3>1, <3>2, <3>3
    <2>3. CASE f = dlqWildcard
      <3>1. \A i : i \in 1..3 <=> i = 1 \/ i = 2 \/ i = 3
        OBVIOUS
      <3>2. /\ Len(f) = 4 /\ f[1] = "abc" /\ f[2] = "*" /\ f[3] = "dlq" /\ f[4] = ">"
        BY <2>3 DEF dlqWildcard
      <3>3. f \in Seq(T)
        BY <1>0, <2>3 DEF dlqWildcard
      <3> QED
        BY <3>1, <3>2, <3>3
    <2> QED
      BY <2>1, <2>2, <2>3
  <1>2. PICK k \in {4, 5} : Len(f) = k /\ f[k] = ">" /\ \A i \in 1..k - 1 : f[i] # ">"
    BY <1>1
  <1>3. k \in Nat \ {0} /\ 3 \in 1..k - 1 /\ Filter(f)
    <2>1. f # <<>>
      <3>1. Len(<<>>) = 0 /\ Len(f) # 0
        BY <1>2
      <3> QED
        BY <3>1, Zenon
    <2> QED
      BY <1>2, <2>1 DEF Filter
  <1>4. subjectMatch(f, ch) <=> Matches(f, ch)
    BY <1>1, <1>3, SubjectMatchAgrees
  <1>5. Matches(f, ch) => f[3] \in {"*", ch[3]}
    <2>1. Matches(f, ch) => \A i \in 1..k - 1 : f[i] \in {"*", ch[i]}
      BY <1>1, <1>2, <1>3, MatchesIs
    <2> QED
      BY <1>3, <2>1
  <1> QED
    BY <1>1, <1>4, <1>5

\* So no channel has two homes, and Replay takes no stream for a channel's home that is not.
LEMMA OneHome ==
    ASSUME NEW n \in Names, NEW m \in Names, NEW ch \in Channels, Home(n, ch)
    PROVE  /\ \E s \in Wanted(n) : s = ch \/ subjectMatch(s, ch)
           /\ (\E s \in Wanted(m) : s = ch \/ subjectMatch(s, ch)) => m = n
  <1>1. ch \in Seq(STRING)
    BY ConstantsAssumption
  <1>2. /\ inboxWildcard[3] = "mailbox" /\ eventsWildcard[3] = "session" /\ dlqWildcard[3] = "dlq"
    BY DEF inboxWildcard, eventsWildcard, dlqWildcard
  <1>3. \A k \in Names : Wanted(k) \subseteq {inboxWildcard, eventsWildcard, dlqWildcard}
    BY NamesInOrder DEF Wanted
  <1>4. PICK s \in Wanted(n) : Matches(s, ch)
    BY DEF Home
  <1>5. subjectMatch(s, ch) /\ ch[3] = s[3]
    BY <1>1, <1>3, <1>4, WildcardMatch
  <1>6. ASSUME NEW t \in Wanted(m), t = ch \/ subjectMatch(t, ch) PROVE m = n
    <2>1. t[3] = s[3]
      BY <1>1, <1>3, <1>5, <1>6, WildcardMatch
    <2> QED
      BY <1>2, <1>4, <1>6, <2>1, NamesInOrder DEF Wanted
  <1> QED
    BY <1>4, <1>5, <1>6

\* A message is decoded to its number if a process has published it, and not at all if it
\* is one of the first version.
LEMMA MessageIsRead ==
    ASSUME NEW m \in Messages
    PROVE  /\ m.id \in Nat /\ m.subject \in Channels
           /\ m.id = 0 => decode(m) = NoEnvelope
           /\ m.id > 0 => decode(m) # NoEnvelope /\ decode(m).payload = m.id
  <1>1. CASE \E ch \in Channels : m = OldMessage(ch)
    <2>1. m.id = 0 /\ m.subject \in Channels /\ m.data.v = 1
      BY <1>1 DEF OldMessage
    <2>2. decode(m) = NoEnvelope
      BY <2>1 DEF decode
    <2> QED
      BY <2>1, <2>2
  <1>2. ASSUME NEW ch \in Channels, NEW k \in Nat \ {0}, m = Message(ch, k)
        PROVE  /\ m.id \in Nat /\ m.subject \in Channels /\ m.id > 0
               /\ decode(m) # NoEnvelope /\ decode(m).payload = m.id
    <2>1. m.id = k /\ m.subject = ch
      BY <1>2 DEF Message
    <2>2. m.data.v = 2 /\ m.data.tenant = SubjectTenant(ch) /\ m.data.payload = k
      BY <1>2, ConstantsAssumption DEF Message, buildEnvelope, tenantOf
    <2>3. decode(m) = m.data
      BY <2>1, <2>2 DEF decode
    <2>4. NoEnvelope.v = 0
      BY DEF NoEnvelope
    <2> QED
      BY <2>1, <2>2, <2>3, <2>4
  <1> QED
    BY <1>1, <1>2 DEF Messages
-----------------------------------------------------------------------------
\* What keeps its messages, but those that expire, keeps what it owes.
LEMMA OwedStays ==
    ASSUME ReaderInv, UNCHANGED reader, promised \subseteq promised', expired \subseteq expired',
           \A id : \A n \in Names, ch \in Channels :
               id \notin expired' /\ Kept(n, id, ch) =>
                   Kept(n, id, ch)' /\ (Laid(n) => Laid(n)')
    PROVE  ReaderInv'
  <1> SUFFICES ASSUME NEW p \in Procs PROVE NoHole(reader[p])' /\ Owed(reader[p])'
    BY DEF ReaderInv, InOrder
  <1>0. PICK r : r = reader[p]
    OBVIOUS
  <1>1. NoHole(r) /\ Owed(r)
    BY <1>0 DEF ReaderInv
  <1>2. \A n : n \in Ahead(r.stream) => n \in Names
    BY NamesInOrder DEF Ahead
  <1>3. Owed(r)'
    BY <1>1, <1>2 DEF Owed
  <1>4. NoHole(r)'
    BY <1>1 DEF NoHole
  <1> QED
    BY <1>0, <1>3, <1>4

\* A step that keeps what is stored, and streams that are laid.
LEMMA PromisesStay ==
    ASSUME PromisedInv, UNCHANGED <<promised, published>>, expired \subseteq expired',
           \A id : \A n \in Names, ch \in Channels :
               id \notin expired' /\ Kept(n, id, ch) =>
                   Kept(n, id, ch)' /\ (Laid(n) => Laid(n)'),
           \A n \in Names : streams[n] = Missing \/ Laid(n) => streams'[n] = Missing \/ Laid(n)'
    PROVE  PromisedInv'
  <1>1. ASSUME NEW e \in promised
        PROVE  \/ e.id \in expired'
               \/ \E n \in Names : Laid(n)' /\ Home(n, e.ch)' /\ Kept(n, e.id, e.ch)'
    BY <1>1 DEF PromisedInv, Home
  <1> QED
    BY <1>1 DEF PromisedInv

\* The inductive invariant of what is stored and read, which rests on Topology.
Records == StoreInv /\ PromisedInv /\ ReaderInv

\* Records holds at first.
LEMMA RecordsInit == Init => Records
  <1> SUFFICES ASSUME Init PROVE Records
    OBVIOUS
  <1>1. \A n \in Names : store[n] = <<>> \/ \E ch \in Channels : store[n] = <<OldMessage(ch)>>
    <2>1. ASSUME NEW n \in Names, NEW s \in streams[n].subjects, NEW c \in Channels,
                 Matches(s, c)
          PROVE  (CHOOSE ch \in Channels : \E t \in streams[n].subjects : Matches(t, ch))
                    \in Channels
      BY <2>1
    <2> QED
      BY <2>1 DEF Init
  <1>2. ASSUME NEW n \in Names
        PROVE  /\ store[n] \in Seq(Messages)
               /\ \A i \in 1..Len(store[n]) : store[n][i].id <= published
               /\ \A i, j \in 1..Len(store[n]) : i < j => store[n][i].id < store[n][j].id
    <2>1. CASE store[n] = <<>>
      BY <2>1, EmptySeq
    <2>2. ASSUME NEW ch \in Channels, store[n] = <<OldMessage(ch)>>
          PROVE  /\ store[n] \in Seq(Messages)
                 /\ \A i \in 1..Len(store[n]) : store[n][i].id <= published
                 /\ \A i, j \in 1..Len(store[n]) : i < j => store[n][i].id < store[n][j].id
      <3>1. OldMessage(ch) \in Messages /\ OldMessage(ch).id = 0 /\ published = 0
        BY DEF Messages, OldMessage, Init
      <3>2. Len(store[n]) = 1 /\ store[n][1] = OldMessage(ch)
        BY <2>2
      <3> QED
        BY <2>2, <3>1, <3>2
    <2> QED
      BY <1>1, <2>1, <2>2
  <1>3. store \in [Names -> Seq(Messages)]
    <2>1. store = [n \in Names |-> store[n]]
      BY DEF Init
    <2> QED
      BY <1>2, <2>1
  <1>4. StoreInv
    BY <1>2, <1>3 DEF StoreInv, Init
  <1>5. PromisedInv
    BY DEF PromisedInv, Init
  <1>6. NoCall \in Call /\ InOrder(NoCall) /\ NoHole(NoCall) /\ Owed(NoCall)
    <2>1. NoCall.out = <<>> /\ NoCall.stage = "idle"
      BY DEF NoCall
    <2>2. NoCall \in Call
      BY EmptySeq DEF NoCall, Call
    <2> QED
      BY <2>1, <2>2 DEF InOrder, NoHole, Owed
  <1>7. ReaderInv
    BY <1>6 DEF ReaderInv, Init
  <1> QED
    BY <1>4, <1>5, <1>7 DEF Records

\* The steps that neither publish nor replay.
LEMMA RecordsTopology ==
    ASSUME Topology, Records, UNCHANGED dataVars,
           \A n \in Names : streams'[n] = streams[n] \/ Laid(n)'
    PROVE  Records'
  <1>1. UNCHANGED <<store, published, promised, expired, reader>>
    BY DEF dataVars
  <1>2. \A n \in Names : Laid(n) => Laid(n)'
    BY DEF Laid
  <1>3. StoreInv'
    BY <1>1 DEF Records, StoreInv
  <1> QED
    BY <1>1, <1>2, <1>3, OwedStays, PromisesStay DEF Records, Kept

\* Records is kept: the server stops, and what it loses is expired.
LEMMA RecordsShutdown ==
    ASSUME Topology, Records, Shutdown, UNCHANGED <<published, promised, reader>>
    PROVE  Records'
  <1>1. CASE UNCHANGED <<streams, store, expired>>
    BY <1>1, RecordsTopology DEF dataVars
  <1>2. CASE /\ streams' = NoStreams /\ store' = [n \in Names |-> <<>>]
             /\ expired' = expired \cup
                    UNION {{store[n][i].id : i \in 1..Len(store[n])} : n \in Names}
    <2>1. StoreInv'
      BY <1>2, EmptySeq DEF Records, StoreInv
    <2>2. \A id, ch : \A n \in Names : Kept(n, id, ch) => id \in expired'
      BY <1>2 DEF Kept
    <2>3. expired \subseteq expired' /\ \A n \in Names : streams'[n] = Missing
      BY <1>2 DEF NoStreams
    <2> QED
      BY <2>1, <2>2, <2>3, OwedStays, PromisesStay DEF Records
  <1> QED
    BY <1>1, <1>2 DEF Shutdown

\* A message that expires is the first one of its stream.
LEMMA RecordsExpire ==
    ASSUME Topology, Records, NEW n \in Names, Expire(n)
    PROVE  Records'
  <1>1. /\ store[n] # <<>> /\ store' = [store EXCEPT ![n] = Tail(@)]
        /\ expired' = expired \cup {Head(store[n]).id}
        /\ UNCHANGED <<published, promised, reader, streams>>
    BY DEF Expire
  <1>2. store[n] \in Seq(Messages) /\ store \in [Names -> Seq(Messages)]
    BY DEF Records, StoreInv
  <1>3. /\ Tail(store[n]) \in Seq(Messages) /\ Len(store[n]) \in Nat /\ Len(store[n]) >= 1
        /\ Len(Tail(store[n])) = Len(store[n]) - 1
        /\ \A i \in 1..Len(store[n]) - 1 : Tail(store[n])[i] = store[n][i + 1]
        /\ Head(store[n]) = store[n][1]
    BY <1>1, <1>2, HeadTailProperties, LenProperties, EmptySeq
  <1>4. /\ store' \in [Names -> Seq(Messages)] /\ store'[n] = Tail(store[n])
        /\ \A m \in Names : m # n => store'[m] = store[m]
    BY <1>1, <1>2, <1>3
  <1>5. StoreInv'
    <2>1. \A i \in 1..Len(store'[n]) : store'[n][i] = store[n][i + 1] /\ i + 1 \in 1..Len(store[n])
      BY <1>3, <1>4
    <2>2. \A i, j \in 1..Len(store'[n]) : i < j => i + 1 < j + 1
      OBVIOUS
    <2> QED
      BY <1>1, <1>4, <2>1, <2>2 DEF Records, StoreInv
  <1>6. ASSUME NEW m \in Names, NEW id, NEW ch, id \notin expired', Kept(m, id, ch)
        PROVE  Kept(m, id, ch)'
    <2>1. PICK i \in 1..Len(store[m]) : store[m][i].id = id /\ store[m][i].subject = ch
      BY <1>6 DEF Kept
    <2>2. CASE m = n
      <3>1. i # 1
        BY <1>1, <1>3, <1>6, <2>1, <2>2
      <3>2. i - 1 \in 1..Len(store'[n]) /\ store'[n][i - 1] = store[n][i]
        BY <1>3, <1>4, <2>1, <2>2, <3>1
      <3> QED
        BY <2>1, <2>2, <3>2 DEF Kept
    <2>3. CASE m # n
      BY <1>4, <2>1, <2>3 DEF Kept
    <2> QED
      BY <2>2, <2>3
  <1>7. expired \subseteq expired' /\ \A m : Laid(m) => Laid(m)'
    BY <1>1 DEF Laid
  <1> QED
    BY <1>1, <1>5, <1>6, <1>7, OwedStays, PromisesStay DEF Records

\* What is published, the stream that its channel has as its home keeps.
LEMMA RecordsPublish ==
    ASSUME Topology, Records, NEW p \in Procs, NEW ch \in Channels, Publish(p, ch)
    PROVE  Records'
  <1>1. PICK n \in Taker(ch) :
           store' = [store EXCEPT ![n] = Append(@, Message(ch, published + 1))]
    BY DEF Publish, Message
  <1>2. /\ pc[p] = "ready" /\ server # "down" /\ published' = published + 1
        /\ \/ promised' = promised \cup {[id |-> published + 1, ch |-> ch]}
           \/ promised' = promised
        /\ UNCHANGED <<streams, expired, reader>>
    BY DEF Publish
  <1>3. published \in Nat /\ n \in Names /\ store \in [Names -> Seq(Messages)]
    BY DEF Records, StoreInv, Taker
  <1>4. PICK m, num : m = Message(ch, published + 1) /\ num = published + 1
    OBVIOUS
  <1>5. m \in Messages /\ m.id = num /\ m.id = published + 1 /\ m.subject = ch
    <2>1. num \in Nat \ {0} /\ m = Message(ch, num)
      BY <1>3, <1>4
    <2>2. <<ch, num>> \in Channels \X (Nat \ {0}) /\ <<ch, num>>[1] = ch /\ <<ch, num>>[2] = num
      BY <2>1
    <2>3. m \in Messages
      BY <2>1, <2>2 DEF Messages
    <2>4. m.id = num /\ m.subject = ch
      BY <2>1 DEF Message
    <2> QED
      BY <1>4, <2>3, <2>4
  <1>6. /\ store'[n] = Append(store[n], m) /\ \A k \in Names : k # n => store'[k] = store[k]
        /\ store[n] \in Seq(Messages)
    BY <1>1, <1>3, <1>4
  <1>7. /\ store'[n] \in Seq(Messages) /\ Len(store[n]) \in Nat
        /\ Len(store'[n]) = Len(store[n]) + 1 /\ store'[n][Len(store[n]) + 1] = m
        /\ \A i \in 1..Len(store[n]) : store'[n][i] = store[n][i]
    BY <1>5, <1>6, AppendProperties, LenProperties
  <1>8. store' \in [Names -> Seq(Messages)]
    <2>1. store' = [k \in Names |-> store'[k]]
      BY <1>1, <1>3
    <2> QED
      BY <1>3, <1>6, <1>7, <2>1
  <1>9. StoreInv'
    <2>1. ASSUME NEW k \in Names
          PROVE  /\ \A i \in 1..Len(store'[k]) : store'[k][i].id <= published'
                 /\ \A i, j \in 1..Len(store'[k]) :
                       i < j => store'[k][i].id < store'[k][j].id
      <3>1. \A i \in 1..Len(store[k]) : store[k][i].id \in Nat /\ store[k][i].id <= published
        <4>1. ASSUME NEW i \in 1..Len(store[k])
              PROVE  store[k][i].id \in Nat /\ store[k][i].id <= published
          <5>1. store[k][i] \in Messages
            BY <1>3, ElementOfSeq
          <5> QED
            BY <5>1, MessageIsRead DEF Records, StoreInv
        <4> QED
          BY <4>1
      <3>2. \A i, j \in 1..Len(store[k]) : i < j => store[k][i].id < store[k][j].id
        BY DEF Records, StoreInv
      <3>3. CASE k # n
        <4>1. \A i \in 1..Len(store[k]) : store[k][i].id <= published'
          BY <1>2, <1>3, <3>1
        <4> QED
          BY <1>6, <3>2, <3>3, <4>1
      <3>4. CASE k = n
        <4>1. \A i \in 1..Len(store'[n]) : i \in 1..Len(store[n]) \/ i = Len(store[n]) + 1
          BY <1>7
        <4>2. ASSUME NEW i \in 1..Len(store'[n]) PROVE store'[n][i].id <= published'
          <5>1. CASE i \in 1..Len(store[n])
            BY <1>2, <1>3, <1>7, <3>1, <3>4, <5>1
          <5>2. CASE i = Len(store[n]) + 1
            BY <1>2, <1>3, <1>5, <1>7, <5>2
          <5> QED
            BY <4>1, <5>1, <5>2
        <4>3. ASSUME NEW i \in 1..Len(store'[n]), NEW j \in 1..Len(store'[n]), i < j
              PROVE  store'[n][i].id < store'[n][j].id
          <5>1. i \in 1..Len(store[n])
            BY <1>7, <4>3
          <5>2. CASE j \in 1..Len(store[n])
            BY <1>7, <3>2, <3>4, <4>3, <5>1, <5>2
          <5>3. CASE j = Len(store[n]) + 1
            BY <1>3, <1>5, <1>7, <3>1, <3>4, <5>1, <5>3
          <5> QED
            BY <4>1, <5>2, <5>3
        <4> QED
          BY <3>4, <4>2, <4>3
      <3> QED
        BY <3>3, <3>4
    <2> QED
      BY <1>2, <1>3, <1>8, <2>1 DEF StoreInv
  <1>10. ASSUME NEW k \in Names, NEW id, NEW c, Kept(k, id, c)
         PROVE  Kept(k, id, c)'
    <2>1. PICK i \in 1..Len(store[k]) : store[k][i].id = id /\ store[k][i].subject = c
      BY <1>10 DEF Kept
    <2>2. i \in 1..Len(store'[k]) /\ store'[k][i] = store[k][i]
      BY <1>6, <1>7, <2>1
    <2> QED
      BY <2>1, <2>2 DEF Kept
  <1>11. Kept(n, num, ch)'
    <2>1. Len(store[n]) + 1 \in 1..Len(store'[n])
      BY <1>7
    <2> QED
      BY <1>5, <1>7, <2>1 DEF Kept
  <1>12. \A k \in Names : streams[k] = Missing \/ Laid(k)
    <2>1. CASE External
      <3>1. since[p] = starts
        <4>1. since[p] \in 0..starts /\ starts = 0
          BY <2>1 DEF Topology, Typed, ServerRuns
        <4> QED
          BY <4>1
      <3> QED
        BY <1>2, <3>1 DEF Topology, Progress
    <2>2. CASE ~External
      BY <2>2 DEF Topology, Origin, Found
    <2> QED
      BY <2>1, <2>2
  <1>13. Laid(n) /\ Home(n, ch)
    <2>1. PICK s \in streams[n].subjects : Matches(s, ch)
      BY DEF Taker
    <2>2. Missing.subjects = {}
      BY DEF Missing
    <2>3. Laid(n)
      BY <1>3, <1>12, <2>1, <2>2
    <2> QED
      BY <2>1, <2>3 DEF Laid, Home
  <1>14. PromisedInv'
    <2>1. ASSUME NEW e \in promised'
          PROVE  /\ e.ch \in Channels /\ e.id \in 1..published'
                 /\ e.id \in expired' \/ \E k \in Names :
                       Laid(k)' /\ Home(k, e.ch)' /\ Kept(k, e.id, e.ch)'
      <3>1. CASE e \in promised
        <4>1. /\ e.ch \in Channels /\ e.id \in 1..published
              /\ e.id \in expired \/ \E k \in Names :
                    Laid(k) /\ Home(k, e.ch) /\ Kept(k, e.id, e.ch)
          BY <3>1 DEF Records, PromisedInv
        <4>2. e.id \in 1..published'
          BY <1>2, <1>3, <4>1
        <4> QED
          BY <1>2, <1>10, <4>1, <4>2 DEF Laid, Home
      <3>2. CASE e = [id |-> published + 1, ch |-> ch]
        <4>1. e.id = num /\ e.ch = ch /\ e.id \in 1..published'
          BY <1>2, <1>3, <1>4, <3>2
        <4>2. Laid(n)' /\ Home(n, ch)'
          BY <1>2, <1>13 DEF Laid, Home
        <4> QED
          BY <1>3, <1>11, <4>1, <4>2
      <3> QED
        BY <1>2, <3>1, <3>2
    <2> QED
      BY <1>2, <1>12, <2>1 DEF PromisedInv, Laid
  <1>15. ReaderInv'
    <2>1. promised \subseteq promised' /\ expired \subseteq expired'
      BY <1>2
    <2>2. \A k : Laid(k) => Laid(k)'
      BY <1>2 DEF Laid
    <2> QED
      BY <1>2, <1>10, <2>1, <2>2, OwedStays DEF Records
  <1> QED
    BY <1>9, <1>14, <1>15 DEF Records

-----------------------------------------------------------------------------
\* A call of Replay that ends up well is all there is to a step of its process.
LEMMA OneReader ==
    ASSUME Records, NEW p \in Procs, NEW c \in Call,
           reader' = [reader EXCEPT ![p] = c],
           UNCHANGED <<streams, store, published, promised, expired>>,
           InOrder(c), NoHole(c), Owed(c)
    PROVE  Records'
  <1>1. /\ reader' \in [Procs -> Call] /\ reader'[p] = c
        /\ \A q \in Procs : q # p => reader'[q] = reader[q]
    BY DEF Records, ReaderInv
  <1>2. \A r : Owed(r) <=> Owed(r)'
    BY DEF Owed, Kept, Home, Laid
  <1>3. ReaderInv'
    BY <1>1, <1>2 DEF Records, ReaderInv, InOrder, NoHole, Owed, Kept, Home, Laid
  <1>4. StoreInv' /\ PromisedInv'
    BY DEF Records, StoreInv, PromisedInv, Kept, Home, Laid
  <1> QED
    BY <1>3, <1>4 DEF Records

\* Replay begins: what was promised has not been passed by.
LEMMA ReplayStep ==
    ASSUME Topology, Records, NEW p \in Procs, NEW ch \in Channels, Replay(p, ch)
    PROVE  Records'
  <1>1. PICK c : /\ c = [NoCall EXCEPT !.stage = "find", !.ch = ch, !.stream = "ABC_EVENTS",
                                       !.due = {m.id : m \in {x \in promised : x.ch = ch}}]
                 /\ reader' = [reader EXCEPT ![p] = c]
    BY DEF Replay
  <1>2. UNCHANGED <<streams, store, published, promised, expired>>
    BY DEF Replay
  <1>3. /\ c.stage = "find" /\ c.ch = ch /\ c.stream = "ABC_EVENTS" /\ c.pos = 0
        /\ c.out = <<>> /\ c.blind = FALSE /\ c.cut = FALSE /\ c.again = 0
        /\ c.due = {m.id : m \in {x \in promised : x.ch = ch}}
    BY <1>1 DEF NoCall
  <1>4. c = [stage |-> "find", ch |-> ch, stream |-> "ABC_EVENTS", pos |-> 0, out |-> <<>>,
             due |-> c.due, blind |-> FALSE, cut |-> FALSE, again |-> 0]
    BY <1>1 DEF NoCall
  <1>5. c.due \in SUBSET Nat
    <2>1. \A e \in promised : e.id \in Nat
      <3>1. published \in Nat /\ \A e \in promised : e.id \in 1..published
        BY DEF Records, StoreInv, PromisedInv
      <3> QED
        BY <3>1
    <2> QED
      BY <1>3, <2>1
  <1>6. c \in Call
    <2>1. "ABC_EVENTS" \in Names /\ <<>> \in Seq(Nat)
      BY NamesInOrder, EmptySeq
    <2>2. \A d \in SUBSET Nat :
             [stage |-> "find", ch |-> ch, stream |-> "ABC_EVENTS", pos |-> 0, out |-> <<>>,
              due |-> d, blind |-> FALSE, cut |-> FALSE, again |-> 0] \in Call
      BY <2>1 DEF Call
    <2> QED
      BY <1>4, <1>5, <2>2
  <1>7. InOrder(c) /\ NoHole(c)
    BY <1>3, EmptySeq DEF InOrder, NoHole
  <1>8. Owed(c)
    <2>1. \A id \in c.due : \E e \in promised : e.id = id /\ e.ch = c.ch
      BY <1>3
    <2>2. \A id \in c.due \ expired : \E n \in Ahead(c.stream) :
             Home(n, c.ch) /\ Kept(n, id, c.ch) /\ Laid(n)
      BY <1>3, <2>1 DEF Records, PromisedInv, Ahead
    <2> QED
      BY <1>3, <2>1, <2>2, NamesInOrder DEF Owed
  <1> QED
    BY <1>1, <1>2, <1>6, <1>7, <1>8, OneReader

\* The search passes by no stream that has what is owed, and stops at no other.
LEMMA FindStep ==
    ASSUME Topology, Records, NEW p \in Procs, ReplayFind(p)
    PROVE  Records'
  <1>1. PICK r : r = reader[p]
    OBVIOUS
  <1>2. PICK n : n = r.stream
    OBVIOUS
  <1>3. /\ r \in Call /\ InOrder(r) /\ Owed(r) /\ r.stage = "find" /\ n \in Names
        /\ r.ch \in Channels /\ r.out = <<>> /\ r.pos = 0
        /\ UNCHANGED <<streams, store, published, promised, expired>>
    BY <1>1, <1>2 DEF Records, ReaderInv, Owed, ReplayFind
  <1>4. /\ After(n) \in Names \cup {""}
        /\ After(n) # "" => After(n) \in Names
        /\ \A m \in Ahead(n) : m = n \/ (After(n) # "" /\ m \in Ahead(After(n)))
    <2>1. "" \notin Names
      BY NamesInOrder
    <2>2. CASE n = "ABC_EVENTS"
      BY <2>2, NamesInOrder DEF After, Ahead
    <2>3. CASE n = "ABC_MAILBOX"
      BY <2>3, NamesInOrder DEF After, Ahead
    <2>4. CASE n = "ABC_DLQ"
      BY <2>1, <2>4, NamesInOrder DEF After, Ahead
    <2> QED
      BY <1>3, <2>2, <2>3, <2>4, NamesInOrder
  <1>5. \A id \in r.due : \E e \in promised : e.id = id /\ e.ch = r.ch
    BY <1>3 DEF Owed
  <1>6. r.blind \/ \A id \in r.due \ expired : \E m \in Ahead(n) :
           Home(m, r.ch) /\ Kept(m, id, r.ch) /\ Laid(m)
    BY <1>2, <1>3 DEF Owed
  <1> DEFINE Passed(b) == [r EXCEPT !.stream = After(n), !.blind = b,
                                    !.stage = IF After(n) = "" THEN "done" ELSE "find"]
             Matched == \E s \in streams[n].subjects : s = r.ch \/ subjectMatch(s, r.ch)
  <1>10. \/ /\ streams[n] # Missing
            /\ \/ Matched /\ reader' = [reader EXCEPT ![p] = [r EXCEPT !.stage = "read"]]
               \/ ~Matched /\ reader' = [reader EXCEPT ![p] = Passed(r.blind)]
         \/ reader' = [reader EXCEPT ![p] = Passed(r.blind \/ streams[n] # Missing)]
    <2>1. [r EXCEPT !.stream = After(n), !.stage = IF After(n) = "" THEN "done" ELSE "find"]
             = Passed(r.blind)
      BY <1>3 DEF Call
    <2>2. \/ /\ streams[reader[p].stream] # Missing
             /\ reader' = [reader EXCEPT ![p] =
                   IF \E s \in streams[reader[p].stream].subjects :
                         s = reader[p].ch \/ subjectMatch(s, reader[p].ch)
                   THEN [reader[p] EXCEPT !.stage = "read"]
                   ELSE [reader[p] EXCEPT
                           !.stream = After(reader[p].stream),
                           !.stage = IF After(reader[p].stream) = "" THEN "done" ELSE "find"]]
          \/ reader' = [reader EXCEPT ![p] =
                [reader[p] EXCEPT
                    !.stream = After(reader[p].stream),
                    !.blind = reader[p].blind \/ streams[reader[p].stream] # Missing,
                    !.stage = IF After(reader[p].stream) = "" THEN "done" ELSE "find"]]
      BY DEF ReplayFind
    <2>3. \/ /\ streams[n] # Missing
             /\ \/ Matched /\ reader' = [reader EXCEPT ![p] = [r EXCEPT !.stage = "read"]]
                \/ /\ ~Matched
                   /\ reader' = [reader EXCEPT ![p] =
                         [r EXCEPT !.stream = After(n),
                                   !.stage = IF After(n) = "" THEN "done" ELSE "find"]]
          \/ reader' = [reader EXCEPT ![p] = Passed(r.blind \/ streams[n] # Missing)]
      BY <1>1, <1>2, <2>2
    <2> QED
      BY <2>1, <2>3
  <1>7. ASSUME NEW c, reader' = [reader EXCEPT ![p] = c], NEW b \in BOOLEAN,
               c = Passed(b), r.blind => b,
               b \/ \A id \in r.due \ expired : \A m \in Ahead(n) :
                       Home(m, r.ch) /\ Kept(m, id, r.ch) /\ Laid(m) => m # n
        PROVE  Records'
    <2>1. /\ c.ch = r.ch /\ c.out = <<>> /\ c.pos = 0 /\ c.due = r.due /\ c.stream = After(n)
      BY <1>3, <1>4, <1>7 DEF Call
    <2>6. c.stage = (IF After(n) = "" THEN "done" ELSE "find")
      BY <1>3, <1>4, <1>7 DEF Call
    <2>5. c.blind = b /\ c \in Call
      BY <1>3, <1>4, <1>7 DEF Call
    <2>2. InOrder(c) /\ NoHole(c)
      <3>1. c.out = <<>>
        BY <2>1
      <3>2. Len(c.out) = 0
        BY <3>1
      <3> QED
        BY <3>2 DEF InOrder, NoHole
    <2>3. b \/ \A id \in r.due \ expired : After(n) # "" /\ \E m \in Ahead(After(n)) :
             Home(m, r.ch) /\ Kept(m, id, r.ch) /\ Laid(m)
      BY <1>4, <1>6, <1>7
    <2>4. Owed(c)
      <3>1. c.ch \in Channels /\ \A id \in c.due : \E e \in promised : e.id = id /\ e.ch = c.ch
        <4>1. c.ch = r.ch /\ c.due = r.due
          BY <2>1
        <4>2. r.ch \in Channels
          BY <1>3
        <4> QED
          BY <1>5, <4>1, <4>2
      <3>2. CASE After(n) = ""
        BY <2>1, <2>3, <2>5, <2>6, <3>1, <3>2 DEF Owed
      <3>3. CASE After(n) # ""
        BY <1>4, <2>1, <2>3, <2>5, <2>6, <3>1, <3>3 DEF Owed
      <3> QED
        BY <3>2, <3>3
    <2> QED
      BY <1>3, <1>7, <2>2, <2>4, <2>5, OneReader
  <1>8. CASE streams[n] # Missing /\ Matched
    <2>1. PICK c : c = [r EXCEPT !.stage = "read"]
      OBVIOUS
    <2>2. CASE reader' = [reader EXCEPT ![p] = c]
      <3>1. /\ c.stage = "read" /\ c.stream = n /\ c.blind = r.blind /\ c.ch = r.ch
            /\ c.out = r.out /\ c.pos = 0 /\ c.due = r.due /\ c \in Call
        BY <1>2, <1>3, <2>1 DEF Call
      <3>2. InOrder(c) /\ NoHole(c)
        BY <1>3, <3>1, EmptySeq DEF InOrder, NoHole
      <3>3. ASSUME ~r.blind, NEW id \in r.due \ expired
            PROVE  id >= 0 /\ Kept(n, id, r.ch)
        <4>1. PICK m \in Ahead(n) : Home(m, r.ch) /\ Kept(m, id, r.ch) /\ Laid(m)
          BY <1>6, <3>3
        <4>2. m \in Names
          BY <4>1, NamesInOrder DEF Ahead
        <4>3. Laid(n)
          BY <1>3, <1>5, <1>8, <3>3 DEF Records, PromisedInv
        <4>4. m = n
          BY <1>3, <1>8, <4>1, <4>2, <4>3, OneHome DEF Laid
        <4>5. id \in Nat
          BY <1>3, <3>3 DEF Call
        <4> QED
          BY <4>1, <4>4, <4>5
      <3>4. Owed(c)
        BY <1>3, <1>5, <3>1, <3>3 DEF Owed
      <3> QED
        BY <1>3, <2>2, <3>1, <3>2, <3>4, OneReader
    <2>3. CASE reader' # [reader EXCEPT ![p] = c]
      <3>1. reader' = [reader EXCEPT ![p] = Passed(TRUE)]
        <4>1. (r.blind \/ streams[n] # Missing) = TRUE
          BY <1>8
        <4> HIDE DEF Passed, Matched
        <4> QED
          BY <1>8, <1>10, <2>1, <2>3, <4>1
      <3> QED
        BY <1>7, <3>1
    <2> QED
      BY <2>2, <2>3
  <1>9. CASE ~(streams[n] # Missing /\ Matched)
    <2>1. PICK b \in BOOLEAN : reader' = [reader EXCEPT ![p] = Passed(b)] /\ (r.blind => b)
      <3>1. r.blind \in BOOLEAN /\ (r.blind \/ streams[n] # Missing) \in BOOLEAN
        BY <1>3 DEF Call
      <3> HIDE DEF Passed, Matched
      <3> QED
        BY <1>9, <1>10, <3>1
    <2>2. ASSUME NEW m \in Ahead(n), Home(m, r.ch), Laid(m) PROVE m # n
      <3>1. m \in Names
        BY NamesInOrder DEF Ahead
      <3>2. streams[m] # Missing
        BY <2>2, <3>1, WantedIsThere
      <3>3. \E s \in streams[m].subjects : s = r.ch \/ subjectMatch(s, r.ch)
        BY <1>3, <2>2, <3>1, OneHome DEF Laid
      <3> QED
        BY <1>9, <3>2, <3>3
    <2> QED
      BY <1>7, <2>1, <2>2
  <1> QED
    BY <1>8, <1>9

\* What is left to read has a first one, and what comes before it in the stream is older.
LEMMA NextIsFirst ==
    ASSUME Records, NEW p \in Procs, reader[p].stream \in Names, Rest(p) # {}
    PROVE  \E j \in 1..Len(store[reader[p].stream]) :
              /\ j \in Rest(p) /\ NextMsg(p) = store[reader[p].stream][j]
              /\ \A i \in Rest(p) : j <= i
  <1>1. Len(store[reader[p].stream]) \in Nat
    BY LenProperties DEF Records, StoreInv
  <1>2. Rest(p) \subseteq 1..Len(store[reader[p].stream]) /\ Rest(p) \subseteq Nat
    BY <1>1 DEF Rest
  <1>3. Least(Rest(p)) \in Rest(p) /\ \A i \in Rest(p) : Least(Rest(p)) <= i
    BY <1>2, LeastIsLeast
  <1> QED
    BY <1>2, <1>3 DEF NextMsg

\* What is returned after a delivery has what was returned before, and the message unless
\* it is one of the first version.
Grown(s, m, o) ==
    /\ o \in Seq(Nat) /\ Len(o) \in Nat
    /\ \A i \in 1..Len(s) : i \in 1..Len(o) /\ o[i] = s[i]
    /\ \A i \in 1..Len(o) : i \in 1..Len(s) \/ (i = Len(s) + 1 /\ o[i] = m.id)
    /\ m.id > 0 => \E i \in 1..Len(o) : o[i] = m.id
LEMMA ReturnedIs ==
    ASSUME NEW s \in Seq(Nat), NEW m \in Messages
    PROVE  Grown(s, m, Returned(s, m))
  <1>1. PICK o : o = Returned(s, m)
    OBVIOUS
  <1>2. m.id \in Nat /\ Len(s) \in Nat
    BY MessageIsRead, LenProperties
  <1>3. \/ m.id = 0 /\ o = s
        \/ m.id > 0 /\ o = Append(s, m.id)
    BY <1>1, MessageIsRead DEF Returned
  <1>4. Grown(s, m, o)
    <2>1. CASE m.id = 0 /\ o = s
      BY <1>2, <2>1 DEF Grown
    <2>2. CASE m.id > 0 /\ o = Append(s, m.id)
      <3>1. /\ o \in Seq(Nat) /\ Len(o) = Len(s) + 1 /\ o[Len(s) + 1] = m.id
            /\ \A i \in 1..Len(s) : o[i] = s[i]
        BY <1>2, <2>2, AppendProperties
      <3>2. /\ Len(o) \in Nat /\ Len(s) + 1 \in 1..Len(o)
            /\ \A i \in 1..Len(o) : i \in 1..Len(s) \/ i = Len(s) + 1
            /\ \A i \in 1..Len(s) : i \in 1..Len(o)
        BY <1>2, <3>1
      <3> QED
        BY <1>2, <3>1, <3>2 DEF Grown
    <2> QED
      BY <1>3, <2>1, <2>2
  <1> QED
    BY <1>1, <1>4

\* A message that is read and can be decoded is returned; what is owed comes after it.
LEMMA ReadStep ==
    ASSUME Topology, Records, NEW p \in Procs, ReplayRead(p)
    PROVE  Records'
  <1>1. PICK r : r = reader[p]
    OBVIOUS
  <1>2. PICK n : n = r.stream
    OBVIOUS
  <1>3. PICK m : m = NextMsg(p)
    OBVIOUS
  <1>4. /\ r \in Call /\ InOrder(r) /\ NoHole(r) /\ Owed(r) /\ r.stage = "read" /\ n \in Names
        /\ r.ch \in Channels
    BY <1>1, <1>2 DEF Records, ReaderInv, Owed, ReplayRead
  <1>5. /\ Rest(p) # {} /\ UNCHANGED <<streams, store, published, promised, expired>>
        /\ reader' = [reader EXCEPT ![p] = [r EXCEPT !.pos = m.id + 1,
                                                      !.out = Returned(r.out, m)]]
    BY <1>1, <1>3 DEF ReplayRead
  <1>6. PICK j \in 1..Len(store[n]) :
           j \in Rest(p) /\ m = store[n][j] /\ \A i \in Rest(p) : j <= i
    BY <1>1, <1>2, <1>3, <1>4, <1>5, NextIsFirst
  <1>7. store[n] \in Seq(Messages) /\ m \in Messages
    <2>1. store[n] \in Seq(Messages)
      BY <1>4 DEF Records, StoreInv
    <2> QED
      BY <1>6, <2>1, ElementOfSeq
  <1>8. m.id \in Nat /\ m.id >= r.pos /\ m.subject = r.ch
    BY <1>1, <1>2, <1>6, <1>7, MessageIsRead DEF Rest
  <1>9. r.out \in Seq(Nat) /\ r.pos \in Nat /\ Len(r.out) \in Nat
    BY <1>4, LenProperties DEF Call
  <1>10. PICK o : o = Returned(r.out, m)
    OBVIOUS
  <1>12. PICK c : c = [r EXCEPT !.pos = m.id + 1, !.out = o]
    OBVIOUS
  <1>13. reader' = [reader EXCEPT ![p] = c]
    BY <1>5, <1>10, <1>12
  <1>14. /\ o \in Seq(Nat) /\ Len(o) \in Nat
         /\ \A i \in 1..Len(r.out) : i \in 1..Len(o) /\ o[i] = r.out[i]
         /\ \A i \in 1..Len(o) : i \in 1..Len(r.out)
                                  \/ (i = Len(r.out) + 1 /\ o[i] = m.id)
         /\ m.id > 0 => \E i \in 1..Len(o) : o[i] = m.id
    <2>1. Grown(r.out, m, o)
      BY <1>7, <1>9, <1>10, ReturnedIs
    <2> QED
      BY <2>1 DEF Grown
  <1>15. /\ c.pos = m.id + 1 /\ c.out = o /\ c.ch = r.ch /\ c.due = r.due /\ c.stream = n
         /\ c.stage = "read"
    BY <1>2, <1>4, <1>12 DEF Call
  <1>16. c.blind = r.blind /\ c.again = r.again /\ c \in Call
    <2>1. m.id + 1 \in Nat /\ o \in Seq(Nat)
      BY <1>8, <1>14
    <2> QED
      BY <1>4, <1>12, <2>1 DEF Call
  <1>17. InOrder(c)
    <2>1. \A i \in 1..Len(r.out) : r.out[i] \in Nat /\ r.out[i] < r.pos
      <3>1. ASSUME NEW i \in 1..Len(r.out) PROVE r.out[i] \in Nat
        BY <1>9, ElementOfSeq
      <3> QED
        BY <1>4, <3>1 DEF InOrder
    <2>2. r.again = 0 => \A i, k \in 1..Len(r.out) : i < k => r.out[i] < r.out[k]
      BY <1>4 DEF InOrder
    <2>3. \A i \in 1..Len(o) : o[i] < m.id + 1
      BY <1>8, <1>9, <1>14, <2>1
    <2>4. ASSUME r.again = 0, NEW i \in 1..Len(o), NEW k \in 1..Len(o), i < k
          PROVE  o[i] < o[k]
      <3>1. i \in 1..Len(r.out)
        BY <1>9, <1>14, <2>4
      <3>2. CASE k \in 1..Len(r.out)
        BY <1>14, <2>2, <2>4, <3>1, <3>2
      <3>3. CASE k = Len(r.out) + 1 /\ o[k] = m.id
        <4>1. o[i] = r.out[i] /\ r.out[i] \in Nat /\ r.out[i] < r.pos
          BY <1>14, <2>1, <3>1
        <4> QED
          BY <1>8, <1>9, <3>3, <4>1
      <3> QED
        BY <1>14, <3>2, <3>3
    <2> QED
      BY <1>15, <1>16, <2>3, <2>4 DEF InOrder
  <1>18. ASSUME ~r.blind, NEW id \in r.due \ expired
         PROVE  \/ \E i \in 1..Len(o) : o[i] = id
                \/ id >= m.id + 1 /\ Kept(n, id, r.ch)
    <2>1. CASE \E i \in 1..Len(r.out) : r.out[i] = id
      BY <1>14, <2>1
    <2>2. CASE id >= r.pos /\ Kept(n, id, r.ch)
      <3>1. PICK k \in 1..Len(store[n]) : store[n][k].id = id /\ store[n][k].subject = r.ch
        BY <2>2 DEF Kept
      <3>2. k \in Rest(p) /\ j <= k
        BY <1>1, <1>2, <1>6, <2>2, <3>1 DEF Rest
      <3>3. j = k \/ m.id < id
        <4>1. j < k => store[n][j].id < store[n][k].id
          BY <1>4, <1>6, <3>1 DEF Records, StoreInv
        <4>2. Len(store[n]) \in Nat
          BY <1>7, LenProperties
        <4> QED
          BY <1>6, <3>1, <3>2, <4>1, <4>2
      <3>4. id \in Nat /\ id > 0
        <4>1. \A e \in promised : e.id \in 1..published
          BY DEF Records, PromisedInv
        <4>2. published \in Nat /\ \E e \in promised : e.id = id
          BY <1>4, <1>18 DEF Owed, Records, StoreInv
        <4> QED
          BY <4>1, <4>2
      <3>5. CASE j = k
        BY <1>6, <1>14, <3>1, <3>4, <3>5
      <3>6. CASE m.id < id
        BY <1>8, <2>2, <3>4, <3>6
      <3> QED
        BY <3>3, <3>5, <3>6
    <2> QED
      BY <1>2, <1>4, <1>18, <2>1, <2>2 DEF Owed
  <1>19. NoHole(c)
    <2>1. ASSUME ~r.blind, NEW i \in 1..Len(o), NEW id \in r.due \ expired, id < o[i]
          PROVE  \E k \in 1..Len(o) : k < i /\ o[k] = id
      <3>1. CASE i \in 1..Len(r.out)
        <4>1. o[i] = r.out[i]
          BY <1>14, <3>1
        <4>2. PICK k \in 1..Len(r.out) : k < i /\ r.out[k] = id
          BY <1>4, <2>1, <3>1, <4>1 DEF NoHole
        <4> QED
          BY <1>14, <4>2
      <3>2. CASE i = Len(r.out) + 1 /\ o[i] = m.id
        <4>1. id \in Nat
          BY <1>4, <2>1 DEF Call
        <4>2. PICK k \in 1..Len(o) : o[k] = id
          BY <1>8, <1>18, <2>1, <3>2, <4>1
        <4>3. k # i
          BY <1>8, <2>1, <3>2, <4>1, <4>2
        <4>4. k < i
          BY <1>9, <1>14, <3>2, <4>3
        <4> QED
          BY <4>2, <4>4
      <3> QED
        BY <1>14, <2>1, <3>1, <3>2
    <2> QED
      BY <1>15, <1>16, <2>1 DEF NoHole
  <1>20. Owed(c)
    <2>1. c.ch \in Channels /\ \A id \in c.due : \E e \in promised : e.id = id /\ e.ch = c.ch
      <3>1. \A id \in r.due : \E e \in promised : e.id = id /\ e.ch = r.ch
        BY <1>4 DEF Owed
      <3> QED
        BY <1>4, <1>15, <3>1
    <2> QED
      BY <1>4, <1>15, <1>16, <1>18, <2>1 DEF Owed
  <1> QED
    BY <1>5, <1>13, <1>16, <1>17, <1>19, <1>20, OneReader

\* What is delivered again has been delivered before, and so has what is owed and older.
LEMMA AgainStep ==
    ASSUME Topology, Records, NEW p \in Procs, ReplayAgain(p)
    PROVE  Records'
  <1>1. PICK r : r = reader[p]
    OBVIOUS
  <1>2. PICK n : n = r.stream
    OBVIOUS
  <1>4. /\ r \in Call /\ InOrder(r) /\ NoHole(r) /\ Owed(r) /\ r.stage = "read" /\ n \in Names
        /\ r.ch \in Channels /\ UNCHANGED <<streams, store, published, promised, expired>>
    BY <1>1, <1>2 DEF Records, ReaderInv, Owed, ReplayAgain
  <1>5. PICK j \in Unacked(p) :
           reader' = [reader EXCEPT ![p] = [r EXCEPT
               !.again = r.again + 1, !.out = Returned(r.out, store[r.stream][j])]]
    BY <1>1 DEF ReplayAgain
  <1>6. PICK m : m = store[n][j]
    OBVIOUS
  <1>7. m \in Messages /\ m.id \in Nat /\ m.id < r.pos
    <2>1. store[n] \in Seq(Messages) /\ j \in 1..Len(store[n]) /\ m.id < r.pos
      BY <1>1, <1>2, <1>4, <1>6 DEF Records, StoreInv, Unacked
    <2> QED
      BY <1>6, <2>1, ElementOfSeq, MessageIsRead
  <1>8. r.out \in Seq(Nat) /\ r.pos \in Nat /\ Len(r.out) \in Nat
    BY <1>4, LenProperties DEF Call
  <1>9. PICK o : o = Returned(r.out, m)
    OBVIOUS
  <1>10. PICK c : c = [r EXCEPT !.again = r.again + 1, !.out = o]
    OBVIOUS
  <1>11. reader' = [reader EXCEPT ![p] = c]
    BY <1>2, <1>5, <1>6, <1>9, <1>10
  <1>12. /\ o \in Seq(Nat) /\ Len(o) \in Nat
         /\ \A i \in 1..Len(r.out) : i \in 1..Len(o) /\ o[i] = r.out[i]
         /\ \A i \in 1..Len(o) : i \in 1..Len(r.out)
                                  \/ (i = Len(r.out) + 1 /\ o[i] = m.id)
    <2>1. Grown(r.out, m, o)
      BY <1>7, <1>8, <1>9, ReturnedIs
    <2> QED
      BY <2>1 DEF Grown
  <1>13. /\ c.pos = r.pos /\ c.out = o /\ c.ch = r.ch /\ c.due = r.due /\ c.stream = n
         /\ c.stage = "read" /\ c.blind = r.blind /\ c.again = r.again + 1 /\ c \in Call
    <2>1. r.again + 1 \in Nat /\ o \in Seq(Nat) /\ r.again \in Nat
      <3>1. r.again \in Nat
        BY <1>4 DEF Call
      <3> QED
        BY <1>12, <3>1
    <2> QED
      BY <1>2, <1>4, <1>10, <2>1 DEF Call
  <1>14. InOrder(c)
    <2>1. \A i \in 1..Len(o) : o[i] < r.pos
      BY <1>4, <1>7, <1>12 DEF InOrder
    <2>2. c.again # 0
      <3>1. r.again \in Nat /\ c.again = r.again + 1
        BY <1>4, <1>13 DEF Call
      <3> QED
        BY <3>1
    <2> QED
      BY <1>13, <2>1, <2>2 DEF InOrder
  <1>15. ASSUME ~r.blind, NEW id \in r.due \ expired
         PROVE  \/ \E i \in 1..Len(r.out) : r.out[i] = id
                \/ id >= r.pos /\ Kept(n, id, r.ch)
    BY <1>2, <1>4, <1>15 DEF Owed
  <1>16. NoHole(c)
    <2>1. ASSUME ~r.blind, NEW i \in 1..Len(o), NEW id \in r.due \ expired, id < o[i]
          PROVE  \E k \in 1..Len(o) : k < i /\ o[k] = id
      <3>1. CASE i \in 1..Len(r.out)
        <4>1. o[i] = r.out[i]
          BY <1>12, <3>1
        <4>2. PICK k \in 1..Len(r.out) : k < i /\ r.out[k] = id
          BY <1>4, <2>1, <3>1, <4>1 DEF NoHole
        <4> QED
          BY <1>12, <4>2
      <3>2. CASE i = Len(r.out) + 1 /\ o[i] = m.id
        <4>1. id \in Nat
          BY <1>4, <2>1 DEF Call
        <4>2. PICK k \in 1..Len(r.out) : r.out[k] = id
          BY <1>7, <1>8, <1>15, <2>1, <3>2, <4>1
        <4>3. k < i
          BY <1>8, <3>2
        <4> QED
          BY <1>12, <4>2, <4>3
      <3> QED
        BY <1>12, <2>1, <3>1, <3>2
    <2> QED
      BY <1>13, <2>1 DEF NoHole
  <1>17. Owed(c)
    <2>1. c.ch \in Channels /\ \A id \in c.due : \E e \in promised : e.id = id /\ e.ch = c.ch
      <3>1. \A id \in r.due : \E e \in promised : e.id = id /\ e.ch = r.ch
        BY <1>4 DEF Owed
      <3> QED
        BY <1>4, <1>13, <3>1
    <2>2. c.blind \/ \A id \in c.due \ expired :
                        \/ \E i \in 1..Len(c.out) : c.out[i] = id
                        \/ id >= c.pos /\ Kept(c.stream, id, c.ch)
      BY <1>12, <1>13, <1>15
    <2> QED
      BY <1>4, <1>13, <2>1, <2>2 DEF Owed
  <1> QED
    BY <1>4, <1>11, <1>13, <1>14, <1>16, <1>17, OneReader

\* A call that has read its stream to the end has all that it owes.
LEMMA EndStep ==
    ASSUME Topology, Records, NEW p \in Procs, ReplayEnd(p)
    PROVE  Records'
  <1>1. PICK r : r = reader[p]
    OBVIOUS
  <1>2. PICK n : n = r.stream
    OBVIOUS
  <1>3. PICK c : c = [r EXCEPT !.stage = "done", !.cut = Rest(p) # {}]
    OBVIOUS
  <1>4. /\ r \in Call /\ InOrder(r) /\ NoHole(r) /\ Owed(r) /\ r.stage = "read" /\ n \in Names
        /\ r.ch \in Channels
    BY <1>1, <1>2 DEF Records, ReaderInv, Owed, ReplayEnd
  <1>5. /\ UNCHANGED <<streams, store, published, promised, expired>>
        /\ reader' = [reader EXCEPT ![p] = c]
    BY <1>1, <1>3 DEF ReplayEnd
  <1>6. /\ c.stage = "done" /\ c.out = r.out /\ c.pos = r.pos /\ c.ch = r.ch /\ c.due = r.due
        /\ c.blind = r.blind /\ c.again = r.again
    BY <1>3, <1>4 DEF Call
  <1>7. c \in Call /\ (c.cut <=> Rest(p) # {})
    BY <1>3, <1>4 DEF Call
  <1>8. InOrder(c) /\ NoHole(c)
    BY <1>4, <1>6 DEF InOrder, NoHole
  <1>9. ASSUME ~r.blind, Rest(p) = {}, NEW id \in r.due \ expired
        PROVE  \E i \in 1..Len(r.out) : r.out[i] = id
    <2>1. ~(id >= r.pos /\ Kept(n, id, r.ch))
      BY <1>1, <1>2, <1>9 DEF Kept, Rest
    <2> QED
      BY <1>2, <1>4, <1>9, <2>1 DEF Owed
  <1>10. Owed(c)
    <2>1. c.ch \in Channels /\ \A id \in c.due : \E e \in promised : e.id = id /\ e.ch = c.ch
      <3>1. \A id \in r.due : \E e \in promised : e.id = id /\ e.ch = r.ch
        BY <1>4 DEF Owed
      <3> QED
        BY <1>4, <1>6, <3>1
    <2>2. c.blind \/ c.cut \/ \A id \in c.due \ expired : \E i \in 1..Len(c.out) : c.out[i] = id
      BY <1>6, <1>7, <1>9
    <2> QED
      BY <1>6, <2>1, <2>2 DEF Owed
  <1> QED
    BY <1>5, <1>7, <1>8, <1>10, OneReader

\* A call that has returned owes nothing.
LEMMA ReturnStep ==
    ASSUME Records, NEW p \in Procs, ReplayReturn(p)
    PROVE  Records'
  <1>1. NoCall.out = <<>> /\ NoCall.stage = "idle"
    BY DEF NoCall
  <1>2. NoCall \in Call
    BY EmptySeq DEF NoCall, Call
  <1>3. InOrder(NoCall) /\ NoHole(NoCall) /\ Owed(NoCall)
    BY <1>1 DEF InOrder, NoHole, Owed
  <1> QED
    BY <1>2, <1>3, OneReader DEF ReplayReturn

-----------------------------------------------------------------------------
\* Whatever step is taken, what is stored, promised and owed stays together.
LEMMA RecordsStep == Topology /\ Records /\ [Next]_vars => Records'
  <1> SUFFICES ASSUME Topology, Records, [Next]_vars PROVE Records'
    OBVIOUS
  <1>1. streams \in [Names -> StreamConfig]
    BY DEF Topology, Typed
  <1>2. ASSUME NEW p \in Procs, Connect(p) \/ Info(p) \/ Crash(p) PROVE Records'
    BY <1>2, RecordsTopology DEF Connect, Info, Crash
  <1>3. ASSUME NEW p \in Procs, Add(p) PROVE Records'
    <2>1. PICK n \in Names : n = Specs[at[p]]
      BY NamesInOrder DEF Topology, Typed
    <2>2. PICK config : config = [subjects |-> Wanted(n), age |-> age[p], storage |-> "file"]
      OBVIOUS
    <2>3. UNCHANGED dataVars /\ streams' \in {streams, [streams EXCEPT ![n] = config]}
      BY <1>3, <2>1, <2>2 DEF Add
    <2>4. \A k \in Names : streams'[k] = streams[k] \/ Laid(k)'
      BY <1>1, <2>2, <2>3 DEF Laid
    <2> QED
      BY <2>3, <2>4, RecordsTopology
  <1>4. ASSUME NEW p \in Procs, Update(p) PROVE Records'
    <2>1. PICK n \in Names : n = Specs[at[p]]
      BY NamesInOrder DEF Topology, Typed
    <2>2. PICK config : config = [seen[p] EXCEPT !.subjects = Wanted(n)]
      OBVIOUS
    <2>3. UNCHANGED dataVars /\ streams' \in {streams, [streams EXCEPT ![n] = config]}
      BY <1>4, <2>1, <2>2 DEF Update
    <2>4. config.subjects = Wanted(n)
      BY <2>2 DEF Topology, Typed, StreamConfig
    <2>5. \A k \in Names : streams'[k] = streams[k] \/ Laid(k)'
      BY <1>1, <2>3, <2>4 DEF Laid
    <2> QED
      BY <2>3, <2>5, RecordsTopology
  <1>5. CASE Start
    BY <1>5, RecordsTopology DEF Start
  <1>6. CASE Precreate
    <2>1. PICK n \in Names : n = Specs[next]
      BY NamesInOrder DEF Topology, Typed
    <2>2. PICK config : config = [subjects |-> Wanted(n), age |-> 24, storage |-> "memory"]
      OBVIOUS
    <2>3. UNCHANGED <<published, promised, reader>>
      BY <1>6 DEF Precreate
    <2>4. \/ UNCHANGED <<store, expired>> /\ streams' = [streams EXCEPT ![n] = config]
          \/ Shutdown
      BY <1>6, <2>1, <2>2 DEF Precreate
    <2>5. CASE UNCHANGED <<store, expired>> /\ streams' = [streams EXCEPT ![n] = config]
      <3>1. \A k \in Names : streams'[k] = streams[k] \/ Laid(k)'
        BY <1>1, <2>2, <2>5 DEF Laid
      <3> QED
        BY <2>3, <2>5, <3>1, RecordsTopology DEF dataVars
    <2> QED
      BY <2>3, <2>4, <2>5, RecordsShutdown
  <1>7. CASE Stop
    BY <1>7, RecordsShutdown DEF Stop
  <1>8. ASSUME NEW p \in Procs, Reading(p) PROVE Records'
    BY <1>8, FindStep, ReadStep, AgainStep, EndStep, ReturnStep DEF Reading
  <1>9. CASE UNCHANGED vars
    BY <1>9, RecordsTopology DEF vars
  <1> QED
    BY <1>2, <1>3, <1>4, <1>5, <1>6, <1>7, <1>8, <1>9, RecordsExpire, RecordsPublish, ReplayStep
       DEF Next

\* Whatever connects, migrations, crashes and restarts of the server there were meanwhile,
\* what Replay returns has, before an event, every older one that was acknowledged before
\* the call and that has not become too old since, unless a StreamInfo failed; it has all of
\* them unless it was cut besides; and it has each once and in the order of the stream unless
\* the server delivered some again.
THEOREM ReplaysAllHolds == Spec => []ReplaysAll
  <1>1. Records => ReplaysAll
    <2> SUFFICES ASSUME Records PROVE ReplaysAll
      OBVIOUS
    <2>1. ASSUME NEW p \in Procs PROVE InOrder(reader[p]) /\ NoHole(reader[p]) /\ Owed(reader[p])
      BY DEF Records, ReaderInv
    <2> QED
      BY <2>1 DEF InOrder, NoHole, Owed, ReplaysAll
  <1>2. Init => Records
    BY RecordsInit
  <1> QED
    BY <1>1, <1>2, RecordsStep, TopologyAlways, PTL DEF Spec
=============================================================================
