-------------------------- MODULE Presence_proofs --------------------------
(***************************************************************************)
(* Theorems about presence and discovery, for any number of agents,        *)
(* extensions and replicas and under any faults.                           *)
(***************************************************************************)
EXTENDS Presence, SequenceTheorems, TLAPS

Events == {"put", "del"}

\* Before the first Discover has started the watch nothing is cached, no
\* broadcast is under way, and only a watch that is on has something to deliver.
Unwatched ==
    \A a \in Agents :
        /\ watch[a] = "none" => phase[a] \in {"idle", "dead"} /\ cache[a] = {}
        /\ watch[a] # "on" => \A e \in Exts : feed[a][e] = <<>>

Base == TypeOK /\ Unwatched

\* What the agent will hold about e once its watch has delivered everything: the
\* newest event decides, and without one the cache does.
WillKnow(a, e) ==
    IF feed[a][e] = <<>> THEN e \in cache[a] ELSE feed[a][e][Len(feed[a][e])] = "put"

\* An agent whose watch is on will know whom the bucket holds, and nobody else
\* but those it is excused for.
InStep ==
    \A a \in Agents, e \in Exts :
        watch[a] = "on" => /\ e \in entry => WillKnow(a, e)
                           /\ WillKnow(a, e) => e \in entry \cup excused[a]

-----------------------------------------------------------------------------
\* Telling a watch an event leaves a feed of events whose newest is that event.
LEMMA ToldLast ==
    ASSUME NEW s \in Seq(Events), NEW event \in Events,
           NEW t, t = IF s # <<>> /\ s[Len(s)] = event THEN s ELSE Append(s, event)
    PROVE  /\ t \in Seq(Events)
           /\ t # <<>> /\ t[Len(t)] = event
  <1>1. CASE s # <<>> /\ s[Len(s)] = event
    BY <1>1
  <1>2. CASE ~(s # <<>> /\ s[Len(s)] = event)
    <2>1. t = Append(s, event)
      BY <1>2
    <2> QED
      BY <2>1, AppendProperties
  <1> QED
    BY <1>1, <1>2

\* Applying the i-th event leaves the later ones: none if it was the newest, and
\* otherwise a feed with the same newest event.
LEMMA RestAfter ==
    ASSUME NEW s \in Seq(Events), NEW i \in 1 .. Len(s)
    PROVE  LET t == SubSeq(s, i + 1, Len(s))
           IN  /\ t \in Seq(Events)
               /\ i = Len(s) => t = <<>>
               /\ i # Len(s) => t # <<>> /\ t[Len(t)] = s[Len(s)]
  <1> DEFINE n == Len(s)
             t == SubSeq(s, i + 1, n)
  <1>1. n \in Nat /\ i \in 1 .. n /\ i \in Int
    BY LenProperties
  <1>2. \A j \in (i + 1) .. n : s[j] \in Events
    BY <1>1, ElementOfSeq
  <1>3. /\ t \in Seq(Events)
        /\ Len(t) = IF i + 1 <= n THEN n - (i + 1) + 1 ELSE 0
        /\ \A j \in 1 .. n - (i + 1) + 1 : t[j] = s[i + 1 + j - 1]
    BY <1>1, <1>2, SubSeqProperties
  <1>4. i = n => t = <<>>
    BY <1>1, SubSeqEmpty
  <1>5. ASSUME i # n PROVE t # <<>> /\ t[Len(t)] = s[n]
    <2> HIDE DEF n, t
    <2>1. Len(t) = n - i /\ n - i \in 1 .. n - (i + 1) + 1 /\ i + 1 + (n - i) - 1 = n
      BY <1>1, <1>3, <1>5
    <2>2. t[Len(t)] = s[n]
      BY <1>3, <2>1
    <2>3. t # <<>>
      BY <1>1, <2>1, EmptySeq
    <2> QED
      BY <2>2, <2>3
  <1> QED
    BY <1>3, <1>4, <1>5
-----------------------------------------------------------------------------
\* A put or a deletion, or its loss, leaves the feeds well formed, and every watch
\* that is on in step with the bucket.
LEMMA WriteInStep ==
    ASSUME TypeOK, Unwatched, NEW e \in Exts,
           Written(KVPut(e)) \/ Written(KVDelete(e)), UNCHANGED agentVars
    PROVE  /\ bucket' \in BOOLEAN /\ entry' \subseteq Exts
           /\ feed' \in [Agents -> [Exts -> Seq(Events)]]
           /\ excused' \in [Agents -> SUBSET Exts]
           /\ \A a \in Agents, f \in Exts : watch[a] # "on" => feed'[a][f] = <<>>
           /\ InStep => InStep'
  <1>0. feed \in [Agents -> [Exts -> Seq(Events)]]
    BY DEF TypeOK, Events
  <1> USE <1>0 DEF TypeOK, Unwatched
  <1>1. CASE UNCHANGED <<bucket, entry, feed, excused>>
    BY <1>1 DEF InStep, WillKnow, agentVars
  <1>2. CASE KVPut(e) \/ KVDelete(e)
    <2>1. PICK event \in Events :
             /\ Told(e, event)
             /\ event = "put" => bucket' = TRUE /\ entry' = entry \cup {e}
             /\ event = "del" => bucket' = bucket /\ entry' = entry \ {e}
      BY <1>2 DEF KVPut, KVDelete, Events
    <2>2. excused' = [a \in Agents |-> excused[a] \ {e}]
      BY <1>2 DEF KVPut, KVDelete, Excuse
    <2>3. ASSUME NEW a \in Agents, watch[a] # "on"
          PROVE  feed'[a] = feed[a]
      BY <2>1, <2>3 DEF Told
    <2>4. ASSUME NEW a \in Agents, watch[a] = "on"
          PROVE  /\ feed'[a] \in [Exts -> Seq(Events)]
                 /\ feed'[a][e] # <<>> /\ feed'[a][e][Len(feed'[a][e])] = event
                 /\ \A f \in Exts \ {e} : feed'[a][f] = feed[a][f]
      <3>1. feed'[a] = [feed[a] EXCEPT ![e] =
                          IF @ # <<>> /\ @[Len(@)] = event THEN @ ELSE Append(@, event)]
        BY <2>1, <2>4 DEF Told
      <3>2. feed'[a][e] = IF feed[a][e] # <<>> /\ feed[a][e][Len(feed[a][e])] = event
                          THEN feed[a][e] ELSE Append(feed[a][e], event)
        BY <3>1
      <3>3. /\ feed'[a][e] \in Seq(Events)
            /\ feed'[a][e] # <<>> /\ feed'[a][e][Len(feed'[a][e])] = event
        <4>1. feed[a][e] \in Seq(Events) /\ event \in Events
          OBVIOUS
        <4> QED
          BY <3>2, <4>1, ToldLast
      <3>4. \A f \in Exts \ {e} : feed'[a][f] = feed[a][f]
        BY <3>1
      <3>5. feed'[a] \in [Exts -> Seq(Events)]
        BY <3>1, <3>3, <3>4
      <3> QED
        BY <3>3, <3>4, <3>5
    <2>5. feed' \in [Agents -> [Exts -> Seq(Events)]]
      <3>1. feed' = [a \in Agents |-> feed'[a]]
        BY <2>1 DEF Told
      <3>2. \A a \in Agents : feed'[a] \in [Exts -> Seq(Events)]
        BY <2>3, <2>4
      <3> QED
        BY <3>1, <3>2
    <2>6. ASSUME InStep, NEW a \in Agents, NEW f \in Exts, watch[a] = "on"
          PROVE  /\ f \in entry' => WillKnow(a, f)'
                 /\ WillKnow(a, f)' => f \in entry' \cup excused'[a]
      <3>1. CASE f = e
        BY <2>1, <2>4, <2>6, <3>1 DEF WillKnow, Events
      <3>2. CASE f # e
        <4>1. feed'[a][f] = feed[a][f] /\ cache' = cache /\ watch' = watch
          BY <2>4, <2>6, <3>2 DEF agentVars
        <4>2. WillKnow(a, f)' <=> WillKnow(a, f)
          BY <4>1 DEF WillKnow
        <4>3. f \in entry' <=> f \in entry
          BY <2>1, <3>2 DEF Events
        <4>4. f \in excused'[a] <=> f \in excused[a]
          BY <2>2, <3>2
        <4> QED
          BY <2>6, <4>2, <4>3, <4>4 DEF InStep
      <3> QED
        BY <3>1, <3>2
    <2>7. InStep => InStep'
      BY <2>6 DEF InStep, agentVars
    <2>8. bucket' \in BOOLEAN /\ entry' \subseteq Exts
      BY <2>1 DEF Events
    <2>9. excused' \in [Agents -> SUBSET Exts]
      BY <2>2
    <2> QED
      BY <2>3, <2>5, <2>7, <2>8, <2>9
  <1> QED
    BY <1>1, <1>2 DEF Written
-----------------------------------------------------------------------------
Follows == Base /\ InStep

\* At first there is no watch.
LEMMA FollowsInit == Init => Follows
  <1>1. MaxStarts \in Nat
    BY ConstantsAssumption
  <1>2. <<>> \in Seq({"put", "del"})
    BY EmptySeq
  <1>3. ASSUME Init PROVE TypeOK
    <2>1. starts \in 0 .. MaxStarts
      BY <1>1, <1>3 DEF Init
    <2>2. feed \in [Agents -> [Exts -> Seq({"put", "del"})]]
      BY <1>2, <1>3 DEF Init
    <2> QED
      BY <1>3, <2>1, <2>2 DEF Init, TypeOK
  <1>4. Init => Unwatched /\ InStep
    BY DEF Init, Unwatched, InStep
  <1> QED
    BY <1>3, <1>4 DEF Follows, Base

\* Starting, beating and closing replicas, and expiring keys, keep the watches in
\* step: a put or a deletion is the newest event of every watch, and who misses an
\* expiry is excused.
LEMMA ReplicaStep ==
    ASSUME Follows, NEW r \in Replicas,
           \/ Serve(r) \/ ServeDiscovery(r) \/ Beat(r) \/ BeatApplied(r) \/ BeatLost(r)
           \/ Stop(r) \/ Close(r) \/ Crash(r)
    PROVE  Follows'
  <1>0. ExtOf[r] \in Exts /\ MaxStarts \in Nat
    BY ConstantsAssumption
  <1> USE DEF Follows
  <1>1. CASE Serve(r) \/ Close(r) \/ BeatApplied(r)
    <2>1. /\ Written(KVPut(ExtOf[r])) \/ Written(KVDelete(ExtOf[r]))
          /\ UNCHANGED agentVars
      BY <1>1 DEF Serve, Close, BeatApplied, Written
    <2>2. /\ mode' \in [Replicas -> {"off", "starting", "up", "stopping"}]
          /\ beat' \in [Replicas -> BOOLEAN]
          /\ starts' \in 0 .. MaxStarts
      <3>1. CASE Serve(r)
        BY <1>0, <3>1 DEF Serve, Base, TypeOK
      <3>2. CASE Close(r)
        BY <3>2 DEF Close, Base, TypeOK
      <3>3. CASE BeatApplied(r)
        BY <3>3 DEF BeatApplied, Base, TypeOK
      <3> QED
        BY <1>1, <3>1, <3>2, <3>3
    <2>3. /\ bucket' \in BOOLEAN /\ entry' \subseteq Exts
          /\ feed' \in [Agents -> [Exts -> Seq(Events)]]
          /\ excused' \in [Agents -> SUBSET Exts]
          /\ \A a \in Agents, f \in Exts : watch[a] # "on" => feed'[a][f] = <<>>
          /\ InStep'
      BY <1>0, <2>1, WriteInStep DEF Base
    <2>4. TypeOK'
      BY <2>1, <2>2, <2>3 DEF Base, TypeOK, agentVars, Events
    <2>5. Unwatched'
      BY <2>1, <2>3 DEF Base, Unwatched, agentVars
    <2> QED
      BY <2>3, <2>4, <2>5 DEF Base
  <1>2. CASE ServeDiscovery(r) \/ Beat(r) \/ BeatLost(r) \/ Stop(r) \/ Crash(r)
    <2>1. UNCHANGED <<bucket, entry, starts, feed, agentVars, excused>>
      BY <1>2 DEF ServeDiscovery, Beat, BeatLost, Stop, Crash
    <2>2. /\ mode' \in [Replicas -> {"off", "starting", "up", "stopping"}]
          /\ beat' \in [Replicas -> BOOLEAN]
      <3>1. CASE ServeDiscovery(r) \/ Stop(r)
        BY <3>1 DEF ServeDiscovery, Stop, Base, TypeOK
      <3>2. CASE Beat(r) \/ BeatLost(r)
        BY <3>2 DEF Beat, BeatLost, Base, TypeOK
      <3>3. CASE Crash(r)
        BY <3>3 DEF Crash, Base, TypeOK
      <3> QED
        BY <1>2, <3>1, <3>2, <3>3
    <2> QED
      BY <2>1, <2>2 DEF agentVars, Base, TypeOK, Unwatched, InStep, WillKnow
  <1> QED
    BY <1>1, <1>2

\* So do the expiry of a key, what an agent does to its cache, and its watch's
\* start and end.
LEMMA AgentStep ==
    ASSUME Follows, NEW a \in Agents,
           \/ Discover(a) \/ Look(a) \/ Collect(a) \/ EndContext(a) \/ Restart(a)
           \/ \E r \in Replicas : Answer(a, r)
           \/ \E e \in Exts : Apply(a, e)
    PROVE  Follows'
  <1> USE DEF Follows, Base
  <1>0. <<>> \in Seq(Events) /\ <<"put">> \in Seq(Events)
    BY EmptySeq DEF Events
  <1>1. CASE Discover(a)
    <2>1. PICK then \in {"look", "dead"} :
             EnsurePresence(a, then) /\ phase' = [phase EXCEPT ![a] = then]
      BY <1>1 DEF Discover
    <2>2. /\ phase[a] = "idle"
          /\ UNCHANGED <<bucket, entry, mode, beat, starts, cache, asked, answers, excused>>
      BY <1>1 DEF Discover
    <2>3. CASE UNCHANGED <<watch, feed>> /\ (watch[a] # "none" \/ then = "dead")
      BY <2>1, <2>2, <2>3 DEF TypeOK, Unwatched, InStep, WillKnow
    <2>4. CASE /\ watch[a] = "none"
               /\ watch' = [watch EXCEPT ![a] = "on"]
               /\ feed' = [feed EXCEPT ![a] = Snapshot]
      <3>1. Snapshot \in [Exts -> Seq(Events)]
        BY <1>0 DEF Snapshot
      <3>2. TypeOK'
        BY <2>1, <2>2, <2>4, <3>1 DEF TypeOK, Events
      <3>3. Unwatched'
        BY <2>1, <2>2, <2>4 DEF TypeOK, Unwatched
      <3>4. ASSUME NEW b \in Agents, NEW e \in Exts, watch'[b] = "on"
            PROVE  /\ e \in entry' => WillKnow(b, e)'
                   /\ WillKnow(b, e)' => e \in entry' \cup excused'[b]
        <4>1. CASE b = a
          <5>1. cache[a] = {}
            BY <2>4 DEF Unwatched
          <5>2. feed'[a][e] = IF e \in entry THEN <<"put">> ELSE <<>>
            BY <2>4 DEF TypeOK, Snapshot
          <5> QED
            BY <2>2, <4>1, <5>1, <5>2 DEF WillKnow
        <4>2. CASE b # a
          BY <2>2, <2>4, <3>4, <4>2 DEF TypeOK, InStep, WillKnow
        <4> QED
          BY <4>1, <4>2
      <3> QED
        BY <3>2, <3>3, <3>4 DEF InStep
    <2> QED
      BY <2>1, <2>3, <2>4 DEF EnsurePresence
  <1>2. CASE Look(a)
    <2>1. Base'
      BY <1>2 DEF Look, TypeOK, Unwatched, Reached
    <2>2. InStep'
      BY <1>2 DEF Look, InStep, WillKnow
    <2> QED
      BY <2>1, <2>2
  <1>3. CASE Collect(a)
    <2>1. /\ phase[a] = "collect"
          /\ cache' = [cache EXCEPT ![a] = @ \cup answers[a]]
          /\ excused' = [excused EXCEPT ![a] = @ \cup (answers[a] \ entry)]
          /\ phase' = [phase EXCEPT ![a] = "idle"]
          /\ asked' = [asked EXCEPT ![a] = {}]
          /\ answers' = [answers EXCEPT ![a] = {}]
          /\ UNCHANGED <<bucket, entry, mode, beat, starts, watch, feed>>
      BY <1>3 DEF Collect
    <2>2. TypeOK'
      BY <2>1 DEF TypeOK
    <2>3. Unwatched'
      BY <2>1 DEF TypeOK, Unwatched
    <2>4. ASSUME NEW b \in Agents, NEW e \in Exts, watch'[b] = "on"
          PROVE  /\ e \in entry' => WillKnow(b, e)'
                 /\ WillKnow(b, e)' => e \in entry' \cup excused'[b]
      BY <2>1, <2>4 DEF TypeOK, InStep, WillKnow
    <2> QED
      BY <2>2, <2>3, <2>4 DEF InStep
  <1>4. CASE EndContext(a)
    BY <1>0, <1>4 DEF EndContext, TypeOK, Unwatched, InStep, WillKnow, Events
  <1>5. CASE Restart(a)
    BY <1>5 DEF Restart, TypeOK, Unwatched, InStep, WillKnow
  <1>6. ASSUME NEW r \in Replicas, Answer(a, r) PROVE Follows'
    <2>1. ExtOf[r] \in Exts
      BY ConstantsAssumption
    <2> QED
      BY <1>6, <2>1 DEF Answer, TypeOK, Unwatched, InStep, WillKnow
  <1>7. ASSUME NEW e \in Exts, Apply(a, e) PROVE Follows'
    <2>1. /\ phase[a] # "dead" /\ watch[a] = "on"
          /\ UNCHANGED <<bucket, entry, mode, beat, starts, phase, watch,
                         asked, answers, excused>>
      BY <1>7 DEF Apply
    <2>2. PICK i \in 1 .. Len(feed[a][e]) :
             /\ feed' = [feed EXCEPT ![a][e] = SubSeq(@, i + 1, Len(@))]
             /\ IF feed[a][e][i] = "put"
                THEN cache' = [cache EXCEPT ![a] = @ \cup {e}]
                ELSE cache' = [cache EXCEPT ![a] = @ \ {e}]
      BY <1>7 DEF Apply
    <2>3. feed \in [Agents -> [Exts -> Seq(Events)]] /\ feed[a][e] \in Seq(Events)
      BY DEF TypeOK, Events
    <2>4. feed'[a][e] = SubSeq(feed[a][e], i + 1, Len(feed[a][e]))
      BY <2>2, <2>3
    <2>5. /\ feed'[a][e] \in Seq(Events)
          /\ i = Len(feed[a][e]) => feed'[a][e] = <<>>
          /\ i # Len(feed[a][e]) => /\ feed'[a][e] # <<>>
                                    /\ feed'[a][e][Len(feed'[a][e])]
                                         = feed[a][e][Len(feed[a][e])]
      BY <2>3, <2>4, RestAfter
    <2>6. feed' = [feed EXCEPT ![a] = [feed[a] EXCEPT ![e] = feed'[a][e]]]
      BY <2>2, <2>4
    <2>7. feed[a][e] # <<>>
      BY <2>2, EmptySeq
    <2>8. TypeOK'
      <3>1. feed' \in [Agents -> [Exts -> Seq(Events)]]
        BY <2>3, <2>5, <2>6
      <3>2. cache' \in [Agents -> SUBSET Exts]
        <4>1. CASE cache' = [cache EXCEPT ![a] = @ \cup {e}]
          BY <4>1 DEF TypeOK
        <4>2. CASE cache' = [cache EXCEPT ![a] = @ \ {e}]
          <5>1. cache[a] \ {e} \in SUBSET Exts
            BY DEF TypeOK
          <5> QED
            BY <4>2, <5>1 DEF TypeOK
        <4> QED
          BY <2>2, <4>1, <4>2
      <3> QED
        BY <2>1, <3>1, <3>2 DEF TypeOK, Events
    <2>9. Unwatched'
      BY <2>1, <2>2, <2>3, <2>6 DEF TypeOK, Unwatched
    <2>10. ASSUME NEW b \in Agents, NEW f \in Exts, watch'[b] = "on"
           PROVE  /\ f \in entry' => WillKnow(b, f)'
                  /\ WillKnow(b, f)' => f \in entry' \cup excused'[b]
      <3>1. CASE b = a /\ f = e
        <4>1. CASE i = Len(feed[a][e])
          <5>1. f \in cache'[a] <=> feed[a][e][Len(feed[a][e])] = "put"
            BY <2>2, <3>1, <4>1 DEF TypeOK
          <5> QED
            BY <2>1, <2>5, <2>7, <3>1, <4>1, <5>1 DEF InStep, WillKnow
        <4>2. CASE i # Len(feed[a][e])
          BY <2>1, <2>5, <2>7, <3>1, <4>2 DEF InStep, WillKnow
        <4> QED
          BY <4>1, <4>2
      <3>2. CASE ~(b = a /\ f = e)
        <4>1. feed'[b][f] = feed[b][f]
          BY <2>3, <2>6, <3>2
        <4>2. f \in cache'[b] <=> f \in cache[b]
          BY <2>2, <3>2 DEF TypeOK
        <4> QED
          BY <2>1, <2>10, <4>1, <4>2 DEF InStep, WillKnow
      <3> QED
        BY <3>1, <3>2
    <2> QED
      BY <2>8, <2>9, <2>10 DEF InStep
  <1> QED
    BY <1>1, <1>2, <1>3, <1>4, <1>5, <1>6, <1>7

\* A key that expires is excused at every agent; so is a watch that finds nothing
\* of it any more.
LEMMA ExpireStep ==
    ASSUME Follows, NEW e \in Exts, Expire(e)
    PROVE  Follows'
  <1> USE DEF Follows, Base
  <1>1. /\ entry' = entry \ {e}
        /\ excused' = [a \in Agents |-> excused[a] \cup {e}]
        /\ feed' \in {feed, [a \in Agents |-> [feed[a] EXCEPT ![e] = <<>>]]}
        /\ UNCHANGED <<bucket, mode, beat, starts, phase, watch, cache, asked, answers>>
    BY DEF Expire, Excuse
  <1>2. <<>> \in Seq({"put", "del"})
    BY EmptySeq
  <1>3. /\ feed' \in [Agents -> [Exts -> Seq({"put", "del"})]]
        /\ \A a \in Agents, f \in Exts : feed'[a][f] \in {feed[a][f], <<>>}
        /\ \A a \in Agents, f \in Exts \ {e} : feed'[a][f] = feed[a][f]
    <2>1. CASE feed' = feed
      BY <2>1 DEF TypeOK
    <2>2. CASE feed' = [a \in Agents |-> [feed[a] EXCEPT ![e] = <<>>]]
      BY <1>2, <2>2 DEF TypeOK
    <2> QED
      BY <1>1, <2>1, <2>2
  <1>4. TypeOK'
    BY <1>1, <1>3 DEF TypeOK
  <1>5. Unwatched'
    BY <1>1, <1>3 DEF Unwatched
  <1>6. ASSUME NEW a \in Agents, NEW f \in Exts, watch'[a] = "on"
        PROVE  /\ f \in entry' => WillKnow(a, f)'
               /\ WillKnow(a, f)' => f \in entry' \cup excused'[a]
    <2>1. CASE f = e
      BY <1>1, <2>1
    <2>2. CASE f # e
      BY <1>1, <1>3, <1>6, <2>2 DEF InStep, WillKnow
    <2> QED
      BY <2>1, <2>2
  <1> QED
    BY <1>4, <1>5, <1>6 DEF InStep

\* Follows holds in every state of the specification.
LEMMA FollowsAlways == Spec => []Follows
  <1>1. Follows /\ [Next]_vars => Follows'
    <2>1. Follows /\ UNCHANGED vars => Follows'
      BY DEF vars, Follows, Base, TypeOK, Unwatched, InStep, WillKnow
    <2> QED
      BY <2>1, ExpireStep, ReplicaStep, AgentStep DEF Next
  <1> QED
    BY <1>1, FollowsInit, PTL DEF Spec

\* Type correctness of presence and discovery.
THEOREM PresenceTypeCorrect == Spec => []TypeOK
  BY FollowsAlways, PTL DEF Follows, Base

\* In whatever order starts, heartbeats, closes, snapshots, events and broadcast
\* answers come: an agent whose watch has nothing more to deliver about an
\* extension that is present has it in its cache.
THEOREM KnowsThePresentHolds == Spec => []KnowsThePresent
  <1>1. Follows => KnowsThePresent
    BY DEF Follows, Base, InStep, WillKnow, KnowsThePresent, UpToDate
  <1> QED
    BY <1>1, FollowsAlways, PTL

\* And it has forgotten every extension that is not present, unless the key
\* expired or Discover cached an answer after the key was gone.
THEOREM ForgetsTheAbsentHolds == Spec => []ForgetsTheAbsent
  <1>1. Follows => ForgetsTheAbsent
    BY DEF Follows, Base, InStep, WillKnow, ForgetsTheAbsent, UpToDate
  <1> QED
    BY <1>1, FollowsAlways, PTL
=============================================================================
