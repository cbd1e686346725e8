-------------------------- MODULE ConfigSync_proofs --------------------------
(***************************************************************************)
(* Theorems about one configuration key, for any number of replicas,       *)
(* values and calls and under any faults.                                  *)
(*                                                                         *)
(*  - ConfigTypeCorrect: the type invariant, for any number of agents.     *)
(*  - RevisionsGrowHolds, ConvergesHolds, RejectedIsGoneHolds: for one     *)
(*    agent.  Two agents that set one key at once draw the same revision,  *)
(*    and reach the bucket and a replica in different orders.              *)
(*  - EscapeIsReadBack, KeyIsReadBackHolds: every text is read back from   *)
(*    its escape, and every key of an item whose name has no dot as what   *)
(*    it was made of, by induction over the text.  KeysAreApart: two items *)
(*    share a key only if one's name has a dot.                            *)
(***************************************************************************)
EXTENDS ConfigSync, SequenceTheorems, WellFoundedInduction, TLAPS

\* A revision counts calls of SetConfig, and none is ahead of their number.
RevisionsCount ==
    /\ \A a \in Agents : mem[a].rev <= sets
    /\ \A i \in 1 .. Len(log) : log[i].rev <= sets

\* A replica that is down has no watch, nothing stored and nothing to do.
DownIsEmpty ==
    /\ watching \subseteq running
    /\ \A x \in Exts \ running :
          store[x] = NoValue /\ requests[x] = <<>> /\ hand[x] = NoRequest

\* Whatever is in the log is in a bucket.
LogIsInBucket == log # <<>> => bucket

Base == TypeOK /\ RevisionsCount /\ DownIsEmpty /\ LogIsInBucket

-----------------------------------------------------------------------------
\* An entry that is appended is the one that KVGet reads next.
LEMMA Appended ==
    ASSUME NEW S, NEW s \in Seq(S), NEW e \in S, NEW t, t = Append(s, e)
    PROVE  /\ t \in Seq(S) /\ t # <<>>
           /\ Len(s) \in Nat /\ Len(t) = Len(s) + 1
           /\ t[Len(t)] = e
           /\ \A i \in 1 .. Len(s) : t[i] = s[i]
  BY AppendProperties, LenProperties

\* KVGet returns an entry, and one of those in the log if there is any.
LEMMA CurrentIsEntry ==
    ASSUME TypeOK
    PROVE  /\ Current \in KVEntry /\ NoEntry \in KVEntry
           /\ log # <<>> => Len(log) \in 1 .. Len(log)
           /\ RevisionsCount => Current.rev <= sets
  <1>1. NoEntry \in KVEntry /\ sets \in Nat
    BY ConstantsAssumption DEF NoEntry, KVEntry, TypeOK
  <1>2. log \in Seq(KVEntry) /\ Len(log) \in Nat
    BY LenProperties DEF TypeOK
  <1>3. CASE log = <<>>
    BY <1>1, <1>3 DEF Current, NoEntry
  <1>4. CASE log # <<>>
    <2>1. Len(log) \in 1 .. Len(log)
      BY <1>2, <1>4, EmptySeq
    <2>2. Current = log[Len(log)] /\ log[Len(log)] \in KVEntry
      BY <1>2, <1>4, <2>1, ElementOfSeq DEF Current
    <2> QED
      BY <1>1, <1>4, <2>1, <2>2 DEF RevisionsCount
  <1> QED
    BY <1>3, <1>4

\* An entry is decoded to itself, but for a null.
LEMMA DecodedIs ==
    ASSUME NEW e \in KVEntry
    PROVE  /\ Decoded(e) \in KVEntry /\ Decoded(e).rev <= e.rev
           /\ e.val # Null => Decoded(e) = e
           /\ e.val = Null => Decoded(e).rev = 0
           /\ Decoded(e).val \in Values \cup {NoValue, Envelope}
  <1>1. e.rev \in Nat /\ 0 \in 0 .. MaxSets
    BY ConstantsAssumption DEF KVEntry
  <1>2. CASE e.val = Null
    <2>1. /\ Decoded(e) = [rev |-> 0, val |-> Envelope]
          /\ [rev |-> 0, val |-> Envelope] \in KVEntry
      BY <1>1, <1>2 DEF Decoded, KVEntry
    <2>2. Decoded(e).rev = 0 /\ Decoded(e).val = Envelope
      BY <2>1
    <2> QED
      BY <1>1, <1>2, <2>1, <2>2
  <1>3. CASE e.val # Null
    <2>1. Decoded(e) = e
      BY <1>3 DEF Decoded
    <2>2. e.val \in Values \cup {NoValue, Envelope}
      BY DEF KVEntry
    <2> QED
      BY <1>1, <1>3, <2>1, <2>2
  <1> QED
    BY <1>2, <1>3

\* What the agent takes for the key's entry when it sets it: its own or the bucket's.
LEMMA KnownEntry ==
    ASSUME Base, NEW a \in Agents, NEW known \in {mem[a], Recovered(a)}
    PROVE  known \in KVEntry /\ known.rev <= sets
  <1>1. mem[a] \in KVEntry /\ mem[a].rev <= sets
    BY DEF Base, TypeOK, RevisionsCount
  <1>2. Current \in KVEntry /\ Current.rev <= sets
    BY CurrentIsEntry DEF Base
  <1>3. /\ Decoded(Current) \in KVEntry /\ Decoded(Current).rev <= Current.rev
    BY <1>2, DecodedIs
  <1>4. Decoded(Current).rev \in Nat /\ Current.rev \in Nat /\ sets \in Nat
    BY <1>2, <1>3 DEF KVEntry, Base, TypeOK
  <1>5. Decoded(Current).rev <= sets
    BY <1>2, <1>3, <1>4
  <1> QED
    BY <1>1, <1>3, <1>5 DEF Recovered

\* A write appends an entry, and then the bucket exists; or it fails.
LEMMA KVPutStep ==
    ASSUME Base, NEW e \in KVEntry, e.rev <= sets, KVPut(e), sets' = sets
    PROVE  /\ log' \in Seq(KVEntry) /\ bucket' \in BOOLEAN
           /\ Len(log) \in Nat /\ Len(log') \in Nat /\ Len(log) <= Len(log')
           /\ \A i \in 1 .. Len(log') : log'[i].rev <= sets
           /\ upset' \in {upset, upset \cup {"write"}}
           /\ LogIsInBucket'
  <1>0. log \in Seq(KVEntry) /\ bucket \in BOOLEAN /\ Len(log) \in Nat
    BY LenProperties DEF Base, TypeOK
  <1>1. CASE log' = Append(log, e) /\ bucket' = TRUE /\ UNCHANGED upset
    <2>1. /\ log' \in Seq(KVEntry)
          /\ Len(log') = Len(log) + 1
          /\ log'[Len(log')] = e
          /\ \A i \in 1 .. Len(log) : log'[i] = log[i]
      BY <1>0, <1>1, Appended
    <2>2. ASSUME NEW i \in 1 .. Len(log') PROVE log'[i].rev <= sets
      <3>1. i \in 1 .. Len(log) \/ i = Len(log')
        BY <1>0, <2>1, <2>2
      <3> QED
        BY <2>1, <3>1 DEF Base, RevisionsCount
    <2> QED
      BY <1>0, <1>1, <2>1, <2>2 DEF LogIsInBucket
  <1>2. CASE UNCHANGED <<log, bucket>> /\ upset' = upset \cup {"write"}
    BY <1>0, <1>2 DEF Base, RevisionsCount, LogIsInBucket
  <1> QED
    BY <1>1, <1>2 DEF KVPut
-----------------------------------------------------------------------------
\* The first state is typed; nobody is up and nothing has been set.
LEMMA BaseInit == Init => Base
  <1> SUFFICES ASSUME Init PROVE Base
    OBVIOUS
  <1>1. NoEntry \in KVEntry /\ NoRequest \in Request
    BY ConstantsAssumption DEF NoEntry, KVEntry, NoRequest, Request
  <1>2. log \in Seq(KVEntry) /\ Len(log) = 0 /\ <<>> \in Seq(Request)
    BY EmptySeq DEF Init
  <1>3. sets \in 0 .. MaxSets /\ scope \in Scopes
    BY ConstantsAssumption DEF Init
  <1>4. requests \in [Exts -> Seq(Request)] /\ hand \in [Exts -> Request]
    BY <1>1, <1>2 DEF Init
  <1>5. mem \in [Agents -> KVEntry] /\ draft \in [Agents -> Request]
    BY <1>1 DEF Init
  <1>6. seen \in [Exts -> 0 .. Len(log)]
    BY <1>2 DEF Init
  <1>7. TypeOK
    BY <1>2, <1>3, <1>4, <1>5, <1>6 DEF Init, TypeOK
  <1>8. RevisionsCount
    BY <1>2 DEF Init, RevisionsCount, NoEntry
  <1>9. DownIsEmpty /\ LogIsInBucket
    BY DEF Init, DownIsEmpty, LogIsInBucket
  <1> QED
    BY <1>7, <1>8, <1>9 DEF Base

\* Setting a key counts one call, and draws at most its number as the revision.
LEMMA SetConfigBase ==
    ASSUME Base, NEW a \in Agents, SetConfig(a)
    PROVE  Base'
  <1>1. PICK v \in Values, ack \in Acks, known \in {mem[a], Recovered(a)} :
           /\ Declare(a, known)
           /\ mem' = [mem EXCEPT ![a] = [rev |-> known.rev + 1, val |-> v]]
           /\ draft' = [draft EXCEPT ![a] = [n |-> sets', val |-> v, ack |-> ack]]
    BY DEF SetConfig
  <1>2. /\ sets < MaxSets /\ sets' = sets + 1
        /\ phase' = [phase EXCEPT ![a] = "persist"]
        /\ returned' = [returned EXCEPT ![a] = "none"]
        /\ UNCHANGED <<reply, log, bucket, running, watching, seen, store, requests, hand, scope>>
    BY DEF SetConfig, extVars
  <1>3. sets \in Nat /\ MaxSets \in Nat /\ sets' \in 0 .. MaxSets
    BY <1>2, ConstantsAssumption DEF Base, TypeOK
  <1>4. known \in KVEntry /\ known.rev <= sets
    BY KnownEntry
  <1>5. known.rev \in Nat /\ known.rev + 1 <= sets'
    BY <1>2, <1>3, <1>4 DEF KVEntry
  <1>6. /\ [rev |-> known.rev + 1, val |-> v] \in KVEntry
        /\ [n |-> sets', val |-> v, ack |-> ack] \in Request
    BY <1>3, <1>5, ConstantsAssumption DEF KVEntry, Request
  <1>7. upset' \subseteq {"write", "read", "call", "late", "unheard", "null"}
    BY <1>1 DEF Declare, Base, TypeOK
  <1>8. TypeOK'
    BY <1>1, <1>2, <1>3, <1>6, <1>7 DEF Base, TypeOK
  <1>9. RevisionsCount'
    <2>1. ASSUME NEW b \in Agents PROVE mem'[b].rev <= sets'
      <3>1. CASE b = a
        BY <1>1, <1>5, <3>1 DEF Base, TypeOK
      <3>2. CASE b # a
        <4>1. mem'[b] = mem[b] /\ mem[b].rev <= sets /\ mem[b].rev \in Nat
          BY <1>1, <3>2 DEF Base, TypeOK, RevisionsCount, KVEntry
        <4> QED
          BY <1>2, <1>3, <4>1
      <3> QED
        BY <3>1, <3>2
    <2>2. ASSUME NEW i \in 1 .. Len(log) PROVE log[i].rev <= sets'
      <3>1. log[i].rev \in Nat /\ log[i].rev <= sets
        <4>1. log[i] \in KVEntry
          BY ElementOfSeq DEF Base, TypeOK
        <4> QED
          BY <4>1 DEF Base, RevisionsCount, KVEntry
      <3> QED
        BY <1>2, <1>3, <3>1
    <2> QED
      BY <1>2, <2>1, <2>2 DEF RevisionsCount
  <1>10. DownIsEmpty' /\ LogIsInBucket'
    BY <1>2 DEF Base, DownIsEmpty, LogIsInBucket
  <1> QED
    BY <1>8, <1>9, <1>10 DEF Base

\* So do an agent's writes to the bucket: it writes its own entry, or a deletion.
LEMMA WriteBase ==
    ASSUME Base, NEW a \in Agents, Persist(a) \/ RolledBack(a) \/ DropSessionConfig(a)
    PROVE  Base'
  <1>1. NoEntry \in KVEntry /\ NoEntry.rev = 0 /\ sets \in Nat
    BY CurrentIsEntry DEF Base, NoEntry, TypeOK
  <1>2. mem[a] \in KVEntry /\ mem[a].rev <= sets
    BY DEF Base, TypeOK, RevisionsCount
  <1>3. /\ UNCHANGED <<draft, sets, running, watching, seen, store, requests, hand, scope>>
        /\ mem' = mem \/ mem' = [mem EXCEPT ![a] = NoEntry]
    BY DEF Persist, RolledBack, DropSessionConfig, extVars
  <1>4. /\ phase' \in [Agents -> {"idle", "persist", "send", "wait"}]
        /\ reply' \in [Agents -> {"none", "ok", "rejected"}]
        /\ returned' \in [Agents -> {"none", "nil", "invalid_argument", "retryable"}]
    BY DEF Persist, RolledBack, DropSessionConfig, Base, TypeOK
  <1>5. \/ UNCHANGED <<log, bucket, upset>>
        \/ \E e \in KVEntry : e.rev <= sets /\ KVPut(e)
    BY <1>1, <1>2 DEF Persist, RolledBack, DropSessionConfig, KVDelete
  <1>6. /\ log' \in Seq(KVEntry) /\ bucket' \in BOOLEAN
        /\ Len(log) \in Nat /\ Len(log') \in Nat /\ Len(log) <= Len(log')
        /\ \A i \in 1 .. Len(log') : log'[i].rev <= sets
        /\ upset' \in {upset, upset \cup {"write"}}
        /\ LogIsInBucket'
    <2>1. CASE UNCHANGED <<log, bucket, upset>>
      BY <2>1, LenProperties DEF Base, TypeOK, RevisionsCount, LogIsInBucket
    <2>2. CASE \E e \in KVEntry : e.rev <= sets /\ KVPut(e)
      BY <1>3, <2>2, KVPutStep
    <2> QED
      BY <1>5, <2>1, <2>2
  <1>7. seen' \in [Exts -> 0 .. Len(log')]
    <2>1. \A x \in Exts : seen[x] \in 0 .. Len(log')
      BY <1>6 DEF Base, TypeOK
    <2> QED
      BY <1>3, <2>1 DEF Base, TypeOK
  <1>8. mem' \in [Agents -> KVEntry] /\ \A b \in Agents : mem'[b].rev <= sets
    <2>1. CASE mem' = mem
      BY <2>1 DEF Base, TypeOK, RevisionsCount
    <2>2. CASE mem' = [mem EXCEPT ![a] = NoEntry]
      <3>1. NoEntry.rev <= sets
        BY <1>1
      <3> QED
        BY <1>1, <2>2, <3>1 DEF Base, TypeOK, RevisionsCount
    <2> QED
      BY <1>3, <2>1, <2>2
  <1>9. TypeOK'
    BY <1>3, <1>4, <1>6, <1>7, <1>8 DEF Base, TypeOK
  <1>10. RevisionsCount' /\ DownIsEmpty'
    BY <1>3, <1>6, <1>8 DEF Base, RevisionsCount, DownIsEmpty
  <1> QED
    BY <1>6, <1>9, <1>10 DEF Base

\* The agent's steps that leave the bucket alone.
LEMMA AgentBase ==
    ASSUME Base, NEW a \in Agents,
           \/ SetRefused(a) \/ Send(a) \/ Expire(a) \/ Acked(a) \/ AgentRestart(a)
    PROVE  Base'
  <1>0. NoEntry \in KVEntry /\ NoEntry.rev = 0 /\ sets \in Nat
    BY CurrentIsEntry DEF Base, NoEntry, TypeOK
  <1>1. /\ UNCHANGED <<draft, sets, log, bucket, running, watching, seen, store, hand, scope>>
        /\ requests' = requests \/ \E x \in running :
              requests' = [requests EXCEPT ![x] = Append(@, draft[a])]
    BY DEF SetRefused, Send, Expire, Acked, AgentRestart, extVars
  <1>2. /\ phase' \in [Agents -> {"idle", "persist", "send", "wait"}]
        /\ reply' \in [Agents -> {"none", "ok", "rejected"}]
        /\ returned' \in [Agents -> {"none", "nil", "invalid_argument", "retryable"}]
        /\ upset' \subseteq {"write", "read", "call", "late", "unheard", "null"}
    BY DEF SetRefused, Send, Expire, Acked, AgentRestart, Declare, Base, TypeOK
  <1>3. \E e \in KVEntry : e.rev <= sets /\ (mem' = mem \/ mem' = [mem EXCEPT ![a] = e])
    <2>1. CASE SetRefused(a)
      BY <2>1, KnownEntry DEF SetRefused
    <2>2. CASE AgentRestart(a)
      <3>1. mem' = [mem EXCEPT ![a] = NoEntry]
        BY <2>2 DEF AgentRestart
      <3>2. NoEntry \in KVEntry /\ NoEntry.rev <= sets
        BY <1>0
      <3> QED
        BY <3>1, <3>2
    <2>3. CASE Send(a) \/ Expire(a) \/ Acked(a)
      BY <1>0, <2>3 DEF Send, Expire, Acked
    <2> QED
      BY <2>1, <2>2, <2>3
  <1>4. mem' \in [Agents -> KVEntry] /\ \A b \in Agents : mem'[b].rev <= sets
    BY <1>3 DEF Base, TypeOK, RevisionsCount
  <1>5. /\ requests' \in [Exts -> Seq(Request)]
        /\ \A x \in Exts \ running : requests'[x] = requests[x]
    <2>1. CASE requests' = requests
      BY <2>1 DEF Base, TypeOK
    <2>2. ASSUME NEW x \in running, requests' = [requests EXCEPT ![x] = Append(@, draft[a])]
          PROVE  /\ requests' \in [Exts -> Seq(Request)]
                 /\ \A y \in Exts \ running : requests'[y] = requests[y]
      <3>1. x \in Exts /\ requests[x] \in Seq(Request) /\ draft[a] \in Request
        BY DEF Base, TypeOK
      <3>2. Append(requests[x], draft[a]) \in Seq(Request)
        BY <3>1, AppendProperties
      <3> QED
        BY <2>2, <3>1, <3>2 DEF Base, TypeOK
    <2> QED
      BY <1>1, <2>1, <2>2
  <1>6. TypeOK'
    BY <1>1, <1>2, <1>4, <1>5 DEF Base, TypeOK
  <1>7. RevisionsCount' /\ DownIsEmpty' /\ LogIsInBucket'
    BY <1>1, <1>4, <1>5 DEF Base, RevisionsCount, DownIsEmpty, LogIsInBucket
  <1> QED
    BY <1>6, <1>7 DEF Base

\* A replica stores values of the log and of requests only.
LEMMA ReplicaBase ==
    ASSUME Base, NEW x \in Exts, Serve(x) \/ Replica(x) \/ Stop(x)
    PROVE  Base'
  <1>0. Len(log) \in Nat /\ (log # <<>> => Len(log) - 1 \in Nat)
    BY LenProperties, EmptySeq DEF Base, TypeOK
  <1>1. UNCHANGED <<mem, phase, draft, returned, sets, log, bucket, scope>>
    BY DEF Serve, Replica, ApplyConfigKV, ApplyConfigSet, OnConfigChange, Stop, agentVars
  <1>2. RevisionsCount' /\ LogIsInBucket'
    BY <1>1 DEF Base, RevisionsCount, LogIsInBucket
  <1>3. CASE Serve(x)
    <2>1. seen' \in [Exts -> 0 .. Len(log)]
      BY <1>0, <1>3 DEF Serve, Base, TypeOK
    <2>2. TypeOK'
      BY <1>1, <1>3, <2>1 DEF Serve, Base, TypeOK, agentVars
    <2>3. DownIsEmpty'
      BY <1>3 DEF Serve, Base, DownIsEmpty
    <2> QED
      BY <1>2, <2>2, <2>3 DEF Base
  <1>4. CASE ApplyConfigKV(x)
    <2>1. PICK i \in seen[x] + 1 .. Len(log) :
             /\ seen' = [seen EXCEPT ![x] = i]
             /\ store' = [store EXCEPT ![x] =
                            IF log[i] = NoEntry /\ scope = "session" THEN @
                            ELSE Decoded(log[i]).val]
      BY <1>4 DEF ApplyConfigKV
    <2>2. seen[x] \in Nat /\ i \in 1 .. Len(log)
      BY <1>0, <2>1 DEF Base, TypeOK
    <2>3. log[i] \in KVEntry
      BY <2>2, ElementOfSeq DEF Base, TypeOK
    <2>4. Decoded(log[i]).val \in Values \cup {NoValue, Envelope}
      BY <2>3, DecodedIs
    <2>5. TypeOK'
      BY <1>0, <1>1, <1>4, <2>1, <2>2, <2>4 DEF ApplyConfigKV, Base, TypeOK, agentVars
    <2>6. DownIsEmpty'
      BY <1>4, <2>1 DEF ApplyConfigKV, Base, TypeOK, DownIsEmpty
    <2> QED
      BY <1>2, <2>5, <2>6 DEF Base
  <1>5. CASE ApplyConfigSet(x)
    <2>1. /\ x \in running /\ requests[x] # <<>>
          /\ hand' = [hand EXCEPT ![x] = Head(requests[x])]
          /\ requests' = [requests EXCEPT ![x] = Tail(@)]
          /\ store' = [store EXCEPT ![x] = Head(requests[x]).val]
          /\ UNCHANGED <<running, watching, seen, agentVars, log, bucket, scope>>
      BY <1>5 DEF ApplyConfigSet
    <2>2. Head(requests[x]) \in Request /\ Tail(requests[x]) \in Seq(Request)
      BY <2>1, HeadTailProperties DEF Base, TypeOK
    <2>3. Head(requests[x]).val \in Values \cup {NoValue}
      BY <2>2 DEF Request
    <2>4. TypeOK'
      BY <2>1, <2>2, <2>3 DEF Base, TypeOK, agentVars
    <2>5. DownIsEmpty'
      BY <2>1 DEF Base, TypeOK, DownIsEmpty
    <2> QED
      BY <1>2, <2>4, <2>5 DEF Base
  <1>6. CASE OnConfigChange(x)
    <2>1. /\ hand[x] # NoRequest /\ hand' = [hand EXCEPT ![x] = NoRequest]
          /\ store' = store \/ store' = [store EXCEPT ![x] = NoValue]
          /\ upset' = upset \/ upset' = upset \cup {"unheard"}
          /\ UNCHANGED <<running, watching, seen, requests>>
      BY <1>6 DEF OnConfigChange
    <2>2. \A b \in Agents : reply'[b] \in {reply[b], "ok", "rejected"}
      BY <1>6 DEF OnConfigChange, Answered
    <2>3. reply' \in [Agents -> {"none", "ok", "rejected"}]
      <3>1. reply' = [b \in Agents |-> reply'[b]]
        BY <1>6 DEF OnConfigChange, Answered
      <3> QED
        BY <2>2, <3>1 DEF Base, TypeOK
    <2>4. NoRequest \in Request
      BY ConstantsAssumption DEF NoRequest, Request
    <2>5. TypeOK'
      BY <1>1, <2>1, <2>3, <2>4 DEF Base, TypeOK
    <2>6. DownIsEmpty'
      BY <2>1 DEF Base, TypeOK, DownIsEmpty
    <2> QED
      BY <1>2, <2>5, <2>6 DEF Base
  <1>7. CASE Stop(x)
    <2>1. NoRequest \in Request /\ <<>> \in Seq(Request)
      BY ConstantsAssumption, EmptySeq DEF NoRequest, Request
    <2>2. TypeOK'
      BY <1>7, <2>1 DEF Stop, Base, TypeOK, agentVars
    <2>3. DownIsEmpty'
      BY <1>7 DEF Stop, Base, TypeOK, DownIsEmpty
    <2> QED
      BY <1>2, <2>2, <2>3 DEF Base
  <1> QED
    BY <1>3, <1>4, <1>5, <1>6, <1>7 DEF Replica

\* Base holds in every state of the specification.
LEMMA BaseAlways == Spec => []Base
  <1>1. Base /\ [Next]_vars => Base'
    <2>1. Base /\ UNCHANGED vars => Base'
      <3> SUFFICES ASSUME Base, UNCHANGED vars PROVE Base'
        OBVIOUS
      <3>1. /\ UNCHANGED <<mem, phase, draft, reply, returned, log, bucket, running>>
            /\ UNCHANGED <<watching, seen, store, requests, hand, sets, scope, upset>>
        BY DEF vars
      <3> QED
        BY <3>1 DEF Base, TypeOK, RevisionsCount, DownIsEmpty, LogIsInBucket
    <2> QED
      BY <2>1, SetConfigBase, WriteBase, AgentBase, ReplicaBase DEF Next, Authority
  <1> QED
    BY <1>1, BaseInit, PTL DEF Spec

\* Type correctness: in particular a revision counts calls of SetConfig, and none
\* counts twice.
THEOREM ConfigTypeCorrect == Spec => []TypeOK
  BY BaseAlways, PTL DEF Base
-----------------------------------------------------------------------------
\* There is at most one agent.
Alone == \A a, b \in Agents : a = b

\* What a step does to the log.
LEMMA LogStep ==
    ASSUME Base, [Next]_vars
    PROVE  \/ UNCHANGED log
           \/ \E a \in Agents :
                 /\ Persist(a) \/ RolledBack(a) \/ DropSessionConfig(a)
                 /\ \E e \in KVEntry :
                       /\ log' = Append(log, e) /\ UNCHANGED upset
                       /\ e = IF phase[a] = "persist" THEN mem[a] ELSE NoEntry
  <1>1. ASSUME NEW a \in Agents, Persist(a) \/ RolledBack(a) \/ DropSessionConfig(a)
        PROVE  \/ UNCHANGED log
               \/ \E e \in KVEntry :
                     /\ log' = Append(log, e) /\ UNCHANGED upset
                     /\ e = IF phase[a] = "persist" THEN mem[a] ELSE NoEntry
    <2>1. mem[a] \in KVEntry /\ NoEntry \in KVEntry
      BY CurrentIsEntry DEF Base, TypeOK
    <2>2. CASE Persist(a)
      BY <2>1, <2>2 DEF Persist, KVPut
    <2>3. CASE RolledBack(a)
      BY <2>1, <2>3 DEF RolledBack, KVPut, KVDelete
    <2>4. CASE DropSessionConfig(a)
      BY <2>1, <2>4 DEF DropSessionConfig, KVPut, KVDelete
    <2> QED
      BY <1>1, <2>2, <2>3, <2>4
  <1>2. ASSUME NEW a \in Agents,
               SetConfig(a) \/ SetRefused(a) \/ Send(a) \/ Expire(a) \/ Acked(a) \/ AgentRestart(a)
        PROVE  UNCHANGED log
    BY <1>2 DEF SetConfig, SetRefused, Send, Expire, Acked, AgentRestart
  <1>3. ASSUME NEW x \in Exts, Serve(x) \/ Replica(x) \/ Stop(x)
        PROVE  UNCHANGED log
    BY <1>3 DEF Serve, Replica, ApplyConfigKV, ApplyConfigSet, OnConfigChange, Stop
  <1>4. CASE UNCHANGED vars
    BY <1>4 DEF vars
  <1> QED
    BY <1>1, <1>2, <1>3, <1>4 DEF Next, Authority

\* What went wrong is remembered, and the key keeps its scope.
LEMMA UpsetStep ==
    ASSUME Base, [Next]_vars
    PROVE  upset \subseteq upset' /\ scope' = scope
  <1>1. ASSUME NEW a \in Agents,
               \/ SetConfig(a) \/ SetRefused(a) \/ Authority(a)
               \/ DropSessionConfig(a) \/ AgentRestart(a)
        PROVE  upset \subseteq upset' /\ scope' = scope
    BY <1>1 DEF SetConfig, SetRefused, Authority, Persist, Send, Expire, Acked, RolledBack,
                DropSessionConfig, AgentRestart, Declare, KVPut, KVDelete
  <1>2. ASSUME NEW x \in Exts, Serve(x) \/ Replica(x) \/ Stop(x)
        PROVE  upset \subseteq upset' /\ scope' = scope
    BY <1>2 DEF Serve, Replica, ApplyConfigKV, ApplyConfigSet, OnConfigChange, Stop, agentVars
  <1>3. CASE UNCHANGED vars
    BY <1>3 DEF vars
  <1> QED
    BY <1>1, <1>2, <1>3 DEF Next

\* The newest revision of a global key is the last one since its last deletion, and
\* what an agent is about to write is newer.
Newest ==
    scope = "global" /\ upset \cap {"read", "null"} = {} =>
        /\ \A i \in 1 .. Len(log) :
              (\A j \in i .. Len(log) : log[j] # NoEntry) => log[i].rev <= Current.rev
        /\ \A a \in Agents : phase[a] = "persist" => mem[a].rev > Current.rev

\* One agent keeps it that way: it draws its revisions from what it has read back, and
\* nobody writes between the draw and its write.
LEMMA NewestStep ==
    ASSUME Alone, Base, Newest, [Next]_vars
    PROVE  Newest'
  <1> SUFFICES ASSUME scope = "global", upset \cap {"read", "null"} = {},
                      "read" \notin upset', "null" \notin upset'
               PROVE  /\ \A i \in 1 .. Len(log') :
                            (\A j \in i .. Len(log') : log'[j] # NoEntry)
                               => log'[i].rev <= Current'.rev
                      /\ \A a \in Agents : phase'[a] = "persist" => mem'[a].rev > Current'.rev
    BY UpsetStep DEF Newest
  <1>0. /\ log \in Seq(KVEntry) /\ Len(log) \in Nat
        /\ Current \in KVEntry /\ Current.rev \in Nat
        /\ \A a \in Agents : mem[a] \in KVEntry /\ mem[a].rev \in Nat
    BY CurrentIsEntry, LenProperties DEF Base, TypeOK, KVEntry
  <1>1. CASE UNCHANGED log
    <2>1. Current' = Current
      BY <1>1 DEF Current
    <2>2. ASSUME NEW a \in Agents, phase'[a] = "persist"
          PROVE  mem'[a].rev > Current.rev
      <3>1. CASE SetConfig(a)
        <4>1. PICK v \in Values, known \in {mem[a], Recovered(a)} :
                 /\ Declare(a, known)
                 /\ mem' = [mem EXCEPT ![a] = [rev |-> known.rev + 1, val |-> v]]
          BY <3>1 DEF SetConfig
        <4>2. known = Recovered(a) /\ ~NullAhead(a)
          BY <4>1 DEF Declare
        <4>3. known.rev \in Nat /\ known.rev >= Current.rev
          <5>1. /\ Decoded(Current).rev \in Nat
                /\ Current.val # Null => Decoded(Current) = Current
                /\ Current.val = Null => Decoded(Current).rev = 0
            BY <1>0, DecodedIs DEF KVEntry
          <5>2. Current.val = Null => Current.rev <= mem[a].rev
            BY <1>0, <4>2 DEF NullAhead
          <5>3. mem[a] = NoEntry => mem[a].rev = 0
            BY DEF NoEntry
          <5>4. CASE mem[a] = NoEntry \/ Decoded(Current).rev > mem[a].rev
            <6>1. known = Decoded(Current)
              BY <4>2, <5>4 DEF Recovered
            <6> QED
              BY <1>0, <5>1, <5>2, <5>3, <5>4, <6>1
          <5>5. CASE ~(mem[a] = NoEntry \/ Decoded(Current).rev > mem[a].rev)
            <6>1. known = mem[a]
              BY <4>2, <5>5 DEF Recovered
            <6> QED
              BY <1>0, <5>1, <5>2, <5>5, <6>1
          <5> QED
            BY <5>4, <5>5
        <4>4. mem'[a].rev = known.rev + 1
          BY <4>1 DEF Base, TypeOK
        <4> QED
          BY <1>0, <4>3, <4>4
      <3>2. CASE ~SetConfig(a)
        <4>1. \A b \in Agents : b = a
          BY DEF Alone
        <4>2. phase[a] = "persist" /\ mem'[a] = mem[a]
          <5>1. ASSUME SetRefused(a) \/ Authority(a) \/ DropSessionConfig(a) \/ AgentRestart(a)
                PROVE  phase[a] = "persist" /\ mem'[a] = mem[a]
            BY <2>2, <5>1 DEF SetRefused, Authority, Persist, Send, Expire, Acked, RolledBack,
                              DropSessionConfig, AgentRestart, Base, TypeOK
          <5>2. ASSUME NEW x \in Exts, Serve(x) \/ Replica(x) \/ Stop(x)
                PROVE  UNCHANGED <<phase, mem>>
            BY <5>2 DEF Serve, Replica, ApplyConfigKV, ApplyConfigSet, OnConfigChange, Stop,
                        agentVars
          <5>3. CASE UNCHANGED vars
            BY <2>2, <5>3 DEF vars
          <5> QED
            BY <2>2, <3>2, <4>1, <5>1, <5>2, <5>3 DEF Next
        <4> QED
          BY <4>2 DEF Newest
      <3> QED
        BY <3>1, <3>2
    <2> QED
      BY <1>1, <2>1, <2>2 DEF Newest
  <1>2. ASSUME NEW a \in Agents, Persist(a) \/ RolledBack(a) \/ DropSessionConfig(a),
               NEW e \in KVEntry, log' = Append(log, e),
               e = IF phase[a] = "persist" THEN mem[a] ELSE NoEntry
        PROVE  /\ \A i \in 1 .. Len(log') :
                     (\A j \in i .. Len(log') : log'[j] # NoEntry)
                        => log'[i].rev <= Current'.rev
               /\ \A b \in Agents : phase'[b] = "persist" => mem'[b].rev > Current'.rev
    <2>1. /\ log' # <<>> /\ Len(log') = Len(log) + 1 /\ log'[Len(log')] = e
          /\ \A i \in 1 .. Len(log) : log'[i] = log[i]
      BY <1>0, <1>2, Appended
    <2>2. Current' = e
      BY <2>1 DEF Current
    <2>3. phase'[a] # "persist"
      BY <1>2 DEF Persist, RolledBack, DropSessionConfig, Base, TypeOK
    <2>4. ASSUME NEW i \in 1 .. Len(log'), \A j \in i .. Len(log') : log'[j] # NoEntry
          PROVE  log'[i].rev <= e.rev
      <3>1. e # NoEntry /\ phase[a] = "persist" /\ e = mem[a]
        BY <1>0, <1>2, <2>1, <2>4
      <3>2. mem[a].rev > Current.rev
        BY <3>1 DEF Newest
      <3>3. CASE i = Len(log')
        BY <1>0, <2>1, <3>1, <3>3
      <3>4. CASE i # Len(log')
        <4>1. i \in 1 .. Len(log) /\ log'[i] = log[i]
          BY <1>0, <2>1, <3>4
        <4>2. \A j \in i .. Len(log) : j \in 1 .. Len(log) /\ j \in i .. Len(log')
          BY <1>0, <2>1, <4>1
        <4>3. \A j \in i .. Len(log) : log[j] # NoEntry
          BY <2>1, <2>4, <4>2
        <4>4. log[i].rev <= Current.rev
          BY <4>1, <4>3 DEF Newest
        <4>5. log[i] \in KVEntry
          BY <1>0, <4>1, ElementOfSeq
        <4>6. log[i].rev \in Nat
          BY <4>5 DEF KVEntry
        <4> QED
          BY <1>0, <3>1, <3>2, <4>1, <4>4, <4>6
      <3> QED
        BY <3>3, <3>4
    <2> QED
      BY <2>2, <2>3, <2>4 DEF Alone
  <1> QED
    BY <1>1, <1>2, LogStep

\* Newest holds in every state of the specification.
LEMMA NewestAlways ==
    ASSUME Alone
    PROVE  Spec => []Newest
  <1>1. Init => Newest
    <2>1. Len(<<>>) = 0
      BY EmptySeq
    <2> QED
      BY <2>1 DEF Init, Newest
  <1>2. Base /\ Newest /\ [Next]_vars => Newest'
    BY NewestStep
  <1> QED
    BY <1>1, <1>2, BaseAlways, PTL DEF Spec

\* One agent writes the values of a global key to the bucket under growing revisions,
\* through its restarts and failed writes, until a rejection deletes the key or the
\* revision cannot be read back, because the read fails or the value is a null.
THEOREM RevisionsGrowHolds ==
    ASSUME Alone
    PROVE  Spec => RevisionsGrow
  <1> DEFINE Grow ==
        \A i \in 1 .. Len(log) :
            /\ scope = "global" /\ upset \cap {"read", "null"} = {} /\ Len(log') > Len(log)
            /\ \A j \in i .. Len(log') : log'[j] # NoEntry
            => log[i].rev < log'[Len(log')].rev
  <1>1. ASSUME Base, Newest, [Next]_vars PROVE Grow
    <2> SUFFICES ASSUME NEW i \in 1 .. Len(log), scope = "global",
                        upset \cap {"read", "null"} = {},
                        Len(log') > Len(log),
                        \A j \in i .. Len(log') : log'[j] # NoEntry
                 PROVE  log[i].rev < log'[Len(log')].rev
      OBVIOUS
    <2>0. log \in Seq(KVEntry) /\ Len(log) \in Nat
      BY <1>1, LenProperties DEF Base, TypeOK
    <2>1. PICK a \in Agents, e \in KVEntry :
             /\ log' = Append(log, e)
             /\ e = IF phase[a] = "persist" THEN mem[a] ELSE NoEntry
      BY <1>1, <2>0, LogStep
    <2>2. /\ Len(log') = Len(log) + 1 /\ log'[Len(log')] = e
          /\ \A j \in 1 .. Len(log) : log'[j] = log[j]
      BY <2>0, <2>1, Appended
    <2>3. phase[a] = "persist" /\ e = mem[a]
      BY <2>0, <2>1, <2>2
    <2>4. mem[a].rev > Current.rev
      BY <1>1, <2>3 DEF Newest
    <2>5. \A j \in i .. Len(log) : j \in 1 .. Len(log) /\ j \in i .. Len(log')
      BY <2>0, <2>2
    <2>6. log[i].rev <= Current.rev
      BY <1>1, <2>2, <2>5 DEF Newest
    <2>7. log[i] \in KVEntry /\ Current \in KVEntry
      BY <1>1, <2>0, CurrentIsEntry, ElementOfSeq DEF Base
    <2>8. log[i].rev \in Nat /\ Current.rev \in Nat /\ e.rev \in Nat
      BY <2>7 DEF KVEntry
    <2> QED
      BY <2>2, <2>3, <2>4, <2>6, <2>8
  <1>2. Base /\ Newest /\ [Next]_vars => [Grow]_vars
    BY <1>1
  <1> QED
    BY <1>2, BaseAlways, NewestAlways, PTL DEF Spec, RevisionsGrow
-----------------------------------------------------------------------------
\* After a call that reported a rejection the bucket holds the deletion; a replica
\* that has read it keeps a rejected value only as long as OnConfigChange looks at it.
TakenBack ==
    scope = "global" /\ "write" \notin upset =>
        /\ \A a \in Agents :
              returned[a] = "retryable" => phase[a] = "idle" /\ Current = NoEntry
        /\ \A x \in watching :
              seen[x] = Len(log) /\ Current = NoEntry =>
                 \/ store[x] \notin Rejected
                 \/ hand[x] # NoRequest /\ store[x] = hand[x].val

\* A replica's steps: what the watch delivers last is the deletion, and requests that
\* are late pass OnConfigChange.
LEMMA TakenBackReplica ==
    ASSUME Base, TakenBack, scope = "global", "write" \notin upset,
           NEW y \in Exts, Serve(y) \/ Replica(y) \/ Stop(y),
           NEW x \in watching', seen'[x] = Len(log), Current = NoEntry
    PROVE  \/ store'[x] \notin Rejected
           \/ hand'[x] # NoRequest /\ store'[x] = hand'[x].val
  <1>0. /\ NoValue \notin Rejected /\ NoEntry.val = NoValue /\ NoRequest.val = NoValue
        /\ Len(log) \in Nat
    BY ConstantsAssumption, LenProperties DEF NoEntry, NoRequest, Base, TypeOK
  <1>1. CASE Serve(y)
    <2>1. /\ watching' \subseteq watching \cup {y} /\ y \notin running
          /\ seen' = [seen EXCEPT ![y] = IF log = <<>> THEN 0 ELSE Len(log) - 1]
          /\ UNCHANGED <<store, hand>>
      BY <1>1 DEF Serve
    <2>2. CASE x = y
      BY <1>0, <2>1, <2>2 DEF Base, DownIsEmpty
    <2>3. CASE x # y
      BY <2>1, <2>3 DEF TakenBack, Base, TypeOK
    <2> QED
      BY <2>2, <2>3
  <1>2. CASE ApplyConfigKV(y)
    <2>1. PICK i \in seen[y] + 1 .. Len(log) :
             /\ seen' = [seen EXCEPT ![y] = i]
             /\ store' = [store EXCEPT ![y] = Decoded(log[i]).val]
      BY <1>2 DEF ApplyConfigKV
    <2>2. UNCHANGED <<watching, hand>>
      BY <1>2 DEF ApplyConfigKV
    <2>3. CASE x = y
      <3>1. i = Len(log) /\ seen[y] \in Nat
        BY <2>1, <2>3 DEF Base, TypeOK
      <3>2. log # <<>>
        BY <1>0, <2>1, <3>1, EmptySeq
      <3>3. Decoded(log[i]) = NoEntry
        <4>1. log[i] = NoEntry
          BY <3>1, <3>2 DEF Current
        <4> QED
          BY <1>0, <4>1, ConstantsAssumption DEF Decoded
      <3> QED
        BY <1>0, <2>1, <2>3, <3>3 DEF Base, TypeOK
    <2>4. CASE x # y
      BY <2>1, <2>2, <2>4 DEF TakenBack, Base, TypeOK
    <2> QED
      BY <2>3, <2>4
  <1>3. CASE ApplyConfigSet(y)
    <2>1. /\ hand' = [hand EXCEPT ![y] = Head(requests[y])]
          /\ store' = [store EXCEPT ![y] = Head(requests[y]).val]
          /\ UNCHANGED <<watching, seen>>
      BY <1>3 DEF ApplyConfigSet
    <2> QED
      BY <1>0, <2>1 DEF TakenBack, Base, TypeOK
  <1>4. CASE OnConfigChange(y)
    <2>1. /\ hand' = [hand EXCEPT ![y] = NoRequest]
          /\ store' = IF hand[y].val \in Rejected THEN [store EXCEPT ![y] = NoValue] ELSE store
          /\ UNCHANGED <<watching, seen>>
      BY <1>4 DEF OnConfigChange
    <2> QED
      BY <1>0, <2>1 DEF TakenBack, Base, TypeOK
  <1>5. CASE Stop(y)
    BY <1>5 DEF Stop, TakenBack, Base, TypeOK
  <1> QED
    BY <1>1, <1>2, <1>3, <1>4, <1>5 DEF Replica

\* With one agent nothing is written between the deletion and the next call.
LEMMA TakenBackStep ==
    ASSUME Alone, Base, TakenBack, [Next]_vars
    PROVE  TakenBack'
  <1> SUFFICES ASSUME scope = "global", "write" \notin upset, "write" \notin upset'
               PROVE  /\ \A a \in Agents :
                            returned'[a] = "retryable" => phase'[a] = "idle" /\ Current' = NoEntry
                      /\ \A x \in watching' :
                            seen'[x] = Len(log') /\ Current' = NoEntry =>
                               \/ store'[x] \notin Rejected
                               \/ hand'[x] # NoRequest /\ store'[x] = hand'[x].val
    BY UpsetStep DEF TakenBack
  <1>0. log \in Seq(KVEntry) /\ Len(log) \in Nat /\ watching \subseteq Exts
    BY LenProperties DEF Base, TypeOK
  <1>1. CASE UNCHANGED log
    <2>0. Current' = Current
      BY <1>1 DEF Current
    <2>1. ASSUME NEW y \in Exts, Serve(y) \/ Replica(y) \/ Stop(y)
          PROVE  /\ UNCHANGED <<returned, phase>>
                 /\ \A x \in watching' :
                       seen'[x] = Len(log) /\ Current = NoEntry =>
                          \/ store'[x] \notin Rejected
                          \/ hand'[x] # NoRequest /\ store'[x] = hand'[x].val
      <3>1. UNCHANGED <<returned, phase>>
        BY <2>1 DEF Serve, Replica, ApplyConfigKV, ApplyConfigSet, OnConfigChange, Stop, agentVars
      <3> QED
        BY <2>1, <3>1, TakenBackReplica
    <2>2. ASSUME NEW a \in Agents,
                 \/ SetConfig(a) \/ SetRefused(a) \/ Authority(a)
                 \/ DropSessionConfig(a) \/ AgentRestart(a)
          PROVE  /\ UNCHANGED <<watching, seen, store, hand>>
                 /\ \A b \in Agents : returned'[b] = "retryable" =>
                                         phase'[b] = "idle" /\ Current' = NoEntry
      <3>1. UNCHANGED <<watching, seen, store, hand>>
        BY <2>2 DEF SetConfig, SetRefused, Authority, Persist, Send, Expire, Acked, RolledBack,
                    DropSessionConfig, AgentRestart, extVars
      <3>2. \A b \in Agents : b = a
        BY DEF Alone
      <3>3. RolledBack(a) => Current = NoEntry /\ phase'[a] = "idle"
        <4>1. ASSUME RolledBack(a) PROVE Current = NoEntry /\ phase'[a] = "idle"
          <5>1. CASE bucket
            <6>1. log' = Append(log, NoEntry)
              BY <4>1, <5>1 DEF RolledBack, KVDelete, KVPut
            <6>2. NoEntry \in KVEntry
              BY CurrentIsEntry DEF Base
            <6>3. Len(log') = Len(log) + 1
              BY <1>0, <6>1, <6>2, Appended
            <6> QED
              BY <1>0, <1>1, <6>3
          <5>2. CASE ~bucket
            <6>1. log = <<>>
              BY <5>2 DEF Base, LogIsInBucket
            <6> QED
              BY <4>1, <6>1 DEF Current, RolledBack, Base, TypeOK
          <5> QED
            BY <5>1, <5>2
        <4> QED
          BY <4>1
      <3>4. ~RolledBack(a) /\ returned'[a] = "retryable" => returned[a] = "retryable"
        BY <2>2 DEF SetConfig, SetRefused, Authority, Persist, Send, Expire, Acked,
                    DropSessionConfig, AgentRestart, Base, TypeOK
      <3>5. ~RolledBack(a) /\ returned'[a] = "retryable" /\ phase[a] = "idle"
               => phase'[a] = "idle"
        BY <2>2 DEF SetConfig, SetRefused, Authority, Persist, Send, Expire, Acked,
                    DropSessionConfig, AgentRestart, Base, TypeOK
      <3> QED
        BY <2>0, <3>1, <3>2, <3>3, <3>4, <3>5 DEF TakenBack
    <2>3. CASE UNCHANGED vars
      BY <2>0, <2>3 DEF vars, TakenBack
    <2>4. (\A a \in Agents : returned[a] = "retryable" => phase[a] = "idle" /\ Current = NoEntry)
          /\ \A x \in watching :
              seen[x] = Len(log) /\ Current = NoEntry =>
                 \/ store[x] \notin Rejected
                 \/ hand[x] # NoRequest /\ store[x] = hand[x].val
      BY DEF TakenBack
    <2> QED
      BY <1>1, <2>0, <2>1, <2>2, <2>3, <2>4 DEF Next
  <1>2. ASSUME NEW a \in Agents, Persist(a) \/ RolledBack(a) \/ DropSessionConfig(a),
               NEW e \in KVEntry, log' = Append(log, e),
               e = IF phase[a] = "persist" THEN mem[a] ELSE NoEntry
        PROVE  /\ \A b \in Agents :
                     returned'[b] = "retryable" => phase'[b] = "idle" /\ Current' = NoEntry
               /\ \A x \in watching' : seen'[x] # Len(log')
    <2>1. log' # <<>> /\ Len(log') = Len(log) + 1 /\ log'[Len(log')] = e
      BY <1>0, <1>2, Appended
    <2>2. Current' = e
      BY <2>1 DEF Current
    <2>3. ~DropSessionConfig(a) /\ UNCHANGED <<watching, seen>>
      BY <1>2 DEF DropSessionConfig, Persist, RolledBack, extVars
    <2>4. CASE Persist(a)
      <3>1. returned[a] # "retryable" /\ returned' = returned
        BY <2>4 DEF Persist, TakenBack
      <3> QED
        BY <1>0, <2>1, <2>3, <3>1 DEF Alone, Base, TypeOK
    <2>5. CASE RolledBack(a)
      <3>1. phase[a] = "wait" /\ phase'[a] = "idle"
        BY <2>5 DEF RolledBack, Base, TypeOK
      <3> QED
        BY <1>0, <1>2, <2>1, <2>2, <2>3, <3>1 DEF Alone, Base, TypeOK
    <2> QED
      BY <1>2, <2>3, <2>4, <2>5
  <1> QED
    BY <1>1, <1>2, LogStep

\* With one agent, a call that has reported a rejection leaves no watching replica
\* with a value that OnConfigChange rejects once that replica is at rest, whatever
\* timed out or restarted, unless a write to the bucket failed.
THEOREM RejectedIsGoneHolds ==
    ASSUME Alone
    PROVE  Spec => []RejectedIsGone
  <1>1. Init => TakenBack
    BY DEF Init, TakenBack
  <1>2. Base /\ TakenBack /\ [Next]_vars => TakenBack'
    BY TakenBackStep
  <1>3. TakenBack => RejectedIsGone
    BY DEF TakenBack, RejectedIsGone, Settled
  <1> QED
    BY <1>1, <1>2, <1>3, BaseAlways, PTL DEF Spec
-----------------------------------------------------------------------------
\* A replica has the request of a call, received or not.
Busy(x) == requests[x] # <<>> \/ hand[x] # NoRequest

\* The agent's call in the time of its request: the bucket has the call's value, at
\* most one replica has its request, and none has it outside the wait for an answer.
OneCall(a) ==
    /\ phase[a] # "idle" => draft[a].val \in Values /\ mem[a].val = draft[a].val
    /\ phase[a] \in {"send", "wait"} => Current = mem[a]
    /\ reply[a] # "none" => phase[a] = "wait"
    /\ \A x \in Exts :
          /\ requests[x] \in {<<>>, <<draft[a]>>} /\ hand[x] \in {NoRequest, draft[a]}
          /\ requests[x] = <<>> \/ hand[x] = NoRequest
          /\ Busy(x) => phase[a] = "wait" /\ reply[a] = "none"
    /\ \A x, y \in Exts : Busy(x) /\ Busy(y) => x = y

\* A watch that has delivered everything leaves its replica with the bucket's value,
\* but for a null, until a rejection, and the agent will hear of that.
Level(a) ==
    \A x \in watching :
        /\ seen[x] = Len(log) /\ (scope = "global" \/ Current # NoEntry)
        /\ Current.val # Null
        => store[x] = Current.val \/ reply[a] = "rejected"

Calm == upset \subseteq {"read", "null"}

InLevel(a) == Calm => OneCall(a) /\ Level(a)

\* The agent's steps that leave the bucket alone.
LEMMA InLevelAgent ==
    ASSUME Base, NEW a \in Agents, Calm, Calm', OneCall(a), Level(a),
           \/ SetConfig(a) \/ SetRefused(a) \/ Send(a) \/ Expire(a) \/ Acked(a)
           \/ AgentRestart(a)
    PROVE  OneCall(a)' /\ Level(a)'
  <1>0. UNCHANGED <<log, running, watching, seen, store, hand, scope>>
    BY DEF SetConfig, SetRefused, Send, Expire, Acked, AgentRestart, extVars
  <1>1. Current' = Current
    BY <1>0 DEF Current
  <1>2. CASE SetConfig(a)
    <2>1. PICK v \in Values, ack \in Acks, known \in {mem[a], Recovered(a)} :
             /\ mem' = [mem EXCEPT ![a] = [rev |-> known.rev + 1, val |-> v]]
             /\ draft' = [draft EXCEPT ![a] = [n |-> sets', val |-> v, ack |-> ack]]
      BY <1>2 DEF SetConfig
    <2>2. /\ phase[a] = "idle" /\ phase' = [phase EXCEPT ![a] = "persist"]
          /\ UNCHANGED <<reply, requests>>
      BY <1>2 DEF SetConfig, extVars
    <2>3. mem'[a].val = v /\ draft'[a].val = v /\ phase'[a] = "persist"
      BY <2>1, <2>2 DEF Base, TypeOK
    <2>4. \A x \in Exts : ~Busy(x) /\ ~Busy(x)'
      BY <1>0, <2>2 DEF OneCall, Busy
    <2>5. reply'[a] = "none"
      BY <2>2 DEF OneCall, Base, TypeOK
    <2>6. OneCall(a)'
      BY <2>3, <2>4, <2>5 DEF OneCall, Busy
    <2> QED
      BY <1>0, <1>1, <2>2, <2>6 DEF Level
  <1>3. CASE SetRefused(a)
    <2>1. phase[a] = "idle" /\ UNCHANGED <<phase, draft, reply, requests>>
      BY <1>3 DEF SetRefused, extVars
    <2> QED
      BY <1>0, <1>1, <2>1 DEF OneCall, Level, Busy
  <1>4. CASE Send(a)
    <2>1. phase[a] = "send" /\ UNCHANGED <<mem, draft, reply>>
      BY <1>4 DEF Send
    <2>2. \A x \in Exts : ~Busy(x)
      BY <2>1 DEF OneCall
    <2>3. reply[a] = "none"
      BY <2>1 DEF OneCall, Base, TypeOK
    <2>4. ASSUME NEW x \in running,
                 requests' = [requests EXCEPT ![x] = Append(@, draft[a])],
                 phase' = [phase EXCEPT ![a] = "wait"]
          PROVE  OneCall(a)'
      <3>1. x \in Exts /\ requests[x] = <<>>
        BY <2>2 DEF Base, TypeOK, Busy
      <3>2. requests'[x] = <<draft[a]>> /\ \A y \in Exts \ {x} : requests'[y] = <<>>
        BY <2>2, <2>4, <3>1 DEF Base, TypeOK, Busy
      <3>3. phase'[a] = "wait"
        BY <2>4 DEF Base, TypeOK
      <3>4. \A y \in Exts : hand'[y] = NoRequest
        BY <1>0, <2>2 DEF Busy
      <3>5. \A y \in Exts : Busy(y)' => y = x
        BY <3>2, <3>4 DEF Busy
      <3>6. /\ draft'[a].val \in Values /\ mem'[a].val = draft'[a].val
            /\ Current' = mem'[a]
        BY <1>1, <2>1 DEF OneCall
      <3>7. \A y \in Exts : requests'[y] \in {<<>>, <<draft'[a]>>}
        BY <2>1, <3>1, <3>2
      <3> QED
        BY <2>1, <2>3, <3>3, <3>4, <3>5, <3>6, <3>7 DEF OneCall
    <2>5. ASSUME phase' = [phase EXCEPT ![a] = "idle"], UNCHANGED requests
          PROVE  OneCall(a)'
      <3>1. \A x \in Exts : ~Busy(x)' /\ requests'[x] = <<>> /\ hand'[x] = NoRequest
        BY <1>0, <2>2, <2>5 DEF Busy
      <3> QED
        BY <2>1, <2>3, <2>5, <3>1 DEF OneCall, Base, TypeOK
    <2>6. OneCall(a)'
      BY <1>4, <2>4, <2>5 DEF Send
    <2> QED
      BY <1>0, <1>1, <2>1, <2>6 DEF Level
  <1>5. CASE Expire(a)
    <2>1. /\ reply[a] = "none" /\ phase' = [phase EXCEPT ![a] = "idle"]
          /\ UNCHANGED <<mem, draft, reply, requests>>
          /\ ~Pending(draft[a].n)
      BY <1>5 DEF Expire, Calm, extVars
    <2>2. ASSUME NEW x \in Exts PROVE ~Busy(x)
      <3>1. hand[x] # draft[a]
        BY <2>1 DEF Pending
      <3>2. requests[x] # <<draft[a]>>
        <4>1. ASSUME requests[x] = <<draft[a]>> PROVE FALSE
          <5>1. 1 \in 1 .. Len(requests[x]) /\ requests[x][1].n = draft[a].n
            BY <4>1
          <5> QED
            BY <2>1, <5>1 DEF Pending
        <4> QED
          BY <4>1
      <3> QED
        BY <3>1, <3>2 DEF OneCall, Busy
    <2>3. \A x \in Exts : ~Busy(x)' /\ requests'[x] = <<>> /\ hand'[x] = NoRequest
      BY <1>0, <2>1, <2>2 DEF Busy
    <2>4. OneCall(a)'
      BY <2>1, <2>3 DEF OneCall, Base, TypeOK
    <2> QED
      BY <1>0, <1>1, <2>1, <2>4 DEF Level
  <1>6. CASE Acked(a)
    <2>1. /\ reply[a] = "ok" /\ phase' = [phase EXCEPT ![a] = "idle"]
          /\ reply' = [reply EXCEPT ![a] = "none"]
          /\ UNCHANGED <<mem, draft, requests>>
      BY <1>6 DEF Acked, extVars
    <2>2. \A x \in Exts : ~Busy(x)' /\ requests'[x] = <<>> /\ hand'[x] = NoRequest
      BY <1>0, <2>1 DEF OneCall, Busy
    <2>3. OneCall(a)'
      BY <2>1, <2>2 DEF OneCall, Base, TypeOK
    <2> QED
      BY <1>0, <1>1, <2>1, <2>3 DEF Level
  <1>7. CASE AgentRestart(a)
    <2>1. /\ phase[a] = "idle" /\ UNCHANGED <<draft, requests>>
          /\ phase' = [phase EXCEPT ![a] = "idle"]
          /\ reply' = [reply EXCEPT ![a] = "none"]
      BY <1>7 DEF AgentRestart, Calm, extVars
    <2>2. \A x \in Exts : ~Busy(x)' /\ requests'[x] = <<>> /\ hand'[x] = NoRequest
      BY <1>0, <2>1 DEF OneCall, Busy
    <2>3. OneCall(a)'
      BY <2>1, <2>2 DEF OneCall, Base, TypeOK
    <2>4. reply[a] # "rejected"
      BY <2>1 DEF OneCall
    <2> QED
      BY <1>0, <1>1, <2>3, <2>4 DEF Level
  <1> QED
    BY <1>2, <1>3, <1>4, <1>5, <1>6, <1>7

\* The agent's writes: what is written, no watch has delivered yet.
LEMMA InLevelWrite ==
    ASSUME Base, NEW a \in Agents, Calm, Calm', OneCall(a), Level(a),
           Persist(a) \/ RolledBack(a) \/ DropSessionConfig(a)
    PROVE  OneCall(a)' /\ Level(a)'
  <1>0. /\ log \in Seq(KVEntry) /\ Len(log) \in Nat
        /\ mem[a] \in KVEntry /\ NoEntry \in KVEntry
    BY CurrentIsEntry, LenProperties DEF Base, TypeOK
  <1>1. UNCHANGED <<draft, running, watching, seen, store, requests, hand, scope>>
    BY DEF Persist, RolledBack, DropSessionConfig, extVars
  <1>2. ASSUME NEW e \in KVEntry, log' = Append(log, e)
        PROVE  Current' = e /\ Level(a)'
    <2>1. log' # <<>> /\ Len(log') = Len(log) + 1 /\ log'[Len(log')] = e
      BY <1>0, <1>2, Appended
    <2>2. \A x \in watching' : seen'[x] # Len(log')
      BY <1>0, <1>1, <2>1 DEF Base, TypeOK
    <2> QED
      BY <2>1, <2>2 DEF Current, Level
  <1>3. \A e : KVPut(e) => log' = Append(log, e)
    BY DEF KVPut, Calm
  <1>4. CASE Persist(a)
    <2>1. /\ phase[a] = "persist" /\ phase' = [phase EXCEPT ![a] = "send"]
          /\ KVPut(mem[a]) /\ UNCHANGED <<mem, reply>>
      BY <1>4 DEF Persist
    <2>2. Current' = mem'[a] /\ Level(a)'
      BY <1>0, <1>2, <1>3, <2>1
    <2>3. phase'[a] = "send"
      BY <2>1 DEF Base, TypeOK
    <2>4. \A x \in Exts : ~Busy(x) /\ ~Busy(x)'
      BY <1>1, <2>1 DEF OneCall, Busy
    <2>5. OneCall(a)'
      BY <1>1, <2>1, <2>2, <2>3, <2>4 DEF OneCall, Busy
    <2> QED
      BY <2>2, <2>5
  <1>5. CASE RolledBack(a)
    <2>0. bucket
      <3>1. phase[a] = "wait" /\ mem[a].val # NoValue
        BY <1>5, ConstantsAssumption DEF RolledBack, OneCall
      <3>2. Current # NoEntry
        BY <3>1 DEF OneCall, NoEntry
      <3> QED
        BY <3>2 DEF Current, Base, LogIsInBucket
    <2>1. /\ reply[a] = "rejected" /\ KVPut(NoEntry)
          /\ phase' = [phase EXCEPT ![a] = "idle"]
          /\ reply' = [reply EXCEPT ![a] = "none"]
      BY <1>5, <2>0 DEF RolledBack, KVDelete
    <2>2. phase'[a] = "idle" /\ reply'[a] = "none"
      BY <2>1 DEF Base, TypeOK
    <2>3. \A x \in Exts : ~Busy(x) /\ ~Busy(x)'
      BY <1>1, <2>1 DEF OneCall, Busy
    <2>4. OneCall(a)'
      BY <1>1, <2>2, <2>3 DEF OneCall, Busy
    <2> QED
      BY <1>0, <1>2, <1>3, <2>1, <2>4
  <1>6. CASE DropSessionConfig(a)
    <2>1. phase[a] = "idle" /\ UNCHANGED <<phase, reply>>
      BY <1>6 DEF DropSessionConfig
    <2>2. OneCall(a)'
      BY <1>1, <2>1 DEF OneCall, Busy
    <2>3. CASE KVPut(NoEntry)
      BY <1>0, <1>2, <1>3, <2>2, <2>3
    <2>4. CASE UNCHANGED log
      <3>1. Current' = Current
        BY <2>4 DEF Current
      <3> QED
        BY <1>1, <2>1, <2>2, <2>4, <3>1 DEF Level
    <2> QED
      BY <1>6, <2>3, <2>4 DEF DropSessionConfig, KVDelete
  <1> QED
    BY <1>4, <1>5, <1>6

\* A replica's steps: the watch ends with the bucket's value, the request carries it,
\* and what OnConfigChange takes back the agent is told of.
LEMMA InLevelReplica ==
    ASSUME Base, NEW a \in Agents, \A b \in Agents : b = a,
           Calm, Calm', OneCall(a), Level(a),
           NEW x \in Exts, Serve(x) \/ Replica(x) \/ Stop(x)
    PROVE  OneCall(a)' /\ Level(a)'
  <1>0. UNCHANGED <<mem, phase, draft, log, scope>> /\ watching \subseteq Exts
    BY DEF Serve, Replica, ApplyConfigKV, ApplyConfigSet, OnConfigChange, Stop, agentVars,
           Base, TypeOK
  <1>1. Current' = Current
    BY <1>0 DEF Current
  <1>2. CASE Serve(x)
    <2>1. /\ x \notin running /\ watching' \subseteq watching \cup {x}
          /\ seen' = [seen EXCEPT ![x] = IF log = <<>> THEN 0 ELSE Len(log) - 1]
          /\ UNCHANGED <<store, requests, hand, reply>>
      BY <1>2 DEF Serve, agentVars
    <2>2. OneCall(a)'
      BY <1>0, <1>1, <2>1 DEF OneCall, Busy
    <2>3. store[x] = NoValue /\ Len(log) \in Nat /\ seen'[x] = IF log = <<>> THEN 0 ELSE Len(log) - 1
      BY <2>1, LenProperties DEF Base, TypeOK, DownIsEmpty
    <2>4. seen'[x] = Len(log) => store'[x] = Current.val
      <3>1. CASE log = <<>>
        BY <2>1, <2>3, <3>1 DEF Current, NoEntry
      <3>2. CASE log # <<>>
        BY <2>3, <3>2
      <3> QED
        BY <3>1, <3>2
    <2>5. \A y \in watching' : y # x => y \in watching /\ seen'[y] = seen[y]
      BY <2>1 DEF Base, TypeOK
    <2>6. Level(a)'
      BY <1>0, <1>1, <2>1, <2>4, <2>5 DEF Level
    <2> QED
      BY <2>2, <2>6
  <1>3. CASE ApplyConfigKV(x)
    <2>1. PICK i \in seen[x] + 1 .. Len(log) :
             /\ seen' = [seen EXCEPT ![x] = i]
             /\ store' = [store EXCEPT ![x] =
                            IF log[i] = NoEntry /\ scope = "session" THEN @
                            ELSE Decoded(log[i]).val]
      BY <1>3 DEF ApplyConfigKV
    <2>2. UNCHANGED <<watching, requests, hand, reply>>
      BY <1>3 DEF ApplyConfigKV, agentVars
    <2>3. OneCall(a)'
      BY <1>0, <1>1, <2>2 DEF OneCall, Busy
    <2>4. seen[x] \in Nat /\ Len(log) \in Nat /\ seen'[x] = i /\ i \in Nat /\ i > 0
      BY <2>1, LenProperties DEF Base, TypeOK
    <2>5. ASSUME i = Len(log), scope = "global" \/ Current # NoEntry, Current.val # Null
          PROVE  store'[x] = Current.val
      <3>1. log # <<>>
        BY <2>4, <2>5, EmptySeq
      <3>2. log[i] = Current /\ Decoded(Current) = Current
        BY <2>5, <3>1 DEF Current, Decoded
      <3> QED
        BY <2>1, <2>5, <3>2 DEF Base, TypeOK
    <2>6. \A y \in watching : y # x => seen'[y] = seen[y] /\ store'[y] = store[y]
      BY <1>0, <2>1 DEF Base, TypeOK
    <2>7. Level(a)'
      BY <1>0, <1>1, <2>2, <2>4, <2>5, <2>6 DEF Level
    <2> QED
      BY <2>3, <2>7
  <1>4. CASE ApplyConfigSet(x)
    <2>1. /\ requests[x] # <<>> /\ UNCHANGED <<watching, seen, reply>>
          /\ hand' = [hand EXCEPT ![x] = Head(requests[x])]
          /\ requests' = [requests EXCEPT ![x] = Tail(@)]
          /\ store' = [store EXCEPT ![x] = Head(requests[x]).val]
      BY <1>4 DEF ApplyConfigSet, agentVars
    <2>2. requests[x] = <<draft[a]>> /\ hand[x] = NoRequest
      BY <2>1 DEF OneCall
    <2>3. Head(requests[x]) = draft[a] /\ Tail(requests[x]) = <<>>
      BY <2>2
    <2>4. hand'[x] = draft[a] /\ requests'[x] = <<>> /\ store'[x] = draft[a].val
      BY <2>1, <2>3 DEF Base, TypeOK
    <2>5. \A y \in Exts : y # x => /\ hand'[y] = hand[y] /\ requests'[y] = requests[y]
                                   /\ store'[y] = store[y]
      BY <2>1 DEF Base, TypeOK
    <2>6. Busy(x) /\ phase[a] = "wait" /\ reply[a] = "none"
      BY <2>1 DEF OneCall, Busy
    <2>7. \A y \in Exts : Busy(y)' => Busy(y)
      BY <2>5, <2>6 DEF Busy
    <2>8. OneCall(a)'
      BY <1>0, <1>1, <2>1, <2>4, <2>5, <2>6, <2>7 DEF OneCall
    <2>9. draft[a].val = Current.val
      BY <2>6 DEF OneCall
    <2>10. Level(a)'
      BY <1>0, <1>1, <2>1, <2>4, <2>5, <2>9 DEF Level
    <2> QED
      BY <2>8, <2>10
  <1>5. CASE OnConfigChange(x)
    <2>1. /\ hand[x] # NoRequest /\ hand' = [hand EXCEPT ![x] = NoRequest]
          /\ UNCHANGED <<watching, seen, requests>>
      BY <1>5 DEF OnConfigChange
    <2>2. phase[a] = "wait" /\ reply[a] = "none" /\ Busy(x)
      BY <2>1 DEF OneCall, Busy
    <2>3. requests[x] = <<>> /\ \A y \in Exts : y # x => ~Busy(y)
      BY <2>1, <2>2 DEF OneCall
    <2>4. \A y \in Exts : requests'[y] = <<>> /\ hand'[y] = NoRequest
      BY <2>1, <2>3 DEF Busy, Base, TypeOK
    <2>5. OneCall(a)'
      BY <1>0, <1>1, <2>2, <2>4 DEF OneCall, Busy
    <2>6. CASE hand[x].val \in Rejected
      <3>1. PICK told \in SUBSET Callers(x) : Answered(told, "rejected") /\ told # {}
        BY <1>5, <2>6 DEF OnConfigChange, Calm
      <3>2. a \in told
        BY <3>1 DEF Callers
      <3>3. reply'[a] = "rejected"
        BY <3>1, <3>2 DEF Answered
      <3> QED
        BY <2>5, <3>3 DEF Level
    <2>7. CASE hand[x].val \notin Rejected
      BY <1>0, <1>1, <1>5, <2>1, <2>2, <2>5, <2>7 DEF OnConfigChange, Level
    <2> QED
      BY <2>6, <2>7
  <1>6. CASE Stop(x)
    <2>1. /\ watching' = watching \ {x} /\ UNCHANGED <<seen, reply>>
          /\ store' = [store EXCEPT ![x] = NoValue]
          /\ requests' = [requests EXCEPT ![x] = <<>>]
          /\ hand' = [hand EXCEPT ![x] = NoRequest]
      BY <1>6 DEF Stop, agentVars
    <2>2. requests'[x] = <<>> /\ hand'[x] = NoRequest
      BY <2>1 DEF Base, TypeOK
    <2>3. \A y \in Exts : y # x => /\ hand'[y] = hand[y] /\ requests'[y] = requests[y]
                                   /\ store'[y] = store[y]
      BY <2>1 DEF Base, TypeOK
    <2>4. \A y \in Exts : Busy(y)' => Busy(y)
      BY <2>2, <2>3 DEF Busy
    <2>5. OneCall(a)'
      BY <1>0, <1>1, <2>1, <2>2, <2>3, <2>4 DEF OneCall
    <2>6. Level(a)'
      BY <1>0, <1>1, <2>1, <2>3 DEF Level
    <2> QED
      BY <2>5, <2>6
  <1> QED
    BY <1>2, <1>3, <1>4, <1>5, <1>6 DEF Replica

\* With one agent, a replica at rest that has a watch has the bucket's value, however
\* requests, watch and restarts overtake each other, unless that value is a null or the
\* code does not make up for what went wrong.
THEOREM ConvergesHolds ==
    ASSUME NEW a, Agents = {a}
    PROVE  Spec => []Converges
  <1>1. Init => InLevel(a)
    <2> SUFFICES ASSUME Init PROVE OneCall(a) /\ Level(a)
      BY DEF InLevel
    <2> QED
      BY DEF Init, OneCall, Busy, Level
  <1>2. Base /\ InLevel(a) /\ [Next]_vars => InLevel(a)'
    <2> SUFFICES ASSUME Base, InLevel(a), [Next]_vars, Calm' PROVE OneCall(a)' /\ Level(a)'
      BY DEF InLevel
    <2>1. Calm /\ OneCall(a) /\ Level(a) /\ a \in Agents /\ \A b \in Agents : b = a
      BY UpsetStep DEF Calm, InLevel
    <2>2. CASE UNCHANGED vars
      <3>1. UNCHANGED <<mem, phase, draft, reply, log, watching, seen, store, requests, hand, scope>>
        BY <2>2 DEF vars
      <3>2. Current' = Current
        BY <3>1 DEF Current
      <3> QED
        BY <2>1, <3>1, <3>2 DEF OneCall, Level, Busy
    <2> QED
      BY <2>1, <2>2, InLevelAgent, InLevelWrite, InLevelReplica DEF Next, Authority
  <1>3. Base /\ InLevel(a) => Converges
    <2> SUFFICES ASSUME Base, InLevel(a), Calm, NEW x \in watching, Settled(x),
                        scope = "global" \/ Current # NoEntry, Current.val # Null
                 PROVE  store[x] = Current.val
      BY DEF Converges, Calm
    <2> QED
      BY DEF InLevel, OneCall, Level, Settled
  <1> QED
    BY <1>1, <1>2, <1>3, BaseAlways, PTL DEF Spec
-----------------------------------------------------------------------------
\* Induction over the naturals, said of a set and not of a predicate.
LEMMA SetInduction ==
    ASSUME NEW S, 0 \in S, \A n \in Nat : n \in S => n + 1 \in S
    PROVE  \A n \in Nat : n \in S
  <1> DEFINE D == Nat \ S
  <1>1. SUFFICES ASSUME D # {} PROVE FALSE
    OBVIOUS
  <1>2. PICK x \in D : \A y \in D : ~(<<y, x>> \in OpToRel(<, Nat))
    <2>1. D \subseteq Nat
      OBVIOUS
    <2> QED
      BY <1>1, <2>1, WFMin, NatLessThanWellFounded
  <1>3. x \in Nat /\ x - 1 \in Nat /\ x - 1 < x
    <2>1. x \in Nat /\ x # 0
      OBVIOUS
    <2> QED
      BY <2>1
  <1>4. x - 1 \in S
    <2>1. <<x - 1, x>> \in OpToRel(<, Nat)
      BY <1>3 DEF OpToRel
    <2> QED
      BY <1>2, <1>3, <2>1
  <1>5. x - 1 + 1 \in S /\ x - 1 + 1 = x
    BY <1>3, <1>4
  <1> QED
    BY <1>2, <1>5

-----------------------------------------------------------------------------
(* The bytes of a key.                                                     *)

Byte == 0..255
KeyByte == Safe \cup {Equals}

\* What EscapeKVSegment has written after each byte, for a text of n bytes.
Written(s, n) ==
    CHOOSE f : f = [i \in 0..n |-> IF i = 0 THEN <<>> ELSE f[i - 1] \o EscapeByte(s[i])]

\* The loop of EscapeKVSegment computes what it says, after any number of bytes.
LEMMA WrittenIs ==
    ASSUME NEW s, NEW n \in Nat
    PROVE  Written(s, n) =
              [i \in 0..n |-> IF i = 0 THEN <<>> ELSE Written(s, n)[i - 1] \o EscapeByte(s[i])]
  <1> DEFINE Step(f, i) == IF i = 0 THEN <<>> ELSE f[i - 1] \o EscapeByte(s[i])
             S == {k \in Nat : \E f : f = [i \in 0..k |-> Step(f, i)]}
  <1>1. 0 \in S
    <2> DEFINE g == [i \in 0..0 |-> <<>>]
    <2>1. g = [i \in 0..0 |-> Step(g, i)]
      OBVIOUS
    <2> QED
      BY <2>1
  <1>2. ASSUME NEW k \in Nat, k \in S PROVE k + 1 \in S
    <2>1. PICK h : h = [i \in 0..k |-> Step(h, i)]
      BY <1>2
    <2> DEFINE g == [i \in 0..k + 1 |->
                        IF i = k + 1 THEN h[k] \o EscapeByte(s[k + 1]) ELSE h[i]]
    <2>2. \A i \in 0..k + 1 : g[i] = Step(g, i)
      <3>1. ASSUME NEW i \in 0..k + 1 PROVE g[i] = Step(g, i)
        <4>1. CASE i = k + 1
          <5>1. i # 0 /\ i - 1 = k /\ i - 1 # k + 1 /\ i - 1 \in 0..k + 1
            BY <4>1
          <5>2. g[i - 1] = h[k] /\ g[i] = h[k] \o EscapeByte(s[i])
            BY <4>1, <5>1
          <5> QED
            BY <5>1, <5>2
        <4>2. CASE i = 0
          <5>1. i \in 0..k /\ i # k + 1
            BY <4>2
          <5>2. h[i] = <<>>
            BY <2>1, <4>2, <5>1
          <5> QED
            BY <4>2, <5>1, <5>2
        <4>3. CASE i # k + 1 /\ i # 0
          <5>1. i \in 0..k /\ i - 1 \in 0..k + 1 /\ i - 1 # k + 1
            BY <4>3
          <5>2. h[i] = h[i - 1] \o EscapeByte(s[i])
            BY <2>1, <4>3, <5>1
          <5>3. g[i] = h[i] /\ g[i - 1] = h[i - 1]
            BY <4>3, <5>1
          <5> QED
            BY <4>3, <5>2, <5>3
        <4> QED
          BY <4>1, <4>2, <4>3
      <3> QED
        BY <3>1
    <2>3. g = [i \in 0..k + 1 |-> Step(g, i)]
      BY <2>2
    <2> HIDE DEF g
    <2>4. \E f : f = [i \in 0..k + 1 |-> Step(f, i)]
      <3> WITNESS g
      <3> QED
        BY <2>3
    <2>5. k + 1 \in Nat
      OBVIOUS
    <2> HIDE DEF Step
    <2> QED
      BY <2>4, <2>5, Zenon
  <1> HIDE DEF S
  <1>3. n \in S
    BY <1>1, <1>2, SetInduction
  <1>4. \E f : f = [i \in 0..n |-> Step(f, i)]
    BY <1>3 DEF S
  <1> QED
    BY <1>4 DEF Written

\* The same, said of one byte after the other.
LEMMA WrittenAt ==
    ASSUME NEW s, NEW n \in Nat
    PROVE  /\ Written(s, n)[0] = <<>>
           /\ \A k \in 0..n - 1 : Written(s, n)[k + 1] = Written(s, n)[k] \o EscapeByte(s[k + 1])
  <1>1. PICK w : w = Written(s, n)
    OBVIOUS
  <1>2. w = [i \in 0..n |-> IF i = 0 THEN <<>> ELSE w[i - 1] \o EscapeByte(s[i])]
    BY <1>1, WrittenIs
  <1>3. w[0] = <<>>
    BY <1>2
  <1>4. ASSUME NEW k \in 0..n - 1 PROVE w[k + 1] = w[k] \o EscapeByte(s[k + 1])
    <2>1. k + 1 \in 0..n /\ k + 1 # 0 /\ k + 1 - 1 = k
      OBVIOUS
    <2> QED
      BY <1>2, <2>1
  <1> QED
    BY <1>1, <1>3, <1>4

LEMMA EscapeIsWritten ==
    ASSUME NEW s
    PROVE  EscapeKVSegment(s) = Written(s, Len(s))[Len(s)]
  BY DEF EscapeKVSegment, Written

\* A hexadecimal digit is read as what it was written for, and needs no escape.
LEMMA DigitIsRead ==
    ASSUME NEW n \in 0..15
    PROVE  /\ HexDigit(n) \in Safe
           /\ hexVal(HexDigit(n)) = n
  <1>1. CASE n < 10
    <2>1. HexDigit(n) = 48 + n /\ 48 + n \in 48..57 /\ 48 + n - 48 = n
      BY <1>1 DEF HexDigit
    <2>2. hexVal(48 + n) = 48 + n - 48
      BY <2>1, <1>1 DEF hexVal
    <2>3. 48 + n \in Safe
      BY <2>1 DEF Safe
    <2> QED
      BY <2>1, <2>2, <2>3
  <1>2. CASE n >= 10
    <2>1. HexDigit(n) = 55 + n /\ 55 + n \in 65..70 /\ 55 + n - 55 = n
      BY <1>2 DEF HexDigit
    <2>2. 55 + n \notin 48..57
      BY <1>2
    <2>3. hexVal(55 + n) = 55 + n - 55
      BY <2>1, <2>2, <1>2 DEF hexVal
    <2>4. 55 + n \in Safe
      BY <2>1 DEF Safe
    <2> QED
      BY <2>1, <2>3, <2>4
  <1> QED
    BY <1>1, <1>2

\* A byte is written as itself or as an equals sign and its two digits.
LEMMA EscapeByteIs ==
    ASSUME NEW c \in Byte
    PROVE  /\ EscapeByte(c) \in Seq(KeyByte)
           /\ c \in Safe => EscapeByte(c) = <<c>> /\ c # Equals
           /\ c \notin Safe =>
                 /\ Len(EscapeByte(c)) = 3
                 /\ EscapeByte(c)[1] = Equals
                 /\ {hexVal(EscapeByte(c)[2]), hexVal(EscapeByte(c)[3])} \subseteq 0..15
                 /\ 16 * hexVal(EscapeByte(c)[2]) + hexVal(EscapeByte(c)[3]) = c
  <1>1. CASE c \in Safe
    <2>1. EscapeByte(c) = <<c>> /\ c \in KeyByte
      BY <1>1 DEF EscapeByte, KeyByte
    <2>2. <<c>> \in Seq(KeyByte)
      BY <2>1
    <2>3. c # Equals
      BY <1>1 DEF Safe, Equals
    <2> QED
      BY <1>1, <2>1, <2>2, <2>3
  <1>2. CASE c \notin Safe
    <2>1. c \div 16 \in 0..15 /\ c % 16 \in 0..15 /\ 16 * (c \div 16) + (c % 16) = c
      BY DEF Byte
    <2>2. PICK hi \in 0..15, lo \in 0..15 : hi = c \div 16 /\ lo = c % 16
      BY <2>1
    <2>3. PICK x \in Safe, y \in Safe : /\ x = HexDigit(hi) /\ hexVal(x) = hi
                                        /\ y = HexDigit(lo) /\ hexVal(y) = lo
      BY DigitIsRead
    <2>4. EscapeByte(c) = <<Equals, x, y>>
      BY <1>2, <2>2, <2>3 DEF EscapeByte
    <2>5. <<Equals, x, y>> \in Seq(KeyByte)
      BY <2>3 DEF KeyByte
    <2>6. /\ Len(<<Equals, x, y>>) = 3 /\ <<Equals, x, y>>[1] = Equals
          /\ <<Equals, x, y>>[2] = x /\ <<Equals, x, y>>[3] = y
      OBVIOUS
    <2>7. 16 * hi + lo = c
      BY <2>1, <2>2
    <2>8. {hi, lo} \subseteq 0..15
      OBVIOUS
    <2> QED
      BY <1>2, <2>3, <2>4, <2>5, <2>6, <2>7, <2>8
  <1> QED
    BY <1>1, <1>2

\* What has been written after k bytes is made of the bytes that a key may have.
LEMMA WrittenType ==
    ASSUME NEW s \in Seq(Byte)
    PROVE  \A k \in 0..Len(s) : Written(s, Len(s))[k] \in Seq(KeyByte)
  <1> DEFINE n == Len(s)
             S == {k \in Nat : k <= n => Written(s, n)[k] \in Seq(KeyByte)}
  <1>1. n \in Nat
    BY LenProperties
  <1> HIDE DEF n
  <1>2. 0 \in S
    BY <1>1, WrittenAt, EmptySeq
  <1>3. ASSUME NEW k \in Nat, k \in S PROVE k + 1 \in S
    <2>1. SUFFICES ASSUME k + 1 <= n PROVE Written(s, n)[k + 1] \in Seq(KeyByte)
      OBVIOUS
    <2>2. k \in 0..n - 1 /\ k <= n /\ k + 1 \in 1..n
      BY <1>1, <2>1
    <2>3. Written(s, n)[k + 1] = Written(s, n)[k] \o EscapeByte(s[k + 1])
      BY <1>1, <2>2, WrittenAt
    <2>4. Written(s, n)[k] \in Seq(KeyByte)
      BY <1>3, <2>2
    <2>5. s[k + 1] \in Byte
      BY <2>2, ElementOfSeq DEF n
    <2> QED
      BY <2>3, <2>4, <2>5, EscapeByteIs, ConcatProperties
  <1> HIDE DEF S
  <1>4. \A k \in Nat : k \in S
    BY <1>2, <1>3, SetInduction
  <1>5. \A k \in 0..n : k \in Nat /\ k <= n
    BY <1>1
  <1> QED
    BY <1>4, <1>5 DEF S, n

\* What is written is never overwritten.
LEMMA WrittenStays ==
    ASSUME NEW s \in Seq(Byte), NEW k \in 0..Len(s)
    PROVE  LET w == Written(s, Len(s)) IN
           /\ Len(w[k]) <= Len(w[Len(s)])
           /\ \A i \in 1..Len(w[k]) : w[Len(s)][i] = w[k][i]
  <1> DEFINE n == Len(s)
             w == Written(s, n)
             S == {d \in Nat : k + d <= n =>
                      /\ Len(w[k]) <= Len(w[k + d])
                      /\ \A i \in 1..Len(w[k]) : w[k + d][i] = w[k][i]}
  <1>1. n \in Nat /\ k \in Nat /\ k <= n
    BY LenProperties
  <1>2. \A j \in 0..n : w[j] \in Seq(KeyByte) /\ Len(w[j]) \in Nat
    BY WrittenType, LenProperties
  <1>3. \A j \in 0..n - 1 : w[j + 1] = w[j] \o EscapeByte(s[j + 1])
    BY <1>1, WrittenAt
  <1>4. \A j \in 0..n - 1 : EscapeByte(s[j + 1]) \in Seq(KeyByte)
    <2>1. ASSUME NEW j \in 0..n - 1 PROVE s[j + 1] \in Byte
      <3>1. j + 1 \in 1..Len(s)
        BY <1>1
      <3> QED
        BY <3>1, ElementOfSeq
    <2> QED
      BY <2>1, EscapeByteIs
  <1> HIDE DEF n, w
  <1>5. 0 \in S
    <2>1. k + 0 = k /\ k \in 0..n
      BY <1>1
    <2> QED
      BY <1>2, <2>1
  <1>6. ASSUME NEW d \in Nat, d \in S PROVE d + 1 \in S
    <2>1. SUFFICES ASSUME k + (d + 1) <= n
                   PROVE  /\ Len(w[k]) <= Len(w[k + (d + 1)])
                          /\ \A i \in 1..Len(w[k]) : w[k + (d + 1)][i] = w[k][i]
      OBVIOUS
    <2>2. PICK j \in 0..n - 1 : j = k + d
      BY <1>1, <2>1
    <2>3. k + (d + 1) = j + 1 /\ k + d <= n /\ j \in 0..n /\ k \in 0..n
      BY <1>1, <2>1, <2>2
    <2>4. Len(w[k]) <= Len(w[j]) /\ \A i \in 1..Len(w[k]) : w[j][i] = w[k][i]
      BY <1>6, <2>2, <2>3
    <2>5. PICK e \in Seq(KeyByte) : w[j + 1] = w[j] \o e
      BY <1>3, <1>4
    <2>6. /\ Len(w[j + 1]) = Len(w[j]) + Len(e)
          /\ \A i \in 1..Len(w[j]) + Len(e) :
                i <= Len(w[j]) => w[j + 1][i] = w[j][i]
      BY <1>2, <2>3, <2>5, ConcatProperties
    <2>7. Len(e) \in Nat /\ Len(w[j]) \in Nat /\ Len(w[k]) \in Nat
      BY <1>2, <2>3, LenProperties
    <2>8. \A i \in 1..Len(w[k]) : i \in 1..Len(w[j]) + Len(e) /\ i <= Len(w[j])
      BY <2>4, <2>7
    <2>9. \A i \in 1..Len(w[k]) : w[j + 1][i] = w[k][i]
      BY <2>4, <2>6, <2>8
    <2>10. Len(w[k]) <= Len(w[j + 1])
      BY <2>4, <2>6, <2>7
    <2> QED
      BY <2>3, <2>9, <2>10
  <1> HIDE DEF S
  <1>7. n - k \in Nat /\ k + (n - k) = n
    BY <1>1
  <1>8. n - k \in S
    BY <1>5, <1>6, <1>7, SetInduction
  <1>9. Len(w[k]) <= Len(w[n]) /\ \A i \in 1..Len(w[k]) : w[n][i] = w[k][i]
    BY <1>7, <1>8 DEF S
  <1> QED
    BY <1>9 DEF n, w

\* What UnescapeKVSegment makes of a text from each of its bytes on.
ReadFrom(u) ==
    CHOOSE f : f = [i \in 1..(Len(u) + 1) |->
                       IF i > Len(u) THEN <<>>
                       ELSE IF IsEscape(u, i)
                       THEN <<16 * hexVal(u[i + 1]) + hexVal(u[i + 2])>> \o f[i + 3]
                       ELSE <<u[i]>> \o f[i + 1]]

\* Its loop computes what it says: it comes to an end, as an escape is inside the text.
LEMMA ReadIs ==
    ASSUME NEW u, Len(u) \in Nat
    PROVE  \E r : /\ r = ReadFrom(u)
                 /\ r[Len(u) + 1] = <<>>
                 /\ \A i \in 1..Len(u) :
                       r[i] = IF IsEscape(u, i)
                              THEN <<16 * hexVal(u[i + 1]) + hexVal(u[i + 2])>> \o r[i + 3]
                              ELSE <<u[i]>> \o r[i + 1]
  <1>0. PICK n \in Nat : n = Len(u)
    OBVIOUS
  <1> DEFINE Step(f, i) == IF i > n THEN <<>>
                           ELSE IF IsEscape(u, i)
                           THEN <<16 * hexVal(u[i + 1]) + hexVal(u[i + 2])>> \o f[i + 3]
                           ELSE <<u[i]>> \o f[i + 1]
             S == {k \in Nat : k <= n =>
                      \E f : f = [i \in (n + 1 - k)..(n + 1) |-> Step(f, i)]}
  <1>1. \A i \in 1..n : IsEscape(u, i) => i + 2 <= n
    BY <1>0 DEF IsEscape
  <1>2. 0 \in S
    <2> DEFINE g == [i \in (n + 1 - 0)..(n + 1) |-> <<>>]
    <2>1. \A i \in (n + 1 - 0)..(n + 1) : i > n
      OBVIOUS
    <2>2. g = [i \in (n + 1 - 0)..(n + 1) |-> Step(g, i)]
      BY <2>1
    <2> HIDE DEF g
    <2>3. \E f : f = [i \in (n + 1 - 0)..(n + 1) |-> Step(f, i)]
      <3> WITNESS g
      <3> QED
        BY <2>2
    <2> HIDE DEF Step
    <2>4. 0 \in Nat
      OBVIOUS
    <2> QED
      BY <2>3, <2>4, Zenon
  <1>3. ASSUME NEW k \in Nat, k \in S, k + 1 <= n
        PROVE  \E f : f = [i \in (n + 1 - (k + 1))..(n + 1) |-> Step(f, i)]
    <2>1. PICK h : h = [i \in (n + 1 - k)..(n + 1) |-> Step(h, i)]
      <3>1. k <= n
        <4> HIDE DEF S
        <4> QED
          BY <1>3
      <3> HIDE DEF Step
      <3> QED
        BY <1>3, <3>1
    <2>2. PICK m \in 1..n : m = n - k
      <3> HIDE DEF S
      <3>1. n - k \in 1..n
        BY <1>3
      <3> QED
        BY <3>1
    <2>3. n + 1 - (k + 1) = m /\ n + 1 - k = m + 1
      BY <2>2
    <2> DEFINE g == [i \in m..(n + 1) |-> IF i = m THEN Step(h, m) ELSE h[i]]
    <2>4. \A i \in m..(n + 1) : i # m => i \in (m + 1)..(n + 1) /\ g[i] = h[i]
      OBVIOUS
    <2>5. ASSUME NEW i \in m..(n + 1) PROVE g[i] = Step(g, i)
      <3>1. g[i] = Step(h, i)
        <4>1. CASE i = m
          BY <4>1
        <4>2. CASE i # m
          <5>1. i \in (m + 1)..(n + 1)
            BY <4>2
          <5>2. h[i] = Step(h, i)
            BY <2>1, <2>3, <5>1
          <5> QED
            BY <4>2, <5>2
        <4> QED
          BY <4>1, <4>2
      <3>2. CASE i > n
        BY <3>1, <3>2
      <3>3. CASE i <= n /\ IsEscape(u, i)
        <4>1. i + 3 \in m..(n + 1) /\ i + 3 # m /\ ~(i > n)
          BY <1>1, <3>3
        <4>2. g[i + 3] = h[i + 3]
          BY <2>4, <4>1
        <4> HIDE DEF g
        <4> QED
          BY <3>1, <3>3, <4>1, <4>2
      <3>4. CASE i <= n /\ ~IsEscape(u, i)
        <4>1. i + 1 \in m..(n + 1) /\ i + 1 # m /\ ~(i > n)
          BY <3>4
        <4>2. g[i + 1] = h[i + 1]
          BY <2>4, <4>1
        <4> HIDE DEF g
        <4> QED
          BY <3>1, <3>4, <4>1, <4>2
      <3>5. i <= n \/ i > n
        OBVIOUS
      <3> QED
        BY <3>2, <3>3, <3>4, <3>5
    <2> HIDE DEF Step
    <2>6. g = [i \in (n + 1 - (k + 1))..(n + 1) |-> Step(g, i)]
      BY <2>3, <2>5
    <2> HIDE DEF g
    <2> WITNESS g
    <2> QED
      BY <2>6
  <1>4. ASSUME NEW k \in Nat, k \in S PROVE k + 1 \in S
    <2>1. k + 1 \in Nat
      OBVIOUS
    <2> HIDE DEF Step
    <2> QED
      BY <1>3, <1>4, <2>1, Zenon
  <1> HIDE DEF S
  <1>5. n \in S
    BY <1>2, <1>4, SetInduction
  <1>6. n <= n /\ n + 1 - n = 1
    OBVIOUS
  <1>7. \E f : f = [i \in 1..(n + 1) |-> Step(f, i)]
    <2>1. \E f : f = [i \in (n + 1 - n)..(n + 1) |-> Step(f, i)]
      <3> HIDE DEF Step
      <3> QED
        BY <1>5, <1>6 DEF S
    <2> QED
      BY <1>6, <2>1
  <1>8. ReadFrom(u) = [i \in 1..(n + 1) |-> Step(ReadFrom(u), i)]
    BY <1>0, <1>7 DEF ReadFrom
  <1>9. PICK r : r = ReadFrom(u)
    OBVIOUS
  <1>10. r = [i \in 1..(n + 1) |-> Step(r, i)]
    BY <1>8, <1>9
  <1>11. r[n + 1] = <<>>
    <2>1. n + 1 \in 1..(n + 1) /\ n + 1 > n
      OBVIOUS
    <2> QED
      BY <1>10, <2>1
  <1>12. \A i \in 1..n : i \in 1..(n + 1) /\ ~(i > n)
    OBVIOUS
  <1>13. \A i \in 1..n :
            r[i] = IF IsEscape(u, i)
                   THEN <<16 * hexVal(u[i + 1]) + hexVal(u[i + 2])>> \o r[i + 3]
                   ELSE <<u[i]>> \o r[i + 1]
    BY <1>10, <1>12
  <1> QED
    BY <1>0, <1>9, <1>11, <1>13

LEMMA UnescapeIsRead ==
    ASSUME NEW u
    PROVE  UnescapeKVSegment(u) = ReadFrom(u)[1]
  BY DEF UnescapeKVSegment, ReadFrom

\* Every text is read back from its escape, which has bytes of keys only.
THEOREM EscapeIsReadBack ==
    ASSUME NEW s \in Seq(Byte)
    PROVE  /\ EscapeKVSegment(s) \in Seq(KeyByte)
           /\ UnescapeKVSegment(EscapeKVSegment(s)) = s
  <1>1. PICK n \in Nat : n = Len(s)
    BY LenProperties
  <1>2. PICK w : w = Written(s, n)
    OBVIOUS
  <1>3. PICK u : u = EscapeKVSegment(s)
    OBVIOUS
  <1>4. u = w[n] /\ n \in 0..n
    BY <1>1, <1>2, <1>3, EscapeIsWritten
  <1>5. \A k \in 0..n : w[k] \in Seq(KeyByte) /\ Len(w[k]) \in Nat
    BY <1>1, <1>2, WrittenType, LenProperties
  <1>6. u \in Seq(KeyByte) /\ Len(u) \in Nat
    BY <1>4, <1>5
  <1>7. PICK r : /\ r = ReadFrom(u)
                 /\ r[Len(u) + 1] = <<>>
                 /\ \A i \in 1..Len(u) :
                       r[i] = IF IsEscape(u, i)
                              THEN <<16 * hexVal(u[i + 1]) + hexVal(u[i + 2])>> \o r[i + 3]
                              ELSE <<u[i]>> \o r[i + 1]
    BY <1>6, ReadIs
  <1> DEFINE S == {d \in Nat : d <= n => r[Len(w[n - d]) + 1] = SubSeq(s, n - d + 1, n)}
  <1>8. 0 \in S
    <2>1. n - 0 = n /\ n < n - 0 + 1 /\ n - 0 + 1 \in Int
      OBVIOUS
    <2>2. SubSeq(s, n - 0 + 1, n) = <<>>
      BY <2>1, SubSeqEmpty
    <2>3. r[Len(w[n - 0]) + 1] = <<>>
      BY <1>4, <1>7, <2>1
    <2> QED
      BY <2>2, <2>3
  <1>9. ASSUME NEW d \in Nat, d \in S, d + 1 <= n
        PROVE  r[Len(w[n - (d + 1)]) + 1] = SubSeq(s, n - (d + 1) + 1, n)
    <2>1. PICK k \in 0..n - 1 : k = n - (d + 1)
      BY <1>9
    <2>2. n - d = k + 1 /\ n - d + 1 = k + 2 /\ d <= n /\ k \in 0..n /\ k + 1 \in 0..n
      BY <1>9, <2>1
    <2>3. r[Len(w[k + 1]) + 1] = SubSeq(s, k + 2, n)
      BY <1>9, <2>2
    <2>4. PICK c \in Byte : c = s[k + 1]
      <3>1. k + 1 \in 1..Len(s)
        BY <1>1
      <3> QED
        BY <3>1, ElementOfSeq
    <2>5. PICK e \in Seq(KeyByte) : e = EscapeByte(c)
      BY EscapeByteIs
    <2>6. w[k + 1] = w[k] \o e
      BY <1>2, <2>4, <2>5, WrittenAt
    <2>7. PICK p \in Nat : p = Len(w[k])
      BY <1>5, <2>2
    <2>8. Len(e) \in Nat /\ Len(w[k + 1]) = p + Len(e)
      BY <1>5, <2>2, <2>5, <2>6, <2>7, ConcatProperties, LenProperties
    <2>9. \A j \in 1..Len(e) : u[p + j] = e[j]
      <3>1. ASSUME NEW j \in 1..Len(e) PROVE u[p + j] = e[j]
        <4>1. p + j \in 1..p + Len(e) /\ ~(p + j <= p) /\ p + j - p = j
          BY <2>8
        <4>2. w[k + 1][p + j] = e[j]
          BY <1>5, <2>2, <2>5, <2>6, <2>7, <4>1, ConcatProperties
        <4>3. u[p + j] = w[k + 1][p + j]
          BY <1>1, <1>2, <1>4, <2>2, <2>8, <4>1, WrittenStays
        <4> QED
          BY <4>2, <4>3
      <3> QED
        BY <3>1
    <2>10. p + Len(e) <= Len(u)
      BY <1>1, <1>2, <1>4, <2>2, <2>8, WrittenStays
    <2>11. SubSeq(s, k + 1, n) = <<c>> \o SubSeq(s, k + 2, n)
      <3>1. k + 1 \in 1..Len(s) /\ n \in (k + 1)..Len(s) /\ k + 1 + 1 = k + 2
        BY <1>1
      <3> QED
        BY <2>4, <3>1, SubSeqRecursiveFirst
    <2>12. r[p + 1] = <<c>> \o r[p + Len(e) + 1]
      <3>1. CASE c \in Safe
        <4>1. e = <<c>> /\ c # Equals
          BY <2>5, <3>1, EscapeByteIs
        <4>2. Len(e) = 1 /\ e[1] = c
          BY <4>1
        <4>3. u[p + 1] = c /\ p + 1 \in 1..Len(u) /\ p + 1 + 1 = p + Len(e) + 1
          BY <1>6, <2>9, <2>10, <4>2
        <4>4. ~IsEscape(u, p + 1)
          BY <4>1, <4>3 DEF IsEscape
        <4> QED
          BY <1>7, <4>3, <4>4
      <3>2. CASE c \notin Safe
        <4>1. PICK hi \in 0..15, lo \in 0..15 :
                 /\ Len(e) = 3 /\ e[1] = Equals
                 /\ hi = hexVal(e[2]) /\ lo = hexVal(e[3]) /\ 16 * hi + lo = c
          BY <2>5, <3>2, EscapeByteIs
        <4>2. /\ p + 1 \in 1..Len(u) /\ p + 1 + 2 <= Len(u)
              /\ p + 1 + 1 = p + 2 /\ p + 1 + 2 = p + 3 /\ p + 1 + 3 = p + Len(e) + 1
              /\ 1 \in 1..Len(e) /\ 2 \in 1..Len(e) /\ 3 \in 1..Len(e)
          BY <1>6, <2>10, <4>1
        <4>3. u[p + 1] = Equals /\ u[p + 1 + 1] = e[2] /\ u[p + 1 + 2] = e[3]
          BY <2>9, <4>1, <4>2
        <4>4. NoDigit \notin {hexVal(u[p + 1 + 1]), hexVal(u[p + 1 + 2])}
          <5>1. hi # NoDigit /\ lo # NoDigit
            BY DEF NoDigit
          <5> QED
            BY <4>1, <4>3, <5>1
        <4>5. IsEscape(u, p + 1)
          BY <4>2, <4>3, <4>4 DEF IsEscape
        <4>6. r[p + 1] = <<16 * hexVal(u[p + 1 + 1]) + hexVal(u[p + 1 + 2])>> \o r[p + 1 + 3]
          BY <1>7, <4>2, <4>5
        <4> QED
          BY <4>1, <4>2, <4>3, <4>6
      <3> QED
        BY <3>1, <3>2
    <2>13. r[p + 1] = SubSeq(s, k + 1, n)
      BY <2>3, <2>8, <2>11, <2>12
    <2>14. n - (d + 1) + 1 = k + 1 /\ n - (d + 1) = k
      BY <2>1
    <2> QED
      BY <2>7, <2>13, <2>14
  <1>10. \A d \in Nat : d \in S => d + 1 \in S
    BY <1>9
  <1> HIDE DEF S
  <1>11. n \in S
    BY <1>8, <1>10, SetInduction
  <1>12. r[Len(w[0]) + 1] = SubSeq(s, 1, n)
    <2>1. n - n = 0 /\ 0 + 1 = 1 /\ n <= n
      OBVIOUS
    <2> QED
      BY <1>11, <2>1 DEF S
  <1>13. Len(w[0]) = 0
    BY <1>2, WrittenAt, EmptySeq
  <1>14. r[1] = s
    BY <1>1, <1>12, <1>13, SubSeqFull
  <1> QED
    BY <1>3, <1>6, <1>7, <1>14, UnescapeIsRead

\* What is put before the parts of a key can be told from them, and cut off.
LEMMA KeyParts ==
    ASSUME NEW T, NEW s \in Seq(T), Len(s) = 2, NEW t \in Seq(T)
    PROVE  /\ s \o t \in Seq(T) /\ Len(s \o t) = Len(t) + 2 /\ Len(t) \in Nat
           /\ (s \o t)[1] = s[1] /\ (s \o t)[2] = s[2]
           /\ SubSeq(s \o t, 3, Len(s \o t)) = t
  <1>2. PICK key : key = s \o t
    OBVIOUS
  <1>3. PICK n \in Nat : n = Len(t)
    BY LenProperties
  <1>4. /\ key \in Seq(T) /\ Len(key) = n + 2
        /\ \A i \in 1..n + 2 : key[i] = IF i <= 2 THEN s[i] ELSE t[i - 2]
    <2>1. /\ key \in Seq(T) /\ Len(key) = Len(s) + Len(t)
          /\ \A i \in 1..Len(s) + Len(t) : key[i] = IF i <= Len(s) THEN s[i] ELSE t[i - Len(s)]
      BY <1>2, ConcatProperties
    <2>2. Len(s) = 2 /\ Len(s) + Len(t) = n + 2
      BY <1>3
    <2> QED
      BY <2>1, <2>2
  <1>5. key[1] = s[1] /\ key[2] = s[2]
    BY <1>3, <1>4
  <1>6. \A i \in 1..n : key[i + 2] = t[i]
    <2>1. \A i \in 1..n : i + 2 \in 1..n + 2 /\ ~(i + 2 <= 2) /\ i + 2 - 2 = i
      OBVIOUS
    <2> QED
      BY <1>4, <2>1
  <1>7. PICK u : u = SubSeq(key, 3, n + 2)
    OBVIOUS
  <1>8. /\ u \in Seq(T) /\ Len(u) = n
        /\ \A i \in 1..n : u[i] = key[3 + i - 1]
    <2>1. \A i \in 3..(n + 2) : key[i] \in T
      BY <1>4, ElementOfSeq
    <2>2. (IF 3 <= n + 2 THEN n + 2 - 3 + 1 ELSE 0) = n /\ n + 2 - 3 + 1 = n /\ n + 2 \in Int
      OBVIOUS
    <2> QED
      BY <1>7, <2>1, <2>2, SubSeqProperties
  <1>9. \A i \in 1..n : u[i] = t[i]
    <2>1. \A i \in 1..n : 3 + i - 1 = i + 2
      OBVIOUS
    <2> QED
      BY <1>6, <1>8, <2>1
  <1>10. u = t
    BY <1>3, <1>8, <1>9, SeqEqual
  <1> QED
    BY <1>2, <1>3, <1>4, <1>5, <1>7, <1>10

\* What is left of a list of parts without its first one.
LEMMA RestOfParts ==
    ASSUME NEW T, NEW a \in T, NEW b \in T, NEW c \in T
    PROVE  Tail(<<a, b>>) = <<b>> /\ Tail(<<a, b, c>>) = <<b, c>>
  OBVIOUS

\* A name without a dot is one part, and what is put before it makes a longer list.
LEMMA OnePart ==
    ASSUME NEW T, NEW name \in Seq(T), Undotted(name)
    PROVE  \E n \in T : name = <<n>>
  <1>1. Len(name) = 1 /\ name[1] \in T
    BY ElementOfSeq, LenProperties DEF Undotted
  <1>2. <<name[1]>> \in Seq(T) /\ Len(<<name[1]>>) = 1 /\ <<name[1]>>[1] = name[1]
    BY <1>1
  <1>3. name = <<name[1]>>
    BY <1>1, <1>2, SeqEqual
  <1> QED
    BY <1>1, <1>3
LEMMA Joined ==
    ASSUME NEW T, NEW a \in T, NEW b \in T, NEW c \in T
    PROVE  <<a>> \o <<b>> = <<a, b>> /\ <<a, b>> \o <<c>> = <<a, b, c>>
  <1>1. ASSUME NEW s \in Seq(T), NEW t \in Seq(T), NEW u \in Seq(T),
               Len(u) = Len(s) + Len(t),
               \A i \in 1..Len(s) : u[i] = s[i],
               \A i \in 1..Len(t) : u[Len(s) + i] = t[i]
        PROVE  s \o t = u
    <2>1. /\ s \o t \in Seq(T) /\ Len(s \o t) = Len(s) + Len(t)
          /\ \A i \in 1..Len(s) + Len(t) : (s \o t)[i] = IF i <= Len(s) THEN s[i] ELSE t[i - Len(s)]
          /\ Len(s) \in Nat /\ Len(t) \in Nat
      BY ConcatProperties, LenProperties
    <2>2. ASSUME NEW i \in 1..Len(u) PROVE (s \o t)[i] = u[i]
      <3>1. CASE i <= Len(s)
        BY <1>1, <2>1, <3>1
      <3>2. CASE ~(i <= Len(s))
        <4>1. i - Len(s) \in 1..Len(t) /\ Len(s) + (i - Len(s)) = i
          BY <1>1, <2>1, <3>2
        <4>2. u[Len(s) + (i - Len(s))] = t[i - Len(s)]
          BY <1>1, <4>1
        <4> QED
          BY <1>1, <2>1, <3>2, <4>1, <4>2
      <3> QED
        BY <3>1, <3>2
    <2> QED
      BY <1>1, <2>1, <2>2, SeqEqual
  <1>2. /\ <<a>> \in Seq(T) /\ <<b>> \in Seq(T) /\ <<c>> \in Seq(T)
        /\ <<a, b>> \in Seq(T) /\ <<a, b, c>> \in Seq(T)
        /\ Len(<<a>>) = 1 /\ Len(<<b>>) = 1 /\ Len(<<c>>) = 1
        /\ Len(<<a, b>>) = 2 /\ Len(<<a, b, c>>) = 3
        /\ <<a>>[1] = a /\ <<b>>[1] = b /\ <<c>>[1] = c
        /\ <<a, b>>[1] = a /\ <<a, b>>[2] = b
        /\ <<a, b, c>>[1] = a /\ <<a, b, c>>[2] = b /\ <<a, b, c>>[3] = c
    OBVIOUS
  <1>3. <<a>> \o <<b>> = <<a, b>>
    <2>1. Len(<<a, b>>) = Len(<<a>>) + Len(<<b>>)
      BY <1>2
    <2>2. \A i \in 1..Len(<<a>>) : <<a, b>>[i] = <<a>>[i]
      BY <1>2
    <2>3. \A i \in 1..Len(<<b>>) : <<a, b>>[Len(<<a>>) + i] = <<b>>[i]
      BY <1>2
    <2> QED
      BY <1>1, <1>2, <2>1, <2>2, <2>3
  <1>4. <<a, b>> \o <<c>> = <<a, b, c>>
    <2>1. Len(<<a, b, c>>) = Len(<<a, b>>) + Len(<<c>>)
      BY <1>2
    <2>2. \A i \in 1..Len(<<a, b>>) : <<a, b, c>>[i] = <<a, b>>[i]
      BY <1>2
    <2>3. \A i \in 1..Len(<<c>>) : <<a, b, c>>[Len(<<a, b>>) + i] = <<c>>[i]
      BY <1>2
    <2> QED
      BY <1>1, <1>2, <2>1, <2>2, <2>3
  <1> QED
    BY <1>3, <1>4

\* A key without a session, and one with a session, as an extension reads them.
LEMMA GlobalKeyIsRead ==
    ASSUME NEW T, NEW tenant \in T, NEW ext \in T, NEW name \in T, TheT \in T
    PROVE  StoredUnder(configKVKey(tenant, ext, "global", <<>>, <<name>>), ext) =
              [scope |-> "global", tenant |-> tenant, name |-> <<name>>]
  <1>0. PICK s \in Seq(T) : /\ s = <<TheT, tenant>> /\ Len(s) = 2
                            /\ s[1] = TheT /\ s[2] = tenant
    <2>1. /\ <<TheT, tenant>> \in Seq(T) /\ Len(<<TheT, tenant>>) = 2
          /\ <<TheT, tenant>>[1] = TheT /\ <<TheT, tenant>>[2] = tenant
      OBVIOUS
    <2> QED
      BY <2>1
  <1>1. PICK rest \in Seq(T) : /\ rest = <<ext, name>> /\ Len(rest) = 2 /\ rest[1] = ext
                               /\ Tail(rest) = <<name>>
    <2>1. <<ext, name>> \in Seq(T) /\ Len(<<ext, name>>) = 2 /\ <<ext, name>>[1] = ext
      OBVIOUS
    <2>2. Tail(<<ext, name>>) = <<name>>
      BY RestOfParts
    <2> QED
      BY <2>1, <2>2
  <1>2. PICK parts : parts = <<name>> /\ Len(parts) = 1 /\ parts[1] = name
    <2>1. Len(<<name>>) = 1 /\ <<name>>[1] = name
      OBVIOUS
    <2> QED
      BY <2>1
  <1>3. PICK key : /\ key = configKVKey(tenant, ext, "global", <<>>, <<name>>)
                   /\ key = s \o rest
    BY <1>0, <1>1, Joined DEF configKVKey, TenantKVKey
  <1>4. /\ Len(key) = 4 /\ key[1] = TheT /\ key[2] = tenant
        /\ SubSeq(key, 3, Len(key)) = rest
    <2>1. /\ Len(s \o rest) = 4 /\ (s \o rest)[1] = TheT /\ (s \o rest)[2] = tenant
          /\ SubSeq(s \o rest, 3, Len(s \o rest)) = rest
      <3>1. Len(s) = 2
        BY <1>0
      <3>2. Len(rest) + 2 = 4
        BY <1>1
      <3>3. SubSeq(s \o rest, 3, Len(s \o rest)) = rest /\ Len(s \o rest) = Len(rest) + 2
        BY <3>1, KeyParts
      <3>4. (s \o rest)[1] = s[1] /\ (s \o rest)[2] = s[2]
        BY <3>1, KeyParts
      <3> QED
        BY <1>0, <3>2, <3>3, <3>4
    <2> QED
      BY <1>3, <2>1
  <1>5. ~(Len(key) < 3 \/ key[1] # TheT) /\ Len(rest) > 1
    BY <1>1, <1>4
  <1> QED
    BY <1>1, <1>2, <1>3, <1>4, <1>5 DEF StoredUnder

LEMMA SessionKeyIsRead ==
    ASSUME NEW T, NEW tenant \in T, NEW ext \in T, NEW name \in T, TheT \in T,
           NEW session, EscapeKVSegment(session) \in T
    PROVE  LET key == configKVKey(tenant, ext, "session", session, <<name>>) IN
           /\ key \in Seq(T)
           /\ StoredUnder(key, ext) =
                 [scope |-> "session", tenant |-> tenant, name |-> <<name>>,
                  session |-> UnescapeKVSegment(EscapeKVSegment(session))]
  <1>0. PICK s \in Seq(T) : /\ s = <<TheT, tenant>> /\ Len(s) = 2
                            /\ s[1] = TheT /\ s[2] = tenant
    <2>1. /\ <<TheT, tenant>> \in Seq(T) /\ Len(<<TheT, tenant>>) = 2
          /\ <<TheT, tenant>>[1] = TheT /\ <<TheT, tenant>>[2] = tenant
      OBVIOUS
    <2> QED
      BY <2>1
  <1>1. PICK e \in T : e = EscapeKVSegment(session)
    OBVIOUS
  <1>2. PICK rest \in Seq(T) : /\ rest = <<ext, e, name>> /\ Len(rest) = 3 /\ rest[1] = ext
                               /\ Tail(rest) = <<e, name>>
    <2>1. /\ <<ext, e, name>> \in Seq(T) /\ Len(<<ext, e, name>>) = 3
          /\ <<ext, e, name>>[1] = ext
      OBVIOUS
    <2>2. Tail(<<ext, e, name>>) = <<e, name>>
      BY RestOfParts
    <2> QED
      BY <2>1, <2>2
  <1>3. PICK parts : /\ parts = <<e, name>> /\ Len(parts) = 2
                     /\ parts[1] = e /\ Tail(parts) = <<name>>
    <2>1. Len(<<e, name>>) = 2 /\ <<e, name>>[1] = e
      OBVIOUS
    <2> QED
      BY <2>1, RestOfParts
  <1>4. PICK key : /\ key = configKVKey(tenant, ext, "session", session, <<name>>)
                   /\ key = s \o rest
    <2>1. <<ext, e>> \o <<name>> = rest
      BY <1>2, Joined
    <2> QED
      BY <1>0, <1>1, <2>1 DEF configKVKey, TenantKVKey
  <1>5. /\ key \in Seq(T) /\ Len(key) = 5 /\ key[1] = TheT /\ key[2] = tenant
        /\ SubSeq(key, 3, Len(key)) = rest
    <2>1. /\ s \o rest \in Seq(T) /\ Len(s \o rest) = 5
          /\ (s \o rest)[1] = TheT /\ (s \o rest)[2] = tenant
          /\ SubSeq(s \o rest, 3, Len(s \o rest)) = rest
      <3>1. Len(s) = 2
        BY <1>0
      <3>2. Len(rest) + 2 = 5
        BY <1>2
      <3>3. /\ SubSeq(s \o rest, 3, Len(s \o rest)) = rest /\ Len(s \o rest) = Len(rest) + 2
            /\ s \o rest \in Seq(T)
        BY <3>1, KeyParts
      <3>4. (s \o rest)[1] = s[1] /\ (s \o rest)[2] = s[2]
        BY <3>1, KeyParts
      <3> QED
        BY <1>0, <3>2, <3>3, <3>4
    <2> QED
      BY <1>4, <2>1
  <1>6. ~(Len(key) < 3 \/ key[1] # TheT) /\ Len(rest) > 1 /\ Len(parts) # 1
    BY <1>2, <1>3, <1>5
  <1> QED
    BY <1>1, <1>2, <1>3, <1>4, <1>5, <1>6 DEF StoredUnder

LEMMA KeysAreReadBack == GlobalsReadBack /\ SessionsReadBack
  <1>0. /\ TheT \in Seq(KeyByte) /\ SomeTenant \in Seq(KeyByte) /\ SomeExt \in Seq(KeyByte)
        /\ ItemNames \subseteq Seq(Seq(KeyByte))
    <2>1. 116 \in KeyByte /\ 120 \in KeyByte /\ 101 \in KeyByte
      BY DEF KeyByte, Safe
    <2>2. TheT \in Seq(KeyByte) /\ SomeTenant \in Seq(KeyByte) /\ SomeExt \in Seq(KeyByte)
      BY <2>1 DEF TheT, SomeTenant, SomeExt
    <2> QED
      BY <2>2, KVKeysAssumption DEF KeyByte
  <1>1. GlobalsReadBack
    <2>1. ASSUME NEW name \in ItemNames, Undotted(name)
          PROVE  StoredUnder(configKVKey(SomeTenant, SomeExt, "global", <<>>, name), SomeExt) =
                    [scope |-> "global", tenant |-> SomeTenant, name |-> name]
      <3> DEFINE T == Seq(KeyByte)
      <3>0. TheT \in T /\ SomeTenant \in T /\ SomeExt \in T /\ name \in Seq(T)
        BY <1>0
      <3> HIDE DEF T
      <3>1. PICK n \in T : name = <<n>>
        BY <2>1, <3>0, OnePart
      <3>2. StoredUnder(configKVKey(SomeTenant, SomeExt, "global", <<>>, <<n>>), SomeExt) =
               [scope |-> "global", tenant |-> SomeTenant, name |-> <<n>>]
        BY <3>0, GlobalKeyIsRead
      <3> QED
        BY <3>1, <3>2
    <2> QED
      BY <2>1 DEF GlobalsReadBack
  <1>2. ASSUME NEW session \in Texts, NEW name \in ItemNames
        PROVE  LET key == configKVKey(SomeTenant, SomeExt, "session", session, name)
               IN  /\ \A i \in DOMAIN key : \A j \in DOMAIN key[i] : key[i][j] \in KeyByte
                   /\ Undotted(name) =>
                        StoredUnder(key, SomeExt) = [scope |-> "session", tenant |-> SomeTenant,
                                                     name |-> name, session |-> session]
    <2> DEFINE T == Seq(KeyByte)
    <2>1. session \in Seq(Byte)
      <3>1. PICK n \in 1..MaxLength : session \in [1..n -> Bytes]
        BY DEF Texts
      <3>2. n \in Nat /\ Bytes \subseteq Byte
        BY KVKeysAssumption DEF Byte
      <3>3. session \in Seq(Bytes)
        BY <3>1, <3>2
      <3> QED
        BY <3>2, <3>3, SeqMonotonic
    <2>2. /\ EscapeKVSegment(session) \in T
          /\ UnescapeKVSegment(EscapeKVSegment(session)) = session
      BY <2>1, EscapeIsReadBack
    <2>3. TheT \in T /\ SomeTenant \in T /\ SomeExt \in T /\ name \in Seq(T)
      BY <1>0
    <2>4. \A t \in T : \A j \in DOMAIN t : t[j] \in KeyByte
      BY LenProperties, ElementOfSeq
    <2> HIDE DEF T
    <2>5. PICK key : key = configKVKey(SomeTenant, SomeExt, "session", session, name)
      OBVIOUS
    <2>6. key \in Seq(T)
      <3>1. PICK e \in T : e = EscapeKVSegment(session)
        BY <2>2
      <3>2. key = <<TheT, SomeTenant>> \o (<<SomeExt, e>> \o name)
        BY <2>5, <3>1 DEF configKVKey, TenantKVKey
      <3>3. <<TheT, SomeTenant>> \in Seq(T) /\ <<SomeExt, e>> \in Seq(T)
        BY <2>3
      <3>4. <<SomeExt, e>> \o name \in Seq(T)
        BY <2>3, <3>3, ConcatProperties
      <3> QED
        BY <3>2, <3>3, <3>4, ConcatProperties
    <2>7. \A i \in DOMAIN key : key[i] \in T
      BY <2>6, LenProperties, ElementOfSeq
    <2>8. ASSUME Undotted(name)
          PROVE  StoredUnder(key, SomeExt) = [scope |-> "session", tenant |-> SomeTenant,
                                              name |-> name, session |-> session]
      <3>1. PICK n \in T : name = <<n>>
        BY <2>3, <2>8, OnePart
      <3>2. StoredUnder(configKVKey(SomeTenant, SomeExt, "session", session, <<n>>), SomeExt) =
               [scope |-> "session", tenant |-> SomeTenant, name |-> <<n>>,
                session |-> UnescapeKVSegment(EscapeKVSegment(session))]
        BY <2>2, <2>3, SessionKeyIsRead
      <3> QED
        BY <2>2, <2>5, <3>1, <3>2
    <2> QED
      BY <2>4, <2>5, <2>7, <2>8
  <1> QED
    BY <1>1, <1>2 DEF SessionsReadBack, KeyByte

\* KeyIsReadBack: what applyConfigKV makes of the key of an item whose name has no dot is
\* what configKVKey made it of, for names of sessions of any length and any bytes.
THEOREM KeyIsReadBackHolds == Spec => []KeyIsReadBack
  <1>1. KeyIsReadBack
    BY KeysAreReadBack DEF KeyIsReadBack
  <1> QED
    BY <1>1, PTL

\* The parts of a key, and those that follow the tenant.
LEMMA KeyIsParts ==
    ASSUME NEW T, TheT \in T, NEW tenant \in T, NEW rest \in Seq(T)
    PROVE  /\ TenantKVKey(tenant, rest)[2] = tenant
           /\ SubSeq(TenantKVKey(tenant, rest), 3, Len(TenantKVKey(tenant, rest))) = rest
  <1>1. PICK s \in Seq(T) : s = <<TheT, tenant>> /\ Len(s) = 2 /\ s[2] = tenant
    <2>1. /\ <<TheT, tenant>> \in Seq(T) /\ Len(<<TheT, tenant>>) = 2
          /\ <<TheT, tenant>>[2] = tenant
      OBVIOUS
    <2> QED
      BY <2>1
  <1>2. (s \o rest)[2] = s[2] /\ SubSeq(s \o rest, 3, Len(s \o rest)) = rest
    BY <1>1, KeyParts
  <1> QED
    BY <1>1, <1>2 DEF TenantKVKey

\* Two lists that start with as many parts have the same start and the same rest.
LEMMA SameParts ==
    ASSUME NEW T, NEW s \in Seq(T), NEW s2 \in Seq(T), NEW t \in Seq(T), NEW t2 \in Seq(T)
    PROVE  Len(s) = Len(s2) /\ s \o t = s2 \o t2 => s = s2 /\ t = t2
  <1>1. PICK n \in Nat, m \in Nat, n2 \in Nat, m2 \in Nat :
           Len(s) = n /\ Len(s2) = n2 /\ Len(t) = m /\ Len(t2) = m2
    BY LenProperties
  <1>2. PICK u : u = s \o t
    OBVIOUS
  <1>3. /\ Len(u) = n + m
        /\ \A i \in 1..n + m : u[i] = IF i <= n THEN s[i] ELSE t[i - n]
    BY <1>1, <1>2, ConcatProperties
  <1>4. PICK u2 : u2 = s2 \o t2
    OBVIOUS
  <1>5. /\ Len(u2) = n2 + m2
        /\ \A i \in 1..n2 + m2 : u2[i] = IF i <= n2 THEN s2[i] ELSE t2[i - n2]
    BY <1>1, <1>4, ConcatProperties
  <1>6. ASSUME n = n2, u = u2 PROVE s = s2 /\ t = t2
    <2>1. m = m2
      BY <1>3, <1>5, <1>6
    <2>2. \A i \in 1..n : i \in 1..n + m /\ s[i] = s2[i]
      BY <1>3, <1>5, <1>6, <2>1
    <2>3. ASSUME NEW i \in 1..m PROVE t[i] = t2[i]
      <3>1. n + i \in 1..n + m /\ ~(n + i <= n) /\ n + i - n = i
        OBVIOUS
      <3>2. u[n + i] = t[n + i - n]
        BY <1>3, <3>1
      <3>3. u2[n + i] = t2[n + i - n]
        BY <1>5, <1>6, <2>1, <3>1
      <3> QED
        BY <1>6, <3>1, <3>2, <3>3
    <2> QED
      BY <1>1, <1>6, <2>1, <2>2, <2>3, SeqEqual
  <1> QED
    BY <1>1, <1>2, <1>4, <1>6

\* What is between the tenant and the name in a key: the extension, and the session if
\* the item is a session's.
HeadOf(ext, reach, session) ==
    IF reach = "session" THEN <<ext, EscapeKVSegment(session)>> ELSE <<ext>>

LEMMA HeadIs ==
    ASSUME NEW T, NEW ext \in T, NEW reach, NEW session, EscapeKVSegment(session) \in T
    PROVE  /\ HeadOf(ext, reach, session) \in Seq(T)
           /\ Len(HeadOf(ext, reach, session)) = IF reach = "session" THEN 2 ELSE 1
           /\ HeadOf(ext, reach, session)[1] = ext
  <1>1. PICK e \in T : e = EscapeKVSegment(session)
    OBVIOUS
  <1>2. /\ <<ext, e>> \in Seq(T) /\ <<ext>> \in Seq(T)
        /\ Len(<<ext, e>>) = 2 /\ Len(<<ext>>) = 1
        /\ <<ext, e>>[1] = ext /\ <<ext>>[1] = ext
    OBVIOUS
  <1> QED
    BY <1>1, <1>2 DEF HeadOf

\* A list's length and first part, with more parts after it.
LEMMA Headed ==
    ASSUME NEW T, NEW h \in Seq(T), Len(h) >= 1, NEW name \in Seq(T)
    PROVE  /\ h \o name \in Seq(T) /\ Len(h \o name) = Len(h) + Len(name)
           /\ (h \o name)[1] = h[1]
  <1>1. PICK n \in Nat, m \in Nat : Len(name) = n /\ Len(h) = m /\ m >= 1
    BY LenProperties
  <1>2. /\ h \o name \in Seq(T) /\ Len(h \o name) = m + n
        /\ \A i \in 1..m + n : (h \o name)[i] = IF i <= m THEN h[i] ELSE name[i - m]
    BY <1>1, ConcatProperties
  <1>3. 1 \in 1..m + n
    BY <1>1
  <1> QED
    BY <1>1, <1>2, <1>3

\* Two items of configuration share a key only if one of them is global, the other one a
\* session's, and the name of one has a dot: neither those of two tenants, extensions or
\* sessions do, whatever bytes the sessions' names are made of.  Tenants and ids of
\* extensions are taken without dots, which the code leaves to whoever names them.
THEOREM KeysAreApart ==
    ASSUME NEW reach \in {"global", "session"}, NEW reach2 \in {"global", "session"},
           NEW tenant \in Seq(KeyByte), NEW tenant2 \in Seq(KeyByte),
           NEW ext \in Seq(KeyByte), NEW ext2 \in Seq(KeyByte),
           NEW name \in Seq(Seq(KeyByte)), NEW name2 \in Seq(Seq(KeyByte)),
           name # <<>>, name2 # <<>>,
           NEW session \in Seq(Byte), NEW session2 \in Seq(Byte),
           configKVKey(tenant, ext, reach, session, name) =
              configKVKey(tenant2, ext2, reach2, session2, name2)
    PROVE  /\ tenant = tenant2 /\ ext = ext2
           /\ reach = reach2 =>
                 name = name2 /\ (reach = "session" => session = session2)
           /\ reach # reach2 => ~Undotted(name) \/ ~Undotted(name2)
  <1> DEFINE T == Seq(KeyByte)
  <1>a. TheT \in T
    <2>1. 116 \in KeyByte
      BY DEF KeyByte, Safe
    <2> QED
      BY <2>1 DEF TheT
  <1>b. EscapeKVSegment(session) \in T /\ EscapeKVSegment(session2) \in T
    BY EscapeIsReadBack
  <1>c. /\ tenant \in T /\ tenant2 \in T /\ ext \in T /\ ext2 \in T
        /\ name \in Seq(T) /\ name2 \in Seq(T)
    OBVIOUS
  <1> HIDE DEF T
  <1>1. PICK h \in Seq(T), r \in Seq(T) :
           /\ h = HeadOf(ext, reach, session) /\ r = h \o name
           /\ Len(h) = IF reach = "session" THEN 2 ELSE 1
           /\ Len(r) = Len(h) + Len(name) /\ r[1] = ext
    <2>1. PICK k \in Seq(T) : /\ k = HeadOf(ext, reach, session)
                              /\ Len(k) = IF reach = "session" THEN 2 ELSE 1
                              /\ k[1] = ext
      BY <1>b, <1>c, HeadIs
    <2>2. Len(k) >= 1
      BY <2>1
    <2>3. /\ k \o name \in Seq(T) /\ Len(k \o name) = Len(k) + Len(name)
          /\ (k \o name)[1] = k[1]
      BY <1>c, <2>2, Headed
    <2> QED
      BY <2>1, <2>3
  <1>2. PICK h2 \in Seq(T), r2 \in Seq(T) :
           /\ h2 = HeadOf(ext2, reach2, session2) /\ r2 = h2 \o name2
           /\ Len(h2) = IF reach2 = "session" THEN 2 ELSE 1
           /\ Len(r2) = Len(h2) + Len(name2) /\ r2[1] = ext2
    <2>1. PICK k \in Seq(T) : /\ k = HeadOf(ext2, reach2, session2)
                              /\ Len(k) = IF reach2 = "session" THEN 2 ELSE 1
                              /\ k[1] = ext2
      BY <1>b, <1>c, HeadIs
    <2>2. Len(k) >= 1
      BY <2>1
    <2>3. /\ k \o name2 \in Seq(T) /\ Len(k \o name2) = Len(k) + Len(name2)
          /\ (k \o name2)[1] = k[1]
      BY <1>c, <2>2, Headed
    <2> QED
      BY <2>1, <2>3
  <1>3. tenant = tenant2 /\ r = r2
    <2>1. /\ TenantKVKey(tenant, r)[2] = tenant
          /\ SubSeq(TenantKVKey(tenant, r), 3, Len(TenantKVKey(tenant, r))) = r
      BY <1>a, <1>c, KeyIsParts
    <2>2. /\ TenantKVKey(tenant2, r2)[2] = tenant2
          /\ SubSeq(TenantKVKey(tenant2, r2), 3, Len(TenantKVKey(tenant2, r2))) = r2
      BY <1>a, <1>c, KeyIsParts
    <2>3. TenantKVKey(tenant, r) = TenantKVKey(tenant2, r2)
      <3>1. configKVKey(tenant, ext, reach, session, name) = TenantKVKey(tenant, r)
        BY <1>1 DEF configKVKey, HeadOf
      <3>2. configKVKey(tenant2, ext2, reach2, session2, name2) = TenantKVKey(tenant2, r2)
        BY <1>2 DEF configKVKey, HeadOf
      <3> QED
        BY <3>1, <3>2
    <2> QED
      BY <2>1, <2>2, <2>3
  <1>4. ext = ext2
    BY <1>1, <1>2, <1>3
  <1>5. ASSUME reach = reach2
        PROVE  name = name2 /\ (reach = "session" => session = session2)
    <2>1. h = h2 /\ name = name2
      <3>1. Len(h) = Len(h2) /\ h \o name = h2 \o name2
        BY <1>1, <1>2, <1>3, <1>5
      <3> QED
        BY <1>c, <3>1, SameParts
    <2>2. ASSUME reach = "session" PROVE session = session2
      <3>1. <<ext, EscapeKVSegment(session)>> = <<ext2, EscapeKVSegment(session2)>>
        BY <1>1, <1>2, <1>5, <2>1, <2>2 DEF HeadOf
      <3>2. EscapeKVSegment(session) = EscapeKVSegment(session2)
        BY <3>1
      <3> QED
        BY <3>2, EscapeIsReadBack
    <2> QED
      BY <2>1, <2>2
  <1>6. ASSUME reach # reach2
        PROVE  ~Undotted(name) \/ ~Undotted(name2)
    <2>1. /\ Len(name) \in Nat /\ Len(name) > 0 /\ Len(name2) \in Nat /\ Len(name2) > 0
      BY <1>c, LenProperties, EmptySeq
    <2>2. Len(r) = Len(r2)
      BY <1>3
    <2>3. Len(h) + Len(name) = Len(h2) + Len(name2)
      BY <1>1, <1>2, <2>2
    <2>4. \/ Len(h) = 1 /\ Len(h2) = 2
          \/ Len(h) = 2 /\ Len(h2) = 1
      BY <1>1, <1>2, <1>6
    <2>5. PICK n \in Nat, n2 \in Nat : Len(name) = n /\ Len(name2) = n2 /\ n > 0 /\ n2 > 0
      BY <2>1
    <2>6. 1 + n = 2 + n2 \/ 2 + n = 1 + n2
      BY <2>3, <2>4, <2>5
    <2>7. n # 1 \/ n2 # 1
      BY <2>5, <2>6
    <2> QED
      BY <2>5, <2>7 DEF Undotted
  <1> QED
    BY <1>3, <1>4, <1>5, <1>6
=============================================================================
