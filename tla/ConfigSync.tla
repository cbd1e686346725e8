----------------------------- MODULE ConfigSync -----------------------------
(***************************************************************************)
(* One configuration key of one extension: SetConfig and DropSessionConfig *)
(* of agent/config.go, serveConfig and applyConfigKV of                    *)
(* extension/config.go, over the KV bucket and its watch in transport/nats.*)
(*                                                                         *)
(* SetConfig writes the value three times: into the agent's memory, into   *)
(* the bucket, and into a request to one replica of the extension.  The    *)
(* replica's request loop stores it, asks OnConfigChange and takes it back *)
(* on a rejection; its watch goroutine stores what the bucket says,        *)
(* without asking; and the agent deletes what was rejected.                *)
(*                                                                         *)
(* The bucket is the log of its entries; only the last one is retained, so *)
(* a watch that is behind may miss the others.                             *)
(*                                                                         *)
(* Faults says what may go wrong around the code:                          *)
(*    agent      an agent restarts         extension  a replica restarts   *)
(*    kv         a request fails, to the bucket or to a replica            *)
(*    slow       an ack takes over 5 s, or its publish fails               *)
(* upset remembers what did, as far as the code does not make up for it:   *)
(*    write      a KV write failed         call       an agent died in one *)
(*    read       an agent could not read the bucket                        *)
(*    late       a request outlived its SetConfig                          *)
(*    unheard    a rejection had nobody waiting for it, or was not sent    *)
(*    null       an agent could not read the revision of a null            *)
(***************************************************************************)
EXTENDS KVKeys

CONSTANTS
    Agents,         \* agent processes that call SetConfig, one call at a time
    Exts,           \* replicas of the extension
    Values,         \* values that pass validateConfigValue
    Null,           \* JSON's null, which is one of them if the item's type is json
    Envelope,       \* the object {r, v} that is stored, taken for a value itself
    NoValue,
    Rejected,       \* the values that OnConfigChange rejects
    Scopes,         \* what the key may be: "global", "session" or either
    Acks,           \* the values of ack that callers use
    MaxSets,        \* bound on the calls of SetConfig
    Faults

ASSUME ConstantsAssumption ==
    /\ NoValue \notin Values \cup {Null, Envelope} /\ Envelope \notin Values \cup {Null}
    /\ Rejected \subseteq Values \cup {Envelope}
    /\ Scopes \subseteq {"global", "session"}
    /\ Acks \subseteq BOOLEAN
    /\ MaxSets \in Nat
    /\ Faults \subseteq {"agent", "extension", "kv", "slow"}

VARIABLES
    mem,        \* per agent: the authority's entry for the key
    phase,      \* per agent: idle, persist, send or wait
    draft,      \* per agent: what SetConfig is setting
    reply,      \* per agent: the answer on its way to it
    returned,   \* per agent: what SetConfig returned last
    log,        \* the entries of the bucket, the last one retained
    bucket,     \* does the bucket exist?
    running,    \* the replicas that are up
    watching,   \* the replicas whose watch was set up when they started
    seen,       \* per replica: how much of the log its watch has delivered
    store,      \* per replica: the value in its ConfigStore
    requests,   \* per replica: requests not yet received
    hand,       \* per replica: the request OnConfigChange is looking at
    sets,       \* SetConfig calls so far
    scope,      \* of the key; it never changes
    upset       \* auxiliary: what went wrong so far, see above

vars == <<mem, phase, draft, reply, returned, log, bucket, running, watching,
          seen, store, requests, hand, sets, scope, upset>>
agentVars == <<mem, phase, draft, reply, returned, sets, upset>>
extVars == <<running, watching, seen, store, requests, hand>>

NoEntry == [rev |-> 0, val |-> NoValue]
NoRequest == [n |-> 0, val |-> NoValue, ack |-> FALSE]

Init ==
    /\ mem = [a \in Agents |-> NoEntry]
    /\ phase = [a \in Agents |-> "idle"]
    /\ draft = [a \in Agents |-> NoRequest]
    /\ reply = [a \in Agents |-> "none"]
    /\ returned = [a \in Agents |-> "none"]
    /\ log = <<>>
    /\ bucket \in BOOLEAN          \* other keys may have made it
    /\ running = {}
    /\ watching = {}
    /\ seen = [x \in Exts |-> 0]
    /\ store = [x \in Exts |-> NoValue]
    /\ requests = [x \in Exts |-> <<>>]
    /\ hand = [x \in Exts |-> NoRequest]
    /\ sets = 0
    /\ scope \in Scopes
    /\ upset = {}

-----------------------------------------------------------------------------
(* The bucket.                                                             *)

\* What KVGet returns; a deleted entry is a miss.
Current == IF log = <<>> THEN NoEntry ELSE log[Len(log)]

\* KVPut creates the bucket if need be; SetConfig ignores the errors of both.
KVPut(entry) ==
    \/ log' = Append(log, entry) /\ bucket' = TRUE /\ UNCHANGED upset
    \/ "kv" \in Faults /\ upset' = upset \cup {"write"} /\ UNCHANGED <<log, bucket>>

\* KVDelete does not create it: without a bucket it fails, and leaves nothing behind.
KVDelete == IF bucket THEN KVPut(NoEntry) ELSE UNCHANGED <<log, bucket, upset>>

\* An envelope is stored.  Its readers, decodeConfigEnvelope and applyConfigKV, take one
\* that has a null in it for a bare value of old, which has no revision.
Decoded(entry) ==
    IF entry.val = Null THEN [rev |-> 0, val |-> Envelope] ELSE entry

-----------------------------------------------------------------------------
(* The agent.                                                              *)

\* declare and recover read the global entry back from the bucket, if it is newer
\* or there is none in memory; KVGet takes a failure for a missing key.  Mutant: they
\* do not.
NotRecovered(a) == mem[a]
Recovered(a) ==
    IF scope = "global" /\ (mem[a] = NoEntry \/ Decoded(Current).rev > mem[a].rev)
    THEN Decoded(Current) ELSE mem[a]

NullAhead(a) == scope = "global" /\ Current.val = Null /\ Current.rev > mem[a].rev

Declare(a, known) ==
    /\ known # Recovered(a) => known = mem[a] /\ "kv" \in Faults
    /\ upset' = upset \cup {why \in {"read", "null"} :
                               \/ why = "read" /\ known # Recovered(a)
                               \/ why = "null" /\ NullAhead(a)}

\* The call bumps the revision in memory ...
SetConfig(a) ==
    /\ phase[a] = "idle" /\ sets < MaxSets
    /\ sets' = sets + 1
    /\ \E v \in Values, ack \in Acks, known \in {mem[a], Recovered(a)} :
          /\ Declare(a, known)
          /\ mem' = [mem EXCEPT ![a] = [rev |-> known.rev + 1, val |-> v]]
          /\ draft' = [draft EXCEPT ![a] = [n |-> sets', val |-> v, ack |-> ack]]
    /\ phase' = [phase EXCEPT ![a] = "persist"]
    /\ returned' = [returned EXCEPT ![a] = "none"]
    /\ UNCHANGED <<reply, log, bucket, extVars, scope>>

\* ... unless the value is invalid or the key is not declared.
SetRefused(a) ==
    /\ phase[a] = "idle"
    /\ \E known \in {mem[a], Recovered(a)} :
          Declare(a, known) /\ mem' = [mem EXCEPT ![a] = known]
    /\ returned' = [returned EXCEPT ![a] = "invalid_argument"]
    /\ UNCHANGED <<phase, draft, reply, sets, log, bucket, extVars, scope>>

Persist(a) ==
    /\ phase[a] = "persist"
    /\ KVPut(mem[a])
    /\ phase' = [phase EXCEPT ![a] = "send"]
    /\ UNCHANGED <<mem, draft, reply, returned, sets, extVars, scope>>

\* The request goes to one replica of the queue group; with none, or without a
\* connection, it fails at once, which is no failure.
Send(a) ==
    /\ phase[a] = "send"
    /\ \/ \E x \in running :
             /\ requests' = [requests EXCEPT ![x] = Append(@, draft[a])]
             /\ phase' = [phase EXCEPT ![a] = "wait"]
             /\ UNCHANGED returned
       \/ /\ running = {} \/ "kv" \in Faults
          /\ phase' = [phase EXCEPT ![a] = "idle"]
          /\ returned' = [returned EXCEPT ![a] = "nil"]
          /\ UNCHANGED requests
    /\ UNCHANGED <<mem, draft, reply, log, bucket, running, watching, seen, store,
                   hand, sets, scope, upset>>

\* Is the n-th call's request still on its way, or with OnConfigChange?
Pending(n) ==
    \E x \in Exts : \/ hand[x].n = n
                    \/ \E i \in 1 .. Len(requests[x]) : requests[x][i].n = n

\* Nor is a timeout; without an ack there is always one.
Expire(a) ==
    /\ phase[a] = "wait" /\ reply[a] = "none"
    /\ \/ /\ Pending(draft[a].n)
          /\ ~draft[a].ack \/ "slow" \in Faults
          /\ upset' = upset \cup {"late"}
       \/ ~Pending(draft[a].n) /\ UNCHANGED upset
    /\ phase' = [phase EXCEPT ![a] = "idle"]
    /\ returned' = [returned EXCEPT ![a] = "nil"]
    /\ UNCHANGED <<mem, draft, reply, sets, log, bucket, extVars, scope>>

Acked(a) ==
    /\ phase[a] = "wait" /\ reply[a] = "ok"
    /\ phase' = [phase EXCEPT ![a] = "idle"]
    /\ reply' = [reply EXCEPT ![a] = "none"]
    /\ returned' = [returned EXCEPT ![a] = "nil"]
    /\ UNCHANGED <<mem, draft, sets, log, bucket, extVars, scope, upset>>

\* A rejection deletes the entry from memory, if it is still the call's own,
\* and from the bucket, whatever it is.  Mutant: it stays in the bucket.
RolledBackInMemory(a) ==
    /\ phase[a] = "wait" /\ reply[a] = "rejected"
    /\ mem' = [mem EXCEPT ![a] = NoEntry]
    /\ phase' = [phase EXCEPT ![a] = "idle"]
    /\ reply' = [reply EXCEPT ![a] = "none"]
    /\ returned' = [returned EXCEPT ![a] = "retryable"]
    /\ UNCHANGED <<draft, sets, log, bucket, extVars, scope, upset>>
RolledBack(a) ==
    /\ phase[a] = "wait" /\ reply[a] = "rejected"
    /\ mem' = [mem EXCEPT ![a] = NoEntry]
    /\ KVDelete
    /\ phase' = [phase EXCEPT ![a] = "idle"]
    /\ reply' = [reply EXCEPT ![a] = "none"]
    /\ returned' = [returned EXCEPT ![a] = "retryable"]
    /\ UNCHANGED <<draft, sets, extVars, scope>>

\* DropSessionConfig deletes the overrides that the agent remembers.
DropSessionConfig(a) ==
    /\ scope = "session" /\ phase[a] = "idle" /\ sets > 0
    /\ IF mem[a] # NoEntry THEN KVDelete ELSE UNCHANGED <<log, bucket, upset>>
    /\ mem' = [mem EXCEPT ![a] = NoEntry]
    /\ UNCHANGED <<phase, draft, reply, returned, sets, extVars, scope>>

AgentRestart(a) ==
    /\ "agent" \in Faults
    /\ upset' = IF phase[a] = "idle" THEN upset ELSE upset \cup {"call"}
    /\ mem' = [mem EXCEPT ![a] = NoEntry]
    /\ phase' = [phase EXCEPT ![a] = "idle"]
    /\ reply' = [reply EXCEPT ![a] = "none"]
    /\ returned' = [returned EXCEPT ![a] = "none"]
    /\ UNCHANGED <<draft, sets, log, bucket, extVars, scope>>

-----------------------------------------------------------------------------
(* The extension.                                                          *)

\* serveConfig: the watch, which KvWatch refuses when there is no bucket, and
\* starts with the retained entry; then the subscription.  Mutants: the watch is
\* not told what is there; it is told of an entry even if there is none.
WatchFromNow(x) ==
    /\ x \notin running
    /\ running' = running \cup {x}
    /\ watching' = IF bucket THEN watching \cup {x} ELSE watching
    /\ seen' = [seen EXCEPT ![x] = Len(log)]
    /\ UNCHANGED <<store, requests, hand, agentVars, log, bucket, scope>>
WatchFromLast(x) ==
    /\ x \notin running
    /\ running' = running \cup {x}
    /\ watching' = IF bucket THEN watching \cup {x} ELSE watching
    /\ seen' = [seen EXCEPT ![x] = Len(log) - 1]
    /\ UNCHANGED <<store, requests, hand, agentVars, log, bucket, scope>>
Serve(x) ==
    /\ x \notin running
    /\ running' = running \cup {x}
    /\ watching' = IF bucket THEN watching \cup {x} ELSE watching
    /\ seen' = [seen EXCEPT ![x] = IF log = <<>> THEN 0 ELSE Len(log) - 1]
    /\ UNCHANGED <<store, requests, hand, agentVars, log, bucket, scope>>

\* applyConfigKV: an entry is decoded and stored; a deletion is applied to a global
\* key only, as the key of a session splits into two parts and not into three.
ApplyConfigKV(x) ==
    /\ x \in running \cap watching
    /\ \E i \in seen[x] + 1 .. Len(log) :
          /\ seen' = [seen EXCEPT ![x] = i]
          /\ store' = [store EXCEPT ![x] =
                         IF log[i] = NoEntry /\ scope = "session" THEN @
                         ELSE Decoded(log[i]).val]
    /\ UNCHANGED <<running, watching, requests, hand, agentVars, log, bucket, scope>>

\* applyConfigSet stores the value of a request ...
ApplyConfigSet(x) ==
    /\ x \in running /\ hand[x] = NoRequest /\ requests[x] # <<>>
    /\ hand' = [hand EXCEPT ![x] = Head(requests[x])]
    /\ requests' = [requests EXCEPT ![x] = Tail(@)]
    /\ store' = [store EXCEPT ![x] = Head(requests[x]).val]
    /\ UNCHANGED <<running, watching, seen, agentVars, log, bucket, scope>>

\* ... until OnConfigChange rejects it; the caller is told if it wants to know, has
\* not stopped waiting, and the answer can be published.
Callers(x) == {a \in Agents : hand[x].ack /\ phase[a] = "wait" /\ draft[a].n = hand[x].n}
Answered(told, result) ==
    reply' = [a \in Agents |-> IF a \in told THEN result ELSE reply[a]]
OnConfigChange(x) ==
    /\ hand[x] # NoRequest
    /\ \E told \in SUBSET Callers(x) :
          /\ told = Callers(x) \/ "slow" \in Faults
          /\ IF hand[x].val \in Rejected
             THEN /\ Answered(told, "rejected")
                  /\ store' = [store EXCEPT ![x] = NoValue]
                  /\ upset' = IF told = {} THEN upset \cup {"unheard"} ELSE upset
             ELSE Answered(told, "ok") /\ UNCHANGED <<store, upset>>
    /\ hand' = [hand EXCEPT ![x] = NoRequest]
    /\ UNCHANGED <<running, watching, seen, requests, mem, phase, draft, returned,
                   sets, log, bucket, scope>>

\* The replica ends, with its store and the requests it has not answered.
Stop(x) ==
    /\ "extension" \in Faults /\ x \in running
    /\ running' = running \ {x}
    /\ watching' = watching \ {x}
    /\ store' = [store EXCEPT ![x] = NoValue]
    /\ requests' = [requests EXCEPT ![x] = <<>>]
    /\ hand' = [hand EXCEPT ![x] = NoRequest]
    /\ UNCHANGED <<seen, agentVars, log, bucket, scope>>

-----------------------------------------------------------------------------
Authority(a) ==
    Persist(a) \/ Send(a) \/ Expire(a) \/ Acked(a) \/ RolledBack(a)

Replica(x) == ApplyConfigKV(x) \/ ApplyConfigSet(x) \/ OnConfigChange(x)

Next ==
    \/ \E a \in Agents :
          \/ SetConfig(a) \/ SetRefused(a) \/ Authority(a)
          \/ DropSessionConfig(a) \/ AgentRestart(a)
    \/ \E x \in Exts : Serve(x) \/ Replica(x) \/ Stop(x)

Spec == Init /\ [][Next]_vars

-----------------------------------------------------------------------------
(* Properties.                                                             *)

Request == [n : 0 .. MaxSets, val : Values \cup {NoValue}, ack : BOOLEAN]
KVEntry == [rev : 0 .. MaxSets, val : Values \cup {NoValue, Envelope}]

\* What the agent stores under the key, the extension's watch reads as the same session's
\* or global item, if the item's name has no dot: whatever bytes a session's name has, it
\* neither breaks the key into other parts, nor is read back as another name, nor has a
\* byte that the bucket would refuse (protocol.go:231-235, "Round-trips via
\* UnescapeKVSegment and never produces the '.' separator").  The code accepts an item's
\* name with a dot, escapes nothing in it, and then reads back something else.
KeyIsReadBack == IF scope = "session" THEN SessionsReadBack ELSE GlobalsReadBack

\* Every variable has its type; in particular a revision counts sets, and none
\* counts twice.
TypeOK ==
    /\ mem \in [Agents -> KVEntry]
    /\ phase \in [Agents -> {"idle", "persist", "send", "wait"}]
    /\ draft \in [Agents -> Request]
    /\ reply \in [Agents -> {"none", "ok", "rejected"}]
    /\ returned \in [Agents -> {"none", "nil", "invalid_argument", "retryable"}]
    /\ log \in Seq(KVEntry)
    /\ bucket \in BOOLEAN /\ running \subseteq Exts /\ watching \subseteq Exts
    /\ seen \in [Exts -> 0 .. Len(log)]
    /\ store \in [Exts -> Values \cup {NoValue, Envelope}]
    /\ requests \in [Exts -> Seq(Request)]
    /\ hand \in [Exts -> Request]
    /\ sets \in 0 .. MaxSets
    /\ scope \in Scopes
    /\ upset \subseteq {"write", "read", "call", "late", "unheard", "null"}

\* Nothing that could change x's value is under way.
Settled(x) ==
    /\ x \in running /\ requests[x] = <<>> /\ hand[x] = NoRequest
    /\ x \in watching => seen[x] = Len(log)
    /\ \A a \in Agents : phase[a] = "idle"

\* "the cfg KV bucket is the source of truth": a replica at rest that has a watch
\* has the bucket's value, however requests, watch and restarts overtake each
\* other.  What the code does not make up for is left out: a failed KV write, an
\* agent that dies in a call, a request that outlives its call, a rejection that
\* nobody hears of, the deletion of a session's key, and a null, of which a replica
\* has the envelope (extension/config.go:333, "env.Value != nil").
Converges ==
    \A x \in watching :
       /\ Settled(x) /\ upset \subseteq {"read", "null"}
       /\ scope = "global" \/ Current # NoEntry
       /\ Current.val # Null
       => store[x] = Current.val

\* "revision rides along so a restarted agent restores its revision counters":
\* the values of a global key are written to the bucket under revisions that grow,
\* through restarts and failed writes, until a rejection deletes the key or an agent
\* cannot read back the revision, because the read fails or the value is a null.
RevisionsGrow ==
    [][\A i \in 1 .. Len(log) :
          /\ scope = "global" /\ upset \cap {"read", "null"} = {} /\ Len(log') > Len(log)
          /\ \A j \in i .. Len(log') : log'[j] # NoEntry
          => log[i].rev < log'[Len(log')].rev]_vars

\* "A rejection rolls the value back": after a call that reported a rejection of a
\* global key's value no watching replica is left with a value that
\* OnConfigChange rejects, whatever timed out or restarted, unless a KV write
\* failed.
RejectedIsGone ==
    \A a \in Agents, x \in watching :
       /\ scope = "global" /\ "write" \notin upset
       /\ returned[a] = "retryable" /\ Settled(x)
       => store[x] \notin Rejected
=============================================================================
