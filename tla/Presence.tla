------------------------------ MODULE Presence ------------------------------
(***************************************************************************)
(* Presence and discovery: startPresence, serveDiscovery and Close of      *)
(* extension/extension.go, Discover and ensurePresence of agent/agent.go,  *)
(* over the presence bucket, its watch and the discovery broadcast.        *)
(*                                                                         *)
(* The replicas of an extension put the extension's manifest under one     *)
(* key, at the start and with every heartbeat; Close deletes the key,      *)
(* whoever else uses it; without heartbeats it expires, silently.  An      *)
(* agent's manifest cache has two writers: the goroutine that applies the  *)
(* watch, and Discover, which while the cache is empty asks everybody and  *)
(* caches the answers after it has collected them.                         *)
(*                                                                         *)
(* A manifest is modelled by the extension's id.  What the watch of an     *)
(* agent has still to deliver is kept by key, without repetitions: events  *)
(* of different keys, and two puts of one manifest, change nothing for one *)
(* another.                                                                *)
(*                                                                         *)
(* Faults says what may go wrong around the code:                          *)
(*    crash   a replica dies                                               *)
(*    lost    a put or a deletion fails; the code ignores it               *)
(*    late    an answer to the broadcast comes after its time              *)
(*    ctx     the context of an agent's first Discover ends                *)
(***************************************************************************)
EXTENDS Naturals, Sequences

CONSTANTS
    Agents,
    Exts,           \* extension ids
    Replicas,       \* extension processes
    ExtOf,          \* the extension of a replica
    MaxStarts,      \* bound on the starts of replicas
    Faults

ASSUME ConstantsAssumption ==
    /\ ExtOf \in [Replicas -> Exts]
    /\ MaxStarts \in Nat
    /\ Faults \subseteq {"crash", "lost", "late", "ctx"}

VARIABLES
    bucket,     \* does the presence bucket exist?
    entry,      \* the extensions whose key is in it
    mode,       \* per replica: off, starting, up or stopping
    beat,       \* per replica: is a put of its heartbeat on its way?
    starts,     \* starts of replicas so far
    phase,      \* per agent: idle, look, collect or dead
    watch,      \* per agent: none, on or ended
    feed,       \* per agent and key: events that the watch has still to deliver
    cache,      \* per agent: manifestCache
    asked,      \* per agent: the replicas that the broadcast reached
    answers,    \* per agent: the answers collected
    excused     \* auxiliary, per agent: keys whose last change no watch is told of, or
                \* that were cached when they had gone

vars == <<bucket, entry, mode, beat, starts, phase, watch, feed, cache,
          asked, answers, excused>>
agentVars == <<phase, watch, cache, asked, answers>>

Init ==
    /\ bucket = FALSE
    /\ entry = {}
    /\ mode = [r \in Replicas |-> "off"]
    /\ beat = [r \in Replicas |-> FALSE]
    /\ starts = 0
    /\ phase = [a \in Agents |-> "idle"]
    /\ watch = [a \in Agents |-> "none"]
    /\ feed = [a \in Agents |-> [e \in Exts |-> <<>>]]
    /\ cache = [a \in Agents |-> {}]
    /\ asked = [a \in Agents |-> {}]
    /\ answers = [a \in Agents |-> {}]
    /\ excused = [a \in Agents |-> {}]

-----------------------------------------------------------------------------
(* The bucket and its watches.                                             *)

\* The watches that are on are told, once if it is news.
Told(e, event) ==
    feed' = [a \in Agents |->
               IF watch[a] # "on" THEN feed[a]
               ELSE [feed[a] EXCEPT ![e] =
                       IF @ # <<>> /\ @[Len(@)] = event THEN @ ELSE Append(@, event)]]

Excuse(e, yes) ==
    excused' = [a \in Agents |-> IF yes THEN excused[a] \cup {e} ELSE excused[a] \ {e}]

KVPut(e) ==
    bucket' = TRUE /\ entry' = entry \cup {e} /\ Told(e, "put") /\ Excuse(e, FALSE)
KVDelete(e) ==
    entry' = entry \ {e} /\ Told(e, "del") /\ Excuse(e, FALSE) /\ UNCHANGED bucket

\* A write of a replica, whose error the code ignores.
Written(write) ==
    \/ write
    \/ "lost" \in Faults /\ UNCHANGED <<bucket, entry, feed, excused>>

Beats(r) == mode[r] \in {"starting", "up"}

\* The TTL outlasts three heartbeats, so that a key expires when nobody beats, or
\* when heartbeats are lost.  No watch is told, and one that is behind finds nothing
\* about the key any more, neither the put nor what the put had overwritten.
Expire(e) ==
    /\ e \in entry
    /\ "lost" \in Faults \/ \A r \in Replicas : ExtOf[r] = e => ~Beats(r)
    /\ entry' = entry \ {e}
    /\ Excuse(e, TRUE)
    /\ feed' \in {feed, [a \in Agents |-> [feed[a] EXCEPT ![e] = <<>>]]}
    /\ UNCHANGED <<bucket, mode, beat, starts, phase, watch, cache, asked, answers>>

-----------------------------------------------------------------------------
(* The extension.                                                          *)

\* Serve puts the manifest first and subscribes to the broadcast next.
Serve(r) ==
    /\ mode[r] = "off" /\ ~beat[r] /\ starts < MaxStarts
    /\ starts' = starts + 1
    /\ mode' = [mode EXCEPT ![r] = "starting"]
    /\ Written(KVPut(ExtOf[r]))
    /\ UNCHANGED <<beat, agentVars>>

ServeDiscovery(r) ==
    /\ mode[r] = "starting"
    /\ mode' = [mode EXCEPT ![r] = "up"]
    /\ UNCHANGED <<bucket, entry, beat, starts, feed, agentVars, excused>>

\* A heartbeat's put is sent, and applied.  Mutant: there is no heartbeat.
NoBeat(r) == FALSE /\ UNCHANGED vars
Beat(r) ==
    /\ Beats(r) /\ ~beat[r]
    /\ beat' = [beat EXCEPT ![r] = TRUE]
    /\ UNCHANGED <<bucket, entry, mode, starts, feed, agentVars, excused>>

BeatApplied(r) ==
    /\ beat[r]
    /\ beat' = [beat EXCEPT ![r] = FALSE]
    /\ KVPut(ExtOf[r])
    /\ UNCHANGED <<mode, starts, agentVars>>

BeatLost(r) ==
    /\ "lost" \in Faults /\ beat[r]
    /\ beat' = [beat EXCEPT ![r] = FALSE]
    /\ UNCHANGED <<bucket, entry, mode, starts, feed, agentVars, excused>>

\* The context ends: no more heartbeats and no more answers, but a put on its way
\* is on its way.
Stop(r) ==
    /\ Beats(r)
    /\ mode' = [mode EXCEPT ![r] = "stopping"]
    /\ UNCHANGED <<bucket, entry, beat, starts, feed, agentVars, excused>>

\* Close, after the context has ended or, when Serve has failed, before.
Close(r) ==
    /\ mode[r] # "off"
    /\ mode' = [mode EXCEPT ![r] = "off"]
    /\ Written(KVDelete(ExtOf[r]))
    /\ UNCHANGED <<beat, starts, agentVars>>

Crash(r) ==
    /\ "crash" \in Faults /\ mode[r] # "off"
    /\ mode' = [mode EXCEPT ![r] = "off"]
    /\ \E b \in {FALSE, beat[r]} : beat' = [beat EXCEPT ![r] = b]
    /\ UNCHANGED <<bucket, entry, starts, feed, agentVars, excused>>

-----------------------------------------------------------------------------
(* The agent.                                                              *)

\* The snapshot: an event for every key there is; the watch skips the nil that
\* follows it.  Mutants: only what comes after; the nil reaches the agent.
NoSnapshot == [e \in Exts |-> <<>>]
NilSnapshot == [e \in Exts |-> IF e \in entry THEN <<"put", "nil">> ELSE <<"nil">>]
Snapshot == [e \in Exts |-> IF e \in entry THEN <<"put">> ELSE <<>>]

\* ensurePresence, once.  KvWatch fails without a bucket; the function then
\* replaces the sync.Once that is running it, whose unlocking is fatal to the
\* process.
EnsurePresence(a, then) ==
    \/ /\ watch[a] # "none" /\ then = "look"
       /\ UNCHANGED <<watch, feed>>
    \/ /\ watch[a] = "none" /\ bucket /\ then = "look"
       /\ watch' = [watch EXCEPT ![a] = "on"]
       /\ feed' = [feed EXCEPT ![a] = Snapshot]
    \/ /\ watch[a] = "none" /\ ~bucket /\ then = "dead"
       /\ UNCHANGED <<watch, feed>>

Discover(a) ==
    /\ phase[a] = "idle"
    /\ \E then \in {"look", "dead"} :
          EnsurePresence(a, then) /\ phase' = [phase EXCEPT ![a] = then]
    /\ UNCHANGED <<bucket, entry, mode, beat, starts, cache, asked, answers, excused>>

\* RequestMany reaches every subscriber of the broadcast.
Reached == {r \in Replicas : mode[r] = "up"}

\* What is cached is returned, be it complete or not; if nothing is, everybody is
\* asked.
Look(a) ==
    /\ phase[a] = "look"
    /\ \/ cache[a] # {} /\ phase' = [phase EXCEPT ![a] = "idle"] /\ UNCHANGED asked
       \/ /\ cache[a] = {}
          /\ phase' = [phase EXCEPT ![a] = "collect"]
          /\ asked' = [asked EXCEPT ![a] = Reached]
    /\ UNCHANGED <<bucket, entry, mode, beat, starts, watch, feed, cache, answers, excused>>

Answer(a, r) ==
    /\ phase[a] = "collect" /\ r \in asked[a] /\ mode[r] = "up"
    /\ asked' = [asked EXCEPT ![a] = @ \ {r}]
    /\ answers' = [answers EXCEPT ![a] = @ \cup {ExtOf[r]}]
    /\ UNCHANGED <<bucket, entry, mode, beat, starts, phase, watch, feed, cache, excused>>

\* When the wait is over the answers are cached, although the watch may have
\* delivered the deletion of their senders' keys since.
Collect(a) ==
    /\ phase[a] = "collect"
    /\ "late" \in Faults \/ \A r \in asked[a] : mode[r] # "up"
    /\ cache' = [cache EXCEPT ![a] = @ \cup answers[a]]
    /\ excused' = [excused EXCEPT ![a] = @ \cup (answers[a] \ entry)]
    /\ phase' = [phase EXCEPT ![a] = "idle"]
    /\ asked' = [asked EXCEPT ![a] = {}]
    /\ answers' = [answers EXCEPT ![a] = {}]
    /\ UNCHANGED <<bucket, entry, mode, beat, starts, watch, feed>>

\* The watch goroutine applies an event; earlier ones of the key may have been
\* overwritten in the bucket before they were read.  Mutant: deletions are not
\* looked at.
ApplyPutsOnly(a, e) ==
    /\ phase[a] # "dead" /\ watch[a] = "on" /\ feed[a][e] # <<>>
    /\ cache' = [cache EXCEPT ![a] = @ \cup {e}]
    /\ feed' = [feed EXCEPT ![a][e] = <<>>]
    /\ UNCHANGED <<bucket, entry, mode, beat, starts, phase, watch, asked, answers, excused>>
Apply(a, e) ==
    /\ phase[a] # "dead" /\ watch[a] = "on"
    /\ \E i \in 1 .. Len(feed[a][e]) :
          /\ feed' = [feed EXCEPT ![a][e] = SubSeq(@, i + 1, Len(@))]
          /\ IF feed[a][e][i] = "put"
             THEN cache' = [cache EXCEPT ![a] = @ \cup {e}]
             ELSE cache' = [cache EXCEPT ![a] = @ \ {e}]
    /\ UNCHANGED <<bucket, entry, mode, beat, starts, phase, watch, asked, answers, excused>>

\* The watch was bound to the context of the first Discover; there is no other.
EndContext(a) ==
    /\ "ctx" \in Faults /\ watch[a] = "on"
    /\ watch' = [watch EXCEPT ![a] = "ended"]
    /\ feed' = [feed EXCEPT ![a] = [e \in Exts |-> <<>>]]
    /\ UNCHANGED <<bucket, entry, mode, beat, starts, phase, cache, asked, answers, excused>>

\* A dead agent is started again.
Restart(a) ==
    /\ phase[a] = "dead"
    /\ phase' = [phase EXCEPT ![a] = "idle"]
    /\ UNCHANGED <<bucket, entry, mode, beat, starts, feed, watch, cache, asked, answers, excused>>

-----------------------------------------------------------------------------
Next ==
    \/ \E e \in Exts : Expire(e)
    \/ \E r \in Replicas :
          \/ Serve(r) \/ ServeDiscovery(r) \/ Beat(r) \/ BeatApplied(r) \/ BeatLost(r)
          \/ Stop(r) \/ Close(r) \/ Crash(r)
    \/ \E a \in Agents :
          \/ Discover(a) \/ Look(a) \/ Collect(a) \/ EndContext(a) \/ Restart(a)
          \/ \E r \in Replicas : Answer(a, r)
          \/ \E e \in Exts : Apply(a, e)

Spec == Init /\ [][Next]_vars

\* A replica that is up keeps beating, its puts are not lost for ever, and the
\* watch delivers before its keys expire, at least now and then.
Fairness ==
    /\ \A r \in Replicas : WF_vars(Beat(r)) /\ SF_vars(BeatApplied(r))
    /\ \A a \in Agents, e \in Exts : SF_vars(Apply(a, e))

FairSpec == Spec /\ Fairness

-----------------------------------------------------------------------------
(* Properties.                                                             *)

\* Every variable has its type.
TypeOK ==
    /\ bucket \in BOOLEAN /\ entry \subseteq Exts
    /\ mode \in [Replicas -> {"off", "starting", "up", "stopping"}]
    /\ beat \in [Replicas -> BOOLEAN]
    /\ starts \in 0 .. MaxStarts
    /\ phase \in [Agents -> {"idle", "look", "collect", "dead"}]
    /\ watch \in [Agents -> {"none", "on", "ended"}]
    /\ feed \in [Agents -> [Exts -> Seq({"put", "del"})]]
    /\ cache \in [Agents -> SUBSET Exts]
    /\ asked \in [Agents -> SUBSET Replicas]
    /\ answers \in [Agents -> SUBSET Exts]
    /\ excused \in [Agents -> SUBSET Exts]

\* The watch of a is on and has nothing to deliver about e.
UpToDate(a, e) == watch[a] = "on" /\ feed[a][e] = <<>>

\* An agent whose watch is up to date knows every extension that is present, in
\* whatever order broadcast answers, snapshot and events reached its cache.
KnowsThePresent ==
    \A a \in Agents, e \in Exts : UpToDate(a, e) /\ e \in entry => e \in cache[a]

\* It keeps an extension that is not present only if the key has expired, which no
\* watch is told of, or if an answer was cached after the key was gone; no other
\* order of starts, heartbeats, closes, answers and events leaves one behind.
ForgetsTheAbsent ==
    \A a \in Agents, e \in Exts :
       UpToDate(a, e) /\ e \in cache[a] \ entry => e \in excused[a]

\* A replica that closes takes the key of its siblings with it; as long as one of
\* them beats, every watching agent knows the extension again in the end.
SiblingsRecover ==
    \A a \in Agents, r \in Replicas :
       <>[](Beats(r) /\ watch[a] = "on") => <>[](ExtOf[r] \in cache[a])
=============================================================================
