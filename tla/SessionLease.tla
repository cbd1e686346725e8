---------------------------- MODULE SessionLease ----------------------------
(***************************************************************************)
(* The cross-replica run lease of one session: WithSessionLease of         *)
(* agent/lease.go and the four KV operations of transport/nats it calls.   *)
(*                                                                         *)
(* A caller of WithSessionLease is two threads: the caller itself, which   *)
(* claims, runs fn, releases and returns, and the renew goroutine, which   *)
(* on every tick of a TTL/3 ticker sends a compare-and-set and cancels the *)
(* run when it fails.  They share only the run context and the channel     *)
(* lost.  Every KV request is answered by the server in a step of its own, *)
(* and the answer is taken in another, so both threads, other callers,     *)
(* time and crashes come in between.                                       *)
(*                                                                         *)
(* Time is a Clock that advances the age of the key, the tickers and, for  *)
(* every caller that has something to do, its lag.  Slack bounds the lag:  *)
(* it is the longest a caller may leave a tick, an answer, a cancelled     *)
(* context or its release unattended.                                      *)
(***************************************************************************)
EXTENDS Naturals

CONSTANTS
    Replicas,   \* the callers of WithSessionLease for one session
    Revs,       \* KV revisions; requests compare them for equality only
    TTL,        \* ttlMs, in clock units
    Period,     \* the ticker's period (ttlMs/3), in clock units
    Slack,      \* the longest a caller is delayed, in clock units
    Faults      \* may KV requests fail or lose their answer, and callers crash?

NoRev == 0      \* what KVCreate and KVCas return on failure

ASSUME ConstantsAssumption ==
    /\ Revs \subseteq Nat \ {NoRev}
    /\ TTL \in Nat \ {0}
    /\ Period \in Nat \ {0}
    /\ Slack \in Nat
    /\ Faults \in BOOLEAN

VARIABLES
    key,        \* the session's entry in the lease bucket
    age,        \* clock units since the entry was written
    pc,         \* where the caller is
    revision,   \* the caller's revision variable
    reply,      \* the revision in a successful answer not yet taken
    renewer,    \* the renew goroutine
    tick,       \* is there a tick in the ticker's channel (capacity 1)?
    timer,      \* clock units since the ticker last fired
    cancelled,  \* is runCtx done?
    lost,       \* is the channel lost closed?
    outcome,    \* what WithSessionLease returned, or is about to return
    lag         \* clock units for which the caller has left work undone

vars == <<key, age, pc, revision, reply, renewer, tick, timer,
          cancelled, lost, outcome, lag>>

\* key.by, the last replica to write the entry, is auxiliary: the code stores
\* "running" whoever writes.  No guard reads it.
NoKey == [live |-> FALSE, rev |-> NoRev, by |-> {}]
Entry(r, n) == [live |-> TRUE, rev |-> n, by |-> {r}]

Init ==
    /\ key = NoKey
    /\ age = 0
    /\ pc = [r \in Replicas |-> "idle"]
    /\ revision = [r \in Replicas |-> NoRev]
    /\ reply = [r \in Replicas |-> NoRev]
    /\ renewer = [r \in Replicas |-> "off"]
    /\ tick = [r \in Replicas |-> FALSE]
    /\ timer = [r \in Replicas |-> 0]
    /\ cancelled = [r \in Replicas |-> FALSE]
    /\ lost = [r \in Replicas |-> FALSE]
    /\ outcome = [r \in Replicas |-> "none"]
    /\ lag = [r \in Replicas |-> 0]

-----------------------------------------------------------------------------
(* The KV server.  A revision nobody remembers stands for the next         *)
(* sequence number of the bucket's stream.                                 *)

UsedRevs == {key.rev} \cup {revision[r] : r \in Replicas}
                      \cup {reply[r] : r \in Replicas}
CanWrite == Revs \ UsedRevs # {}
NextRev == key.rev + 1             \* mutant: a number somebody may remember
FreshRev == CHOOSE n \in Revs \ UsedRevs : TRUE

\* Mutants: a put instead of a create; a renewal that does not check the
\* revision; one that does not extend the TTL.
KVPutApplied(r) == CanWrite /\ key' = Entry(r, FreshRev) /\ age' = 0
KVBlindUpdate(r) == key.live /\ KVPutApplied(r)
KVNoExtension(r) ==
    key.live /\ key.rev = revision[r] /\ CanWrite
             /\ key' = Entry(r, FreshRev) /\ UNCHANGED age

\* Create, compare-and-set and delete, as the server applies them.
KVCreateApplied(r) == ~key.live /\ CanWrite /\ key' = Entry(r, FreshRev) /\ age' = 0
KVCasApplied(r) ==
    /\ key.live /\ key.rev = revision[r]
    /\ CanWrite /\ key' = Entry(r, FreshRev) /\ age' = 0
KVCasRefused(r) == ~(key.live /\ key.rev = revision[r]) /\ UNCHANGED <<key, age>>
KVDeleteApplied == key' = NoKey /\ age' = 0
KVFailed == Faults /\ UNCHANGED <<key, age>>

\* Has r work to do now?
Obliged(r) ==
    \/ pc[r] \in {"claimed", "release", "check"}
    \/ pc[r] = "fn" /\ cancelled[r]
    \/ pc[r] = "fn" /\ renewer[r] \in {"sent", "ok", "failed"}
    \/ pc[r] = "fn" /\ tick[r]

\* r's lag ends when it has no work left.
SettleLag(r) == lag' = [lag EXCEPT ![r] = IF Obliged(r)' THEN @ ELSE 0]

-----------------------------------------------------------------------------
(* The caller.                                                             *)

\* Mutant: the release is deferred before the claim's result is looked at.
ReleaseOnRefusal(r) ==
    /\ pc[r] = "idle" /\ renewer[r] = "off"
    /\ key.live /\ KVDeleteApplied
    /\ outcome' = [outcome EXCEPT ![r] = "busy"]
    /\ UNCHANGED <<pc, revision, reply, renewer, tick, timer, cancelled, lost, lag>>

\* ClaimSession: the server creates the key and the answer is on its way ...
ClaimServe(r) ==
    /\ pc[r] = "idle" /\ renewer[r] = "off"
    /\ KVCreateApplied(r)
    /\ revision' = [revision EXCEPT ![r] = FreshRev]
    /\ pc' = [pc EXCEPT ![r] = "claimed"]
    /\ outcome' = [outcome EXCEPT ![r] = "none"]
    /\ UNCHANGED <<reply, renewer, tick, timer, cancelled, lost>>
    /\ SettleLag(r)

\* ... or it fails, because the key exists, the request was lost, or (the
\* third case) the key was created but the answer was lost; all three are
\* (false, nil).
ClaimRefused(r) ==
    /\ pc[r] = "idle" /\ renewer[r] = "off"
    /\ \/ key.live /\ UNCHANGED <<key, age>>
       \/ KVFailed
       \/ Faults /\ KVCreateApplied(r)
    /\ outcome' = [outcome EXCEPT ![r] = "busy"]
    /\ UNCHANGED <<pc, revision, reply, renewer, tick, timer, cancelled, lost, lag>>

\* The claim succeeded: make the run context and lost, start the renewer, run fn.
ClaimReply(r) ==
    /\ pc[r] = "claimed"
    /\ pc' = [pc EXCEPT ![r] = "fn"]
    /\ renewer' = [renewer EXCEPT ![r] = "wait"]
    /\ tick' = [tick EXCEPT ![r] = FALSE]
    /\ timer' = [timer EXCEPT ![r] = 0]
    /\ cancelled' = [cancelled EXCEPT ![r] = FALSE]
    /\ lost' = [lost EXCEPT ![r] = FALSE]
    /\ UNCHANGED <<key, age, revision, reply, outcome>>
    /\ SettleLag(r)

\* The caller's own context ends, and runCtx with it.
ParentCancel(r) ==
    /\ pc[r] \in {"fn", "release", "check"} /\ ~cancelled[r]
    /\ cancelled' = [cancelled EXCEPT ![r] = TRUE]
    /\ UNCHANGED <<key, age, pc, revision, reply, renewer, tick, timer,
                   lost, outcome, lag>>

\* fn returns nil or an error.
FnReturn(r) ==
    /\ pc[r] = "fn"
    /\ pc' = [pc EXCEPT ![r] = "release"]
    /\ \E err \in {"ok", "err"} : outcome' = [outcome EXCEPT ![r] = err]
    /\ UNCHANGED <<key, age, revision, reply, renewer, tick, timer,
                   cancelled, lost, lag>>

\* ReleaseSession deletes the key, whoever's it is; its error is ignored.
Release(r) ==
    /\ pc[r] = "release"
    /\ KVDeleteApplied \/ KVFailed
    /\ pc' = [pc EXCEPT ![r] = "check"]
    /\ UNCHANGED <<revision, reply, renewer, tick, timer,
                   cancelled, lost, outcome, lag>>

\* A nil error becomes context.Canceled if lost is closed by now; the
\* deferred cancel ends the run context.
Return(r) ==
    /\ pc[r] = "check"
    /\ pc' = [pc EXCEPT ![r] = "idle"]
    /\ outcome' = [outcome EXCEPT ![r] =
                     IF @ = "ok" /\ lost[r] THEN "canceled" ELSE @]
    /\ cancelled' = [cancelled EXCEPT ![r] = TRUE]
    /\ UNCHANGED <<key, age, revision, reply, renewer, tick, timer, lost>>
    /\ SettleLag(r)

\* The process dies; its key stays behind.
Crash(r) ==
    /\ Faults
    /\ pc[r] # "idle" \/ renewer[r] # "off"
    /\ pc' = [pc EXCEPT ![r] = "idle"]
    /\ renewer' = [renewer EXCEPT ![r] = "off"]
    /\ revision' = [revision EXCEPT ![r] = NoRev]
    /\ reply' = [reply EXCEPT ![r] = NoRev]
    /\ tick' = [tick EXCEPT ![r] = FALSE]
    /\ timer' = [timer EXCEPT ![r] = 0]
    /\ cancelled' = [cancelled EXCEPT ![r] = FALSE]
    /\ lost' = [lost EXCEPT ![r] = FALSE]
    /\ outcome' = [outcome EXCEPT ![r] = "none"]
    /\ lag' = [lag EXCEPT ![r] = 0]
    /\ UNCHANGED <<key, age>>

-----------------------------------------------------------------------------
(* The renew goroutine.                                                    *)

\* Its select may take a tick even when the context is done as well.
RenewTick(r) ==
    /\ renewer[r] = "wait" /\ tick[r]
    /\ tick' = [tick EXCEPT ![r] = FALSE]
    /\ renewer' = [renewer EXCEPT ![r] = "sent"]
    /\ UNCHANGED <<key, age, pc, revision, reply, timer, cancelled, lost,
                   outcome, lag>>

RenewStop(r) ==
    /\ renewer[r] = "wait" /\ cancelled[r]
    /\ renewer' = [renewer EXCEPT ![r] = "off"]
    /\ tick' = [tick EXCEPT ![r] = FALSE]
    /\ timer' = [timer EXCEPT ![r] = 0]
    /\ UNCHANGED <<key, age, pc, revision, reply, cancelled, lost, outcome>>
    /\ SettleLag(r)

\* The server answers the compare-and-set.  KVCas reports every error as
\* revision 0: a refusal, a request that never arrived, a lost answer.
RenewServe(r) ==
    /\ renewer[r] = "sent"
    /\ \/ /\ KVCasApplied(r)
          /\ renewer' = [renewer EXCEPT ![r] = "ok"]
          /\ reply' = [reply EXCEPT ![r] = FreshRev]
       \/ /\ KVCasRefused(r) \/ KVFailed \/ (Faults /\ KVCasApplied(r))
          /\ renewer' = [renewer EXCEPT ![r] = "failed"]
          /\ UNCHANGED reply
    /\ UNCHANGED <<pc, revision, tick, timer, cancelled, lost, outcome, lag>>

\* Mutant: lost is closed but the run is not cancelled.
LostWithoutCancel(r) ==
    /\ renewer[r] \in {"ok", "failed"}
    /\ revision' = [revision EXCEPT ![r] = IF renewer[r] = "ok" THEN reply[r] ELSE @]
    /\ reply' = [reply EXCEPT ![r] = NoRev]
    /\ lost' = [lost EXCEPT ![r] = @ \/ renewer[r] = "failed"]
    /\ renewer' = [renewer EXCEPT ![r] = IF @ = "ok" THEN "wait" ELSE "off"]
    /\ tick' = [tick EXCEPT ![r] = @ /\ renewer[r] = "ok"]
    /\ UNCHANGED <<key, age, pc, timer, cancelled, outcome>>
    /\ SettleLag(r)

RenewReply(r) ==
    \/ /\ renewer[r] = "ok"
       /\ revision' = [revision EXCEPT ![r] = reply[r]]
       /\ reply' = [reply EXCEPT ![r] = NoRev]
       /\ renewer' = [renewer EXCEPT ![r] = "wait"]
       /\ UNCHANGED <<key, age, pc, tick, timer, cancelled, lost, outcome>>
       /\ SettleLag(r)
    \/ /\ renewer[r] = "failed"
       /\ lost' = [lost EXCEPT ![r] = TRUE]
       /\ cancelled' = [cancelled EXCEPT ![r] = TRUE]
       /\ renewer' = [renewer EXCEPT ![r] = "off"]
       /\ tick' = [tick EXCEPT ![r] = FALSE]
       /\ timer' = [timer EXCEPT ![r] = 0]
       /\ UNCHANGED <<key, age, pc, revision, reply, outcome>>
       /\ SettleLag(r)

-----------------------------------------------------------------------------
(* Time.  The server drops the entry when it is TTL old.                   *)

Fires(r) == renewer[r] # "off" /\ timer[r] + 1 >= Period

\* Mutant: a bucket whose entries never expire.
ClockWithoutTTL ==
    /\ \A r \in Replicas : Obliged(r) => lag[r] < Slack
    /\ timer' = [r \in Replicas |->
                   IF renewer[r] = "off" \/ Fires(r) THEN 0 ELSE timer[r] + 1]
    /\ tick' = [r \in Replicas |-> tick[r] \/ Fires(r)]
    /\ lag' = [r \in Replicas |-> IF Obliged(r) THEN lag[r] + 1 ELSE 0]
    /\ UNCHANGED <<key, age, pc, revision, reply, renewer, cancelled, lost, outcome>>

Clock ==
    /\ \A r \in Replicas : Obliged(r) => lag[r] < Slack
    /\ key' = IF age + 1 >= TTL THEN NoKey ELSE key
    /\ age' = IF key.live /\ age + 1 < TTL THEN age + 1 ELSE 0
    /\ timer' = [r \in Replicas |->
                   IF renewer[r] = "off" \/ Fires(r) THEN 0 ELSE timer[r] + 1]
    /\ tick' = [r \in Replicas |-> tick[r] \/ Fires(r)]
    /\ lag' = [r \in Replicas |-> IF Obliged(r) THEN lag[r] + 1 ELSE 0]
    /\ UNCHANGED <<pc, revision, reply, renewer, cancelled, lost, outcome>>

Next ==
    \/ Clock
    \/ \E r \in Replicas :
          \/ ClaimServe(r) \/ ClaimRefused(r) \/ ClaimReply(r)
          \/ ParentCancel(r) \/ FnReturn(r) \/ Release(r) \/ Return(r)
          \/ RenewTick(r) \/ RenewStop(r) \/ RenewServe(r) \/ RenewReply(r)
          \/ Crash(r)

Spec == Init /\ [][Next]_vars
\* The fairness of a live system: the server answers, a process that is up gets
\* to run, time passes, and fn observes its context.  Nothing makes fn return
\* while its context is live, and nothing makes a caller claim.
Fairness ==
    /\ SF_vars(Clock)
    /\ \A r \in Replicas :
          /\ WF_vars(ClaimReply(r))
          /\ WF_vars(cancelled[r] /\ FnReturn(r))
          /\ WF_vars(Release(r))
          /\ WF_vars(Return(r))
          /\ WF_vars(RenewTick(r) \/ RenewStop(r))
          /\ WF_vars(RenewServe(r))
          /\ WF_vars(RenewReply(r))

FairSpec == Spec /\ Fairness

-----------------------------------------------------------------------------
(* Properties.                                                             *)

\* KVGet answers "" for a key that is not there and for a read that fails: it
\* returns no error.  IsSessionRunning takes any value but "" for a run.
ReadFails == IF Faults THEN BOOLEAN ELSE {FALSE}
KVGet(fails) == IF key.live /\ ~fails THEN "running" ELSE ""
IsSessionRunning(fails) == KVGet(fails) # ""

\* r's revision, or the one on its way to r, is the key's.
Owns(r) == key.live /\ key.rev \in {revision[r], reply[r]}

\* The timing under which the lease excludes: a caller reacts within Slack, and
\* the TTL leaves room for a late claim or renewal answer, one period of the
\* ticker and a late reaction to its tick.  With Period = TTL/3 as in the code,
\* a Slack below TTL/3 will do.
Timely == Slack < Period /\ Period + 2 * Slack < TTL

\* Every variable has its type.
TypeOK ==
    /\ key \in [live : BOOLEAN, rev : Revs \cup {NoRev}, by : SUBSET Replicas]
    /\ age \in Nat
    /\ pc \in [Replicas -> {"idle", "claimed", "fn", "release", "check"}]
    /\ revision \in [Replicas -> Revs \cup {NoRev}]
    /\ reply \in [Replicas -> Revs \cup {NoRev}]
    /\ renewer \in [Replicas -> {"off", "wait", "sent", "ok", "failed"}]
    /\ tick \in [Replicas -> BOOLEAN]
    /\ timer \in [Replicas -> Nat]
    /\ cancelled \in [Replicas -> BOOLEAN]
    /\ lost \in [Replicas -> BOOLEAN]
    /\ outcome \in [Replicas -> {"none", "busy", "ok", "err", "canceled"}]
    /\ lag \in [Replicas -> Nat]

\* At most one replica runs fn (the doc of WithSessionLease: "exclusive").
MutualExclusion ==
    \A r, s \in Replicas : pc[r] = "fn" /\ pc[s] = "fn" => r = s

\* While some replica runs fn, IsSessionRunning says so on every replica, unless
\* its read of the bucket fails: then it says that nobody runs.
RunningIsVisible ==
    \A fails \in ReadFails :
        (\E r \in Replicas : pc[r] = "fn") => IsSessionRunning(fails) \/ fails

\* The lease of a replica that runs fn ends by expiry and by nothing that
\* another replica does: in particular not by another replica's
\* ReleaseSession, which deletes the key without looking at its revision.
HeldUntilExpiry ==
    [][\A r \in Replicas :
          pc[r] = "fn" /\ Owns(r)
            => Owns(r)' \/ key'.by = {r} \/ age + 1 >= TTL]_vars

\* A replica that no longer holds the key gets it back by a new claim only: no
\* renewal, however late it is sent, applied or answered, revives a lease that
\* expired or takes one that another replica has claimed since.
LostForGood ==
    [][\A r \in Replicas : Owns(r)' => Owns(r) \/ pc[r] = "idle"]_vars

\* The doc's promise as a specification of its own: turns run one at a time, and
\* fn is entered only when no replica is inside it.
Turns == INSTANCE ExclusiveRun WITH running <- {r \in Replicas : pc[r] = "fn"}
RunsExclusively == Turns!Spec

\* A replica that runs fn without holding the key stops running it.
LostRunStops ==
    \A r \in Replicas : (pc[r] = "fn" /\ ~Owns(r)) ~> pc[r] # "fn"

\* A key that no replica can renew (its holder crashed, or the answer to its
\* last write was lost) does not block the session for ever.
OrphanExpires ==
    (key.live /\ \A r \in Replicas : ~Owns(r)) ~> ~key.live
=============================================================================
