------------------------- MODULE SessionLease_proofs -------------------------
(***************************************************************************)
(* TLAPS proofs about SessionLease, for any set of replicas, any set of    *)
(* revisions, any TTL, Period and Slack, with and without faults.          *)
(*                                                                         *)
(*  - TypeCorrect: the type invariant.                                     *)
(*  - LostForGoodHolds: a lost lease stays lost, whatever the timing.      *)
(*  - ExclusiveHolds, VisibleHolds, HeldHolds, Implements: under Timely,   *)
(*    mutual exclusion, the visibility of a run, no loss but by expiry,    *)
(*    and that SessionLease implements ExclusiveRun.                       *)
(*                                                                         *)
(* The last four follow from the inductive invariant IInv: the key of an   *)
(* active replica is live and its own, because its age is bounded by what  *)
(* the replica's ticker and lag allow (AgeOK), and that bound never        *)
(* reaches TTL.                                                            *)
(***************************************************************************)
EXTENDS SessionLease, TLAPS

USE DEF NoRev

\* A caller that has claimed and not yet released.
Active(r) == pc[r] \in {"claimed", "fn", "release"}

\* A live key has a real revision, and a replica that remembers that revision
\* wrote it.
KeyOK ==
    key.live =>
        /\ key.rev # NoRev
        /\ \A r \in Replicas : key.rev \in {revision[r], reply[r]} => key.by = {r}

\* The key of an active replica is live and its own.
Holds(r) == Active(r) => key.live /\ key.by = {r}

\* How the renewer, its ticker and the lag of an active replica relate.
RenewerOK(r) ==
    /\ lag[r] <= Slack
    /\ pc[r] = "claimed" => renewer[r] = "off"
    /\ pc[r] = "fn" /\ renewer[r] = "off" => cancelled[r]
    /\ pc[r] \in {"fn", "release"} =>
         /\ timer[r] < Period
         /\ tick[r] \/ renewer[r] \in {"sent", "ok", "failed"} => timer[r] <= lag[r]
         /\ renewer[r] # "wait" => ~tick[r]

\* How old the key of an active replica can be.
AgeOK(r) ==
    /\ pc[r] = "claimed" => age <= lag[r]
    /\ pc[r] \in {"fn", "release"} =>
         /\ renewer[r] = "wait" /\ ~tick[r] => age <= Slack + timer[r]
         /\ renewer[r] = "ok" => age <= lag[r]
         /\ age <= Slack + Period + lag[r]

Local(r) == Holds(r) /\ RenewerOK(r) /\ AgeOK(r)

IInv == KeyOK /\ \A r \in Replicas : Local(r)

-----------------------------------------------------------------------------
\* FreshRev is a revision that neither the key nor any replica remembers.
LEMMA FreshIsUnused ==
    ASSUME CanWrite
    PROVE  /\ FreshRev \in Revs
           /\ FreshRev # key.rev
           /\ \A r \in Replicas : FreshRev # revision[r] /\ FreshRev # reply[r]
  <1>1. FreshRev \in Revs \ UsedRevs
    BY DEF CanWrite, FreshRev
  <1> QED  BY <1>1 DEF UsedRevs

\* NoRev is not a revision of the bucket: a replica without a lease remembers none.
LEMMA RevsAreNats == NoRev \notin Revs
  BY ConstantsAssumption

\* What the server writes is an entry of the bucket.
LEMMA WriteTyped ==
    ASSUME NEW r \in Replicas, KVCreateApplied(r) \/ KVCasApplied(r)
    PROVE  /\ key' \in [live : BOOLEAN, rev : Revs \cup {NoRev}, by : SUBSET Replicas]
           /\ key' = Entry(r, FreshRev) /\ age' = 0
           /\ CanWrite
  <1>1. CanWrite /\ key' = Entry(r, FreshRev) /\ age' = 0
    BY DEF KVCreateApplied, KVCasApplied
  <1>2. FreshRev \in Revs
    BY <1>1, FreshIsUnused
  <1> QED  BY <1>1, <1>2 DEF Entry

\* Type correctness of the lease specification.
THEOREM TypeCorrect == Spec => []TypeOK
  <1>1. Init => TypeOK
    BY ConstantsAssumption DEF Init, TypeOK, NoKey
  <1>2. TypeOK /\ [Next]_vars => TypeOK'
    <2> SUFFICES ASSUME TypeOK, [Next]_vars PROVE TypeOK'
      OBVIOUS
    <2> USE DEF TypeOK
    <2>1. CASE Clock
      <3>1. \A r \in Replicas : Fires(r) \in BOOLEAN
        BY DEF Fires
      <3>2. key' \in [live : BOOLEAN, rev : Revs \cup {NoRev}, by : SUBSET Replicas]
        BY <2>1 DEF Clock, NoKey
      <3>3. /\ age' \in Nat
            /\ timer' \in [Replicas -> Nat]
            /\ tick' \in [Replicas -> BOOLEAN]
            /\ lag' \in [Replicas -> Nat]
        BY <2>1, <3>1 DEF Clock
      <3> QED  BY <2>1, <3>2, <3>3 DEF Clock
    <2>2. ASSUME NEW r \in Replicas, ClaimServe(r) PROVE TypeOK'
      <3>1. /\ key' \in [live : BOOLEAN, rev : Revs \cup {NoRev}, by : SUBSET Replicas]
            /\ age' \in Nat /\ FreshRev \in Revs
        BY <2>2, WriteTyped, FreshIsUnused DEF ClaimServe
      <3> QED  BY <2>2, <3>1 DEF ClaimServe, SettleLag
    <2>3. ASSUME NEW r \in Replicas, ClaimRefused(r) PROVE TypeOK'
      <3>1. key' \in [live : BOOLEAN, rev : Revs \cup {NoRev}, by : SUBSET Replicas]
        BY <2>3, WriteTyped DEF ClaimRefused, KVFailed
      <3>2. age' \in Nat
        BY <2>3, WriteTyped DEF ClaimRefused, KVFailed
      <3> QED  BY <2>3, <3>1, <3>2 DEF ClaimRefused
    <2>4. ASSUME NEW r \in Replicas, ClaimReply(r) PROVE TypeOK'
      BY <2>4 DEF ClaimReply, SettleLag
    <2>5. ASSUME NEW r \in Replicas, ParentCancel(r) \/ FnReturn(r) PROVE TypeOK'
      <3>1. CASE ParentCancel(r)
        BY <3>1 DEF ParentCancel
      <3>2. CASE FnReturn(r)
        <4>1. PICK err \in {"ok", "err"} : outcome' = [outcome EXCEPT ![r] = err]
          BY <3>2 DEF FnReturn
        <4> QED  BY <3>2, <4>1 DEF FnReturn
      <3> QED  BY <2>5, <3>1, <3>2
    <2>6. ASSUME NEW r \in Replicas, Release(r) PROVE TypeOK'
      <3>1. key' \in [live : BOOLEAN, rev : Revs \cup {NoRev}, by : SUBSET Replicas]
        <4>1. CASE KVDeleteApplied
          BY <4>1 DEF KVDeleteApplied, NoKey
        <4>2. CASE ~KVDeleteApplied
          BY <2>6, <4>2 DEF Release, KVFailed
        <4> QED  BY <4>1, <4>2
      <3>2. age' \in Nat
        BY <2>6 DEF Release, KVDeleteApplied, KVFailed
      <3> QED  BY <2>6, <3>1, <3>2 DEF Release
    <2>7. ASSUME NEW r \in Replicas, Return(r) PROVE TypeOK'
      BY <2>7 DEF Return, SettleLag
    <2>8. ASSUME NEW r \in Replicas, RenewTick(r) PROVE TypeOK'
      BY <2>8 DEF RenewTick
    <2>9. ASSUME NEW r \in Replicas, RenewStop(r) PROVE TypeOK'
      BY <2>9 DEF RenewStop, SettleLag
    <2>10. ASSUME NEW r \in Replicas, RenewServe(r) PROVE TypeOK'
      <3>1. CASE KVCasApplied(r)
        <4>1. /\ key' \in [live : BOOLEAN, rev : Revs \cup {NoRev}, by : SUBSET Replicas]
              /\ age' \in Nat /\ FreshRev \in Revs
          BY <3>1, WriteTyped, FreshIsUnused
        <4> QED  BY <2>10, <4>1 DEF RenewServe
      <3>2. CASE ~KVCasApplied(r)
        BY <2>10, <3>2 DEF RenewServe, KVCasRefused, KVFailed
      <3> QED  BY <3>1, <3>2
    <2>11. ASSUME NEW r \in Replicas, RenewReply(r) PROVE TypeOK'
      <3>1. CASE renewer[r] = "ok"
        BY <2>11, <3>1 DEF RenewReply, SettleLag
      <3>2. CASE renewer[r] # "ok"
        <4>1. /\ lost' = [lost EXCEPT ![r] = TRUE]
              /\ cancelled' = [cancelled EXCEPT ![r] = TRUE]
              /\ renewer' = [renewer EXCEPT ![r] = "off"]
              /\ tick' = [tick EXCEPT ![r] = FALSE]
              /\ timer' = [timer EXCEPT ![r] = 0]
              /\ lag' = [lag EXCEPT ![r] = IF Obliged(r)' THEN @ ELSE 0]
              /\ UNCHANGED <<key, age, pc, revision, reply, outcome>>
          BY <2>11, <3>2 DEF RenewReply, SettleLag
        <4>2. lost' \in [Replicas -> BOOLEAN] /\ cancelled' \in [Replicas -> BOOLEAN]
          BY <4>1
        <4>3. lag' \in [Replicas -> Nat] /\ timer' \in [Replicas -> Nat]
          BY <4>1
        <4> QED  BY <4>1, <4>2, <4>3
      <3> QED  BY <3>1, <3>2
    <2>12. ASSUME NEW r \in Replicas, Crash(r) PROVE TypeOK'
      BY <2>12 DEF Crash
    <2>13. CASE UNCHANGED vars
      BY <2>13 DEF vars
    <2> QED
      BY <2>1, <2>2, <2>3, <2>4, <2>5, <2>6, <2>7, <2>8, <2>9, <2>10, <2>11,
         <2>12, <2>13 DEF Next
  <1> QED  BY <1>1, <1>2, PTL DEF Spec
-----------------------------------------------------------------------------
\* KeyOK needs no timing: fresh revisions alone keep it.
LEMMA KeyOKStep ==
    ASSUME TypeOK, KeyOK, [Next]_vars
    PROVE  KeyOK'
  <1> USE DEF TypeOK
  <1>1. ASSUME NEW r \in Replicas, key' = Entry(r, FreshRev), CanWrite,
               NEW s \in Replicas,
               revision'[s] = revision[s] \/ s = r,
               reply'[s] = reply[s] \/ s = r
        PROVE  key'.rev # NoRev /\ (key'.rev \in {revision'[s], reply'[s]} => key'.by = {s})
    BY <1>1, FreshIsUnused, RevsAreNats DEF Entry
  <1>2. CASE Clock
    BY <1>2 DEF Clock, KeyOK, NoKey
  <1>3. ASSUME NEW r \in Replicas, ClaimServe(r) PROVE KeyOK'
    <2>1. CanWrite /\ key' = Entry(r, FreshRev)
      BY <1>3, WriteTyped DEF ClaimServe
    <2>2. \A s \in Replicas : (revision'[s] = revision[s] \/ s = r) /\ reply'[s] = reply[s]
      BY <1>3 DEF ClaimServe
    <2> QED  BY <1>1, <2>1, <2>2 DEF KeyOK, Entry
  <1>4. ASSUME NEW r \in Replicas, ClaimRefused(r) PROVE KeyOK'
    <2>1. CASE KVCreateApplied(r)
      BY <1>1, <1>4, <2>1, WriteTyped DEF ClaimRefused, KeyOK, Entry
    <2>2. CASE ~KVCreateApplied(r)
      BY <1>4, <2>2 DEF ClaimRefused, KVFailed, KeyOK
    <2> QED  BY <2>1, <2>2
  <1>5. ASSUME NEW r \in Replicas,
               ClaimReply(r) \/ ParentCancel(r) \/ FnReturn(r) \/ Return(r)
                 \/ RenewTick(r) \/ RenewStop(r)
        PROVE  KeyOK'
    BY <1>5 DEF ClaimReply, ParentCancel, FnReturn, Return, RenewTick, RenewStop, KeyOK
  <1>6. ASSUME NEW r \in Replicas, Release(r) PROVE KeyOK'
    <2>1. key' = NoKey \/ key' = key
      BY <1>6 DEF Release, KVDeleteApplied, KVFailed
    <2> QED  BY <1>6, <2>1 DEF Release, NoKey, KeyOK
  <1>7. ASSUME NEW r \in Replicas, RenewServe(r) PROVE KeyOK'
    <2>1. CASE KVCasApplied(r)
      <3>1. CanWrite /\ key' = Entry(r, FreshRev)
        BY <2>1, WriteTyped
      <3>2. \A s \in Replicas : revision'[s] = revision[s] /\ (reply'[s] = reply[s] \/ s = r)
        BY <1>7 DEF RenewServe
      <3> QED  BY <1>1, <3>1, <3>2 DEF KeyOK, Entry
    <2>2. CASE ~KVCasApplied(r)
      BY <1>7, <2>2 DEF RenewServe, KVCasRefused, KVFailed, KeyOK
    <2> QED  BY <2>1, <2>2
  <1>8. ASSUME NEW r \in Replicas, RenewReply(r) PROVE KeyOK'
    <2>1. CASE renewer[r] = "ok"
      BY <1>8, <2>1 DEF RenewReply, KeyOK
    <2>2. CASE renewer[r] # "ok"
      BY <1>8, <2>2 DEF RenewReply, KeyOK
    <2> QED  BY <2>1, <2>2
  <1>9. ASSUME NEW r \in Replicas, Crash(r) PROVE KeyOK'
    BY <1>9 DEF Crash, KeyOK
  <1>10. CASE UNCHANGED vars
    BY <1>10 DEF vars, KeyOK
  <1> QED
    BY <1>2, <1>3, <1>4, <1>5, <1>6, <1>7, <1>8, <1>9, <1>10 DEF Next

\* KeyOK holds in every state, whatever the delays.
LEMMA KeyAlwaysOK == Spec => []KeyOK
  <1>1. Init => KeyOK
    BY DEF Init, KeyOK, NoKey
  <1> QED  BY <1>1, KeyOKStep, TypeCorrect, PTL DEF Spec

\* A lease once lost is not regained but by a new claim, whatever the delays.
THEOREM LostForGoodHolds == Spec => LostForGood
  <1> DEFINE P == \A r \in Replicas : Owns(r)' => Owns(r) \/ pc[r] = "idle"
  <1>1. ASSUME TypeOK, KeyOK, [Next]_vars PROVE P
    <2> USE <1>1
    <2> SUFFICES ASSUME NEW q \in Replicas, Owns(q)', ~Owns(q) PROVE pc[q] = "idle"
      BY DEF P
    <2> USE DEF Owns
    <2>0. key.live => key.rev # NoRev
      BY DEF KeyOK
    <2>1. CASE Clock
      BY <2>1 DEF Clock, NoKey
    <2>2. ASSUME NEW r \in Replicas, ClaimServe(r) PROVE pc[q] = "idle"
      <3>1. CanWrite /\ key' = Entry(r, FreshRev)
        BY <2>2, WriteTyped DEF ClaimServe
      <3> QED  BY <2>2, <3>1, FreshIsUnused DEF ClaimServe, Entry
    <2>3. ASSUME NEW r \in Replicas, ClaimRefused(r) PROVE pc[q] = "idle"
      <3>1. CASE KVCreateApplied(r)
        BY <2>3, <3>1, WriteTyped, FreshIsUnused DEF ClaimRefused, Entry
      <3>2. CASE ~KVCreateApplied(r)
        BY <2>3, <3>2 DEF ClaimRefused, KVFailed
      <3> QED  BY <3>1, <3>2
    <2>4. ASSUME NEW r \in Replicas,
                 ClaimReply(r) \/ ParentCancel(r) \/ FnReturn(r) \/ Return(r)
                   \/ RenewTick(r) \/ RenewStop(r)
          PROVE  pc[q] = "idle"
      BY <2>4 DEF ClaimReply, ParentCancel, FnReturn, Return, RenewTick, RenewStop
    <2>5. ASSUME NEW r \in Replicas, Release(r) PROVE pc[q] = "idle"
      <3>1. key' = NoKey \/ key' = key
        BY <2>5 DEF Release, KVDeleteApplied, KVFailed
      <3> QED  BY <2>5, <3>1 DEF Release, NoKey
    <2>6. ASSUME NEW r \in Replicas, RenewServe(r) PROVE pc[q] = "idle"
      <3>1. CASE KVCasApplied(r)
        <4>1. CanWrite /\ key' = Entry(r, FreshRev) /\ Owns(r)
          BY <3>1, WriteTyped DEF KVCasApplied
        <4>2. revision' = revision /\ (q # r => reply'[q] = reply[q])
          BY <2>6 DEF RenewServe, TypeOK
        <4>3. q # r
          BY <4>1
        <4> QED  BY <4>1, <4>2, <4>3, FreshIsUnused DEF Entry
      <3>2. CASE ~KVCasApplied(r)
        BY <2>6, <3>2 DEF RenewServe, KVCasRefused, KVFailed
      <3> QED  BY <3>1, <3>2
    <2>7. ASSUME NEW r \in Replicas, RenewReply(r) PROVE pc[q] = "idle"
      <3>1. CASE renewer[r] = "ok"
        BY <2>0, <2>7, <3>1 DEF RenewReply, TypeOK
      <3>2. CASE renewer[r] # "ok"
        BY <2>7, <3>2 DEF RenewReply
      <3> QED  BY <3>1, <3>2
    <2>8. ASSUME NEW r \in Replicas, Crash(r) PROVE pc[q] = "idle"
      BY <2>0, <2>8 DEF Crash, TypeOK
    <2>9. CASE UNCHANGED vars
      BY <2>9 DEF vars
    <2> QED
      BY <2>1, <2>2, <2>3, <2>4, <2>5, <2>6, <2>7, <2>8, <2>9, Zenon DEF Next
  <1>2. TypeOK /\ KeyOK /\ [Next]_vars => [P]_vars
    BY <1>1, Zenon
  <1> QED  BY <1>2, TypeCorrect, KeyAlwaysOK, PTL DEF Spec, LostForGood
-----------------------------------------------------------------------------
(* The inductive invariant.                                                *)

\* A step that leaves q's own variables alone, and the key and its age too
\* unless it makes the key q's and younger, keeps what IInv says of q.
SameLocals(q) ==
    /\ pc'[q] = pc[q] /\ renewer'[q] = renewer[q] /\ tick'[q] = tick[q]
    /\ timer'[q] = timer[q] /\ cancelled'[q] = cancelled[q] /\ lag'[q] = lag[q]

\* A replica that does not move keeps Local and Holds if the key stays under it.
LEMMA Frame ==
    ASSUME TypeOK, NEW q \in Replicas, Local(q), SameLocals(q),
           Active(q) => key'.live /\ key'.by = {q} /\ age' \in Nat /\ age' <= age
    PROVE  Local(q)'
  <1>1. Holds(q)'
    BY DEF Local, Holds, Active, SameLocals
  <1>2. RenewerOK(q)'
    BY DEF Local, RenewerOK, SameLocals
  <1>3. AgeOK(q)'
    <2>1. CASE Active(q)
      <3>1. age \in Nat /\ lag[q] \in Nat /\ timer[q] \in Nat
            /\ age' \in Nat /\ age' <= age
        BY <2>1 DEF TypeOK
      <3> QED  BY <3>1, ConstantsAssumption DEF Local, AgeOK, SameLocals
    <2>2. CASE ~Active(q)
      BY <2>2 DEF AgeOK, SameLocals, Active
    <2> QED  BY <2>1, <2>2
  <1> QED  BY <1>1, <1>2, <1>3 DEF Local

\* Time passes: no active replica's key reaches its TTL.
LEMMA ClockStep ==
    ASSUME Timely, TypeOK, NEW q \in Replicas, Local(q), Clock
    PROVE  Local(q)'
  <1> USE ConstantsAssumption DEF TypeOK, Timely
  <1>1. /\ lag[q] \in Nat /\ timer[q] \in Nat /\ age \in Nat
        /\ Obliged(q) => lag[q] < Slack /\ lag'[q] = lag[q] + 1
        /\ ~Obliged(q) => lag'[q] = 0
        /\ pc'[q] = pc[q] /\ renewer'[q] = renewer[q] /\ cancelled'[q] = cancelled[q]
        /\ tick'[q] = (tick[q] \/ Fires(q))
        /\ timer'[q] = IF renewer[q] = "off" \/ Fires(q) THEN 0 ELSE timer[q] + 1
    BY DEF Clock
  <1>2. CASE ~Active(q)
    <2>1. Holds(q)' /\ AgeOK(q)'
      BY <1>1, <1>2 DEF Active, Holds, AgeOK
    <2>2. RenewerOK(q)'
      BY <1>1, <1>2 DEF Active, RenewerOK, Local
    <2> QED  BY <2>1, <2>2 DEF Local
  <1>3. CASE pc[q] = "claimed"
    <2>1. Obliged(q) /\ age <= lag[q] /\ key.live /\ key.by = {q} /\ renewer[q] = "off"
      BY <1>3 DEF Obliged, Local, AgeOK, Holds, Active, RenewerOK
    <2>2. age + 1 < TTL
      BY <1>1, <2>1
    <2>3. key' = key /\ age' = age + 1
      BY <2>1, <2>2 DEF Clock
    <2>4. Holds(q)'
      BY <2>1, <2>3 DEF Holds
    <2>5. RenewerOK(q)' /\ AgeOK(q)'
      BY <1>1, <1>3, <2>1, <2>3 DEF RenewerOK, AgeOK
    <2> QED  BY <2>4, <2>5 DEF Local
  <1>4. CASE pc[q] \in {"fn", "release"}
    <2>1. /\ key.live /\ key.by = {q} /\ timer[q] < Period
          /\ age <= Slack + Period + lag[q]
          /\ renewer[q] # "wait" => ~tick[q]
          /\ tick[q] \/ renewer[q] \in {"sent", "ok", "failed"} => timer[q] <= lag[q]
          /\ renewer[q] = "ok" => age <= lag[q]
      BY <1>4 DEF Local, Holds, Active, RenewerOK, AgeOK
    <2>2. renewer[q] = "wait" /\ ~tick[q] => age <= Slack + timer[q]
      BY <1>4 DEF Local, AgeOK
    <2>3. Obliged(q) \/ (renewer[q] = "wait" /\ ~tick[q])
      BY <1>4 DEF Obliged, Local, RenewerOK
    <2>4. age + 1 < TTL
      BY <1>1, <2>1, <2>2, <2>3
    <2>5. key' = key /\ age' = age + 1
      BY <2>1, <2>4 DEF Clock
    <2>6. Holds(q)'
      BY <2>1, <2>5 DEF Holds
    <2>7. renewer[q] \in {"sent", "ok", "failed"} => ~Fires(q)
      BY <1>1, <2>1, <2>3 DEF Fires
    <2>8. lag'[q] <= Slack /\ timer'[q] < Period
      BY <1>1, <2>1 DEF Fires
    <2>9. Fires(q) \/ (tick[q] \/ renewer[q] \in {"sent", "ok", "failed"})
             => timer'[q] <= lag'[q]
      BY <1>1, <2>1, <2>3
    <2>10. RenewerOK(q)'
      <3>1. tick'[q] \/ renewer'[q] \in {"sent", "ok", "failed"} => timer'[q] <= lag'[q]
        BY <1>1, <2>9
      <3>2. renewer'[q] # "wait" => ~tick'[q]
        BY <1>1, <2>1, <2>7 DEF Fires
      <3> QED  BY <1>1, <1>4, <2>8, <3>1, <3>2 DEF RenewerOK, Local
    <2>11. AgeOK(q)'
      <3>1. renewer'[q] = "wait" /\ ~tick'[q] => age' <= Slack + timer'[q]
        <4>1. ~tick'[q] => ~tick[q] /\ ~Fires(q)
          BY <1>1, Zenon
        <4>2. renewer[q] = "wait" /\ ~Fires(q) => timer'[q] = timer[q] + 1
          BY <1>1
        <4> QED  BY <1>1, <2>2, <2>5, <4>1, <4>2
      <3>2. renewer'[q] = "ok" => age' <= lag'[q]
        BY <1>1, <2>1, <2>3, <2>5
      <3>3. age' <= Slack + Period + lag'[q]
        BY <1>1, <2>1, <2>2, <2>3, <2>5
      <3> QED  BY <1>1, <1>4, <3>1, <3>2, <3>3 DEF AgeOK
    <2> QED  BY <2>6, <2>10, <2>11 DEF Local
  <1> QED  BY <1>2, <1>3, <1>4 DEF Active

\* The caller's steps.  Where one writes or deletes the key, nobody else is
\* active: Holds leaves room for one active replica.
LEMMA CallerStep ==
    ASSUME TypeOK, IInv, NEW r \in Replicas,
           \/ ClaimServe(r) \/ ClaimRefused(r) \/ ClaimReply(r) \/ ParentCancel(r)
           \/ FnReturn(r) \/ Release(r) \/ Return(r) \/ Crash(r),
           NEW q \in Replicas
    PROVE  Local(q)'
  <1> USE ConstantsAssumption DEF TypeOK
  <1>0. Local(q) /\ Local(r)
    BY DEF IInv
  <1>1. CASE ClaimServe(r)
    <2>1. ~key.live /\ ~Active(q) /\ ~Active(r)
      BY <1>0, <1>1 DEF ClaimServe, KVCreateApplied, Local, Holds
    <2>2. CASE q # r
      <3>1. SameLocals(q)
        BY <1>1, <2>2 DEF ClaimServe, SettleLag, SameLocals
      <3> QED  BY <1>0, <2>1, <3>1, Frame
    <2>3. CASE q = r
      <3>1. /\ key'.live /\ key'.by = {q} /\ age' = 0
            /\ pc'[q] = "claimed" /\ renewer'[q] = "off" /\ lag'[q] \in {lag[q], 0}
        BY <1>1, <2>3, WriteTyped DEF ClaimServe, SettleLag, Entry
      <3> QED  BY <1>0, <3>1 DEF Local, Holds, RenewerOK, AgeOK
    <2> QED  BY <2>2, <2>3
  <1>2. CASE ClaimRefused(r)
    <2>1. SameLocals(q)
      BY <1>2 DEF ClaimRefused, SameLocals
    <2>2. Active(q) => key' = key /\ age' = age
      <3>1. Active(q) => key.live
        BY <1>0 DEF Local, Holds
      <3> QED  BY <1>2, <3>1 DEF ClaimRefused, KVFailed, KVCreateApplied
    <2>3. Active(q) => key.live /\ key.by = {q}
      BY <1>0 DEF Local, Holds
    <2> QED  BY <1>0, <2>1, <2>2, <2>3, Frame
  <1>3. CASE ClaimReply(r)
    <2>1. CASE q # r
      <3>1. SameLocals(q) /\ key' = key /\ age' = age
        BY <1>3, <2>1 DEF ClaimReply, SettleLag, SameLocals
      <3> QED  BY <1>0, <3>1, Frame DEF Local, Holds
    <2>2. CASE q = r
      <3>1. /\ key' = key /\ age' = age /\ pc'[q] = "fn" /\ renewer'[q] = "wait"
            /\ tick'[q] = FALSE /\ timer'[q] = 0 /\ lag'[q] \in {lag[q], 0}
        BY <1>3, <2>2 DEF ClaimReply, SettleLag
      <3>2. age <= lag[q] /\ lag[q] <= Slack /\ key.live /\ key.by = {q}
        BY <1>0, <1>3, <2>2 DEF ClaimReply, Local, Holds, Active, RenewerOK, AgeOK
      <3>3. Holds(q)' /\ RenewerOK(q)'
        BY <3>1, <3>2 DEF Holds, RenewerOK
      <3>4. AgeOK(q)'
        BY <3>1, <3>2 DEF AgeOK
      <3> QED  BY <3>3, <3>4 DEF Local
    <2> QED  BY <2>1, <2>2
  <1>4. CASE ParentCancel(r)
    <2>1. key' = key /\ age' = age /\ pc' = pc /\ renewer' = renewer /\ tick' = tick
          /\ timer' = timer /\ lag' = lag /\ (cancelled[q] => cancelled'[q])
      BY <1>4 DEF ParentCancel
    <2> QED  BY <1>0, <2>1 DEF Local, Holds, Active, RenewerOK, AgeOK
  <1>5. CASE FnReturn(r)
    <2>1. key' = key /\ age' = age /\ renewer' = renewer /\ tick' = tick
          /\ timer' = timer /\ lag' = lag /\ cancelled' = cancelled
          /\ pc[r] = "fn" /\ pc' = [pc EXCEPT ![r] = "release"]
      BY <1>5 DEF FnReturn
    <2> QED  BY <1>0, <2>1 DEF Local, Holds, Active, RenewerOK, AgeOK
  <1>6. CASE Release(r)
    <2>1. pc[r] = "release" /\ pc' = [pc EXCEPT ![r] = "check"]
          /\ renewer' = renewer /\ tick' = tick
          /\ timer' = timer /\ lag' = lag /\ cancelled' = cancelled
      BY <1>6 DEF Release
    <2>2. CASE q # r
      <3>1. ~Active(q)
        BY <1>0, <2>1, <2>2 DEF Local, Holds, Active
      <3>2. SameLocals(q)
        BY <2>1, <2>2 DEF SameLocals
      <3> QED  BY <1>0, <3>1, <3>2, Frame
    <2>3. CASE q = r
      BY <1>0, <2>1, <2>3 DEF Local, Holds, Active, RenewerOK, AgeOK
    <2> QED  BY <2>2, <2>3
  <1>7. CASE Return(r)
    <2>1. key' = key /\ age' = age /\ renewer' = renewer /\ tick' = tick
          /\ timer' = timer /\ lag'[q] \in {lag[q], 0} /\ (cancelled[q] => cancelled'[q])
          /\ pc[r] = "check" /\ pc' = [pc EXCEPT ![r] = "idle"]
          /\ (q # r => lag'[q] = lag[q])
      BY <1>7 DEF Return, SettleLag
    <2> QED  BY <1>0, <2>1 DEF Local, Holds, Active, RenewerOK, AgeOK
  <1>8. CASE Crash(r)
    <2>1. CASE q # r
      <3>1. SameLocals(q) /\ key' = key /\ age' = age
        BY <1>8, <2>1 DEF Crash, SameLocals
      <3> QED  BY <1>0, <3>1, Frame DEF Local, Holds
    <2>2. CASE q = r
      <3>1. pc'[q] = "idle" /\ lag'[q] = 0
        BY <1>8, <2>2 DEF Crash
      <3> QED  BY <3>1 DEF Local, Holds, Active, RenewerOK, AgeOK
    <2> QED  BY <2>1, <2>2
  <1> QED
    BY <1>1, <1>2, <1>3, <1>4, <1>5, <1>6, <1>7, <1>8

\* The renewer's steps.  A compare-and-set that succeeds finds its own key
\* (KeyOK), so no other replica is active.
LEMMA RenewerStep ==
    ASSUME TypeOK, IInv, NEW r \in Replicas,
           RenewTick(r) \/ RenewStop(r) \/ RenewServe(r) \/ RenewReply(r),
           NEW q \in Replicas
    PROVE  Local(q)'
  <1> USE ConstantsAssumption DEF TypeOK
  <1>0. Local(q) /\ Local(r)
    BY DEF IInv
  <1>1. CASE RenewTick(r)
    <2>1. CASE q # r
      <3>1. SameLocals(q) /\ key' = key /\ age' = age
        BY <1>1, <2>1 DEF RenewTick, SameLocals
      <3> QED  BY <1>0, <3>1, Frame DEF Local, Holds
    <2>2. CASE q = r
      <3>1. /\ key' = key /\ age' = age /\ pc' = pc /\ lag' = lag /\ timer' = timer
            /\ cancelled' = cancelled /\ renewer[q] = "wait" /\ tick[q]
            /\ renewer'[q] = "sent" /\ tick'[q] = FALSE
        BY <1>1, <2>2 DEF RenewTick
      <3> QED  BY <1>0, <3>1 DEF Local, Holds, Active, RenewerOK, AgeOK
    <2> QED  BY <2>1, <2>2
  <1>2. CASE RenewStop(r)
    <2>1. CASE q # r
      <3>1. SameLocals(q) /\ key' = key /\ age' = age
        BY <1>2, <2>1 DEF RenewStop, SettleLag, SameLocals
      <3> QED  BY <1>0, <3>1, Frame DEF Local, Holds
    <2>2. CASE q = r
      <3>1. /\ key' = key /\ age' = age /\ pc' = pc /\ timer'[q] = 0
            /\ cancelled' = cancelled /\ renewer[q] = "wait" /\ cancelled[q]
            /\ renewer'[q] = "off" /\ tick'[q] = FALSE
        BY <1>2, <2>2 DEF RenewStop
      <3>2. lag'[q] \in {lag[q], 0} /\ (Active(q) => lag'[q] = lag[q])
        BY <1>2, <2>2, <3>1 DEF RenewStop, SettleLag, Obliged, Active
      <3> QED  BY <1>0, <3>1, <3>2 DEF Local, Holds, Active, RenewerOK, AgeOK
    <2> QED  BY <2>1, <2>2
  <1>3. CASE RenewServe(r)
    <2>1. pc' = pc /\ lag' = lag /\ timer' = timer /\ tick' = tick
          /\ cancelled' = cancelled /\ renewer[r] = "sent"
          /\ (q # r => renewer'[q] = renewer[q])
      BY <1>3 DEF RenewServe
    <2>2. CASE KVCasApplied(r)
      <3>1. key' = Entry(r, FreshRev) /\ age' = 0
        BY <2>2, WriteTyped
      <3>2. key.by = {r}
        BY <2>2 DEF KVCasApplied, IInv, KeyOK
      <3>3. CASE q # r
        <4>1. ~Active(q)
          BY <1>0, <3>2, <3>3 DEF Local, Holds
        <4>2. SameLocals(q)
          BY <2>1, <3>3 DEF SameLocals
        <4> QED  BY <1>0, <4>1, <4>2, Frame
      <3>4. CASE q = r
        <4>1. renewer'[q] \in {"ok", "failed"} /\ key'.live /\ key'.by = {q}
          BY <1>3, <3>1, <3>4 DEF RenewServe, Entry
        <4> QED  BY <1>0, <2>1, <3>1, <3>4, <4>1 DEF Local, Holds, Active, RenewerOK, AgeOK
      <3> QED  BY <3>3, <3>4
    <2>3. CASE ~KVCasApplied(r)
      <3>1. key' = key /\ age' = age /\ renewer' = [renewer EXCEPT ![r] = "failed"]
        BY <1>3, <2>3 DEF RenewServe, KVCasRefused, KVFailed
      <3> QED  BY <1>0, <2>1, <3>1 DEF Local, Holds, Active, RenewerOK, AgeOK
    <2> QED  BY <2>2, <2>3
  <1>4. CASE RenewReply(r)
    <2>1. key' = key /\ age' = age /\ pc' = pc
      BY <1>4 DEF RenewReply
    <2>2. CASE q # r
      <3>1. SameLocals(q)
        BY <1>4, <2>2 DEF RenewReply, SettleLag, SameLocals
      <3> QED  BY <1>0, <2>1, <3>1, Frame DEF Local, Holds
    <2>3. CASE q = r /\ renewer[r] = "ok"
      <3>1. /\ renewer'[q] = "wait" /\ tick' = tick /\ timer' = timer
            /\ cancelled' = cancelled /\ lag'[q] \in {lag[q], 0}
        BY <1>4, <2>3 DEF RenewReply, SettleLag
      <3>2. pc[q] \in {"fn", "release"} => ~tick[q] /\ age <= lag[q] /\ lag[q] <= Slack
        BY <1>0, <2>3 DEF Local, RenewerOK, AgeOK
      <3> QED  BY <1>0, <2>1, <2>3, <3>1, <3>2 DEF Local, Holds, Active, RenewerOK, AgeOK
    <2>4. CASE q = r /\ renewer[r] # "ok"
      <3>1. /\ renewer[q] = "failed" /\ renewer'[q] = "off" /\ tick'[q] = FALSE
            /\ timer'[q] = 0 /\ cancelled'[q] = TRUE
        BY <1>4, <2>4 DEF RenewReply
      <3>2. lag'[q] \in {lag[q], 0} /\ (Active(q) => lag'[q] = lag[q])
        BY <1>4, <2>1, <2>4, <3>1 DEF RenewReply, SettleLag, Obliged, Active
      <3> QED  BY <1>0, <2>1, <3>1, <3>2 DEF Local, Holds, Active, RenewerOK, AgeOK
    <2> QED  BY <2>2, <2>3, <2>4
  <1> QED  BY <1>1, <1>2, <1>3, <1>4

\* At first nobody holds or claims the lease.
LEMMA IInvInit == Init => IInv
  BY ConstantsAssumption
     DEF Init, IInv, KeyOK, NoKey, Local, Holds, Active, RenewerOK, AgeOK

\* Every step of Timely's specification keeps the inductive invariant.
LEMMA IInvStep ==
    ASSUME Timely, TypeOK, IInv, [Next]_vars
    PROVE  IInv'
  <1>1. KeyOK'
    BY KeyOKStep DEF IInv
  <1>2. ASSUME NEW q \in Replicas PROVE Local(q)'
    <2>1. CASE Clock
      BY <2>1, ClockStep DEF IInv
    <2>2. CASE \E r \in Replicas :
                 \/ ClaimServe(r) \/ ClaimRefused(r) \/ ClaimReply(r) \/ ParentCancel(r)
                 \/ FnReturn(r) \/ Release(r) \/ Return(r) \/ Crash(r)
      BY <2>2, CallerStep
    <2>3. CASE \E r \in Replicas :
                 RenewTick(r) \/ RenewStop(r) \/ RenewServe(r) \/ RenewReply(r)
      BY <2>3, RenewerStep
    <2>4. CASE UNCHANGED vars
      <3>1. SameLocals(q) /\ key' = key /\ age' = age /\ age \in Nat
        BY <2>4 DEF vars, SameLocals, TypeOK
      <3> QED  BY <3>1, Frame DEF IInv, Local, Holds
    <2> QED  BY <2>1, <2>2, <2>3, <2>4 DEF Next
  <1> QED  BY <1>1, <1>2 DEF IInv

\* The inductive invariant holds in every state, under Timely.
LEMMA IInvAlways ==
    ASSUME Timely
    PROVE  Spec => []IInv
  <1>1. TypeOK /\ IInv /\ [Next]_vars => IInv'
    BY IInvStep
  <1> QED  BY <1>1, IInvInit, TypeCorrect, PTL DEF Spec

-----------------------------------------------------------------------------
(* What the invariant gives.                                               *)

\* Under Timely, no two replicas run fn at once.
THEOREM ExclusiveHolds ==
    ASSUME Timely
    PROVE  Spec => []MutualExclusion
  <1>1. IInv => MutualExclusion
    BY DEF IInv, Local, Holds, Active, MutualExclusion
  <1> QED  BY <1>1, IInvAlways, PTL

\* Under Timely, IsSessionRunning is true as long as some replica runs fn, except
\* where its read of the bucket fails.
THEOREM VisibleHolds ==
    ASSUME Timely
    PROVE  Spec => []RunningIsVisible
  <1>1. IInv => RunningIsVisible
    BY DEF IInv, Local, Holds, Active, RunningIsVisible, IsSessionRunning, KVGet,
           ReadFails
  <1> QED  BY <1>1, IInvAlways, PTL

\* Under Timely, no replica deletes or overwrites the lease of one that runs fn.
THEOREM HeldHolds ==
    ASSUME Timely
    PROVE  Spec => HeldUntilExpiry
  <1> DEFINE P == \A r \in Replicas :
                    pc[r] = "fn" /\ Owns(r)
                      => Owns(r)' \/ key'.by = {r} \/ age + 1 >= TTL
  <1>1. ASSUME TypeOK, IInv, IInv', [Next]_vars, NEW r \in Replicas, pc[r] = "fn"
        PROVE  key'.by = {r}
    <2>1. CASE Active(r)'
      BY <1>1, <2>1 DEF IInv, Local, Holds
    <2>2. CASE ~Active(r)'
      <3>1. ASSUME Crash(r) PROVE key' = key
        BY <3>1 DEF Crash
      <3>2. ASSUME NEW s \in Replicas, s # r, Crash(s) PROVE pc'[r] = "fn"
        BY <1>1, <3>2 DEF Crash, TypeOK
      <3>3. ASSUME NEW s \in Replicas,
                   \/ ClaimServe(s) \/ ClaimRefused(s) \/ ClaimReply(s) \/ ParentCancel(s)
                   \/ FnReturn(s) \/ Release(s) \/ Return(s) \/ RenewTick(s)
                   \/ RenewStop(s) \/ RenewServe(s) \/ RenewReply(s)
            PROVE  pc'[r] \in {"fn", "release"}
        BY <1>1, <3>3 DEF ClaimServe, ClaimRefused, ClaimReply, ParentCancel, FnReturn,
           Release, Return, RenewTick, RenewStop, RenewServe, RenewReply, TypeOK
      <3>4. ASSUME Clock \/ UNCHANGED vars PROVE pc'[r] = "fn"
        BY <1>1, <3>4 DEF Clock, vars
      <3>5. key' = key
        BY <1>1, <2>2, <3>1, <3>2, <3>3, <3>4 DEF Next, Active
      <3> QED  BY <1>1, <3>5 DEF IInv, Local, Holds, Active
    <2> QED  BY <2>1, <2>2
  <1>2. TypeOK /\ IInv /\ IInv' /\ [Next]_vars => [P]_vars
    BY <1>1
  <1> QED  BY <1>2, TypeCorrect, IInvAlways, PTL DEF Spec, HeldUntilExpiry

\* Under Timely, SessionLease implements ExclusiveRun: turns run one at a time.
THEOREM Implements ==
    ASSUME Timely
    PROVE  Spec => RunsExclusively
  <1> DEFINE run == {r \in Replicas : pc[r] = "fn"}
  <1>1. Init => Turns!Init
    BY DEF Init, Turns!Init
  <1>2. ASSUME TypeOK, IInv, IInv', [Next]_vars PROVE [Turns!Next]_run
    <2>1. ASSUME NEW r \in Replicas, ClaimReply(r) PROVE Turns!Enter(r)
      <3>1. Active(r) /\ pc'[r] = "fn" /\ pc[r] = "claimed"
            /\ (\A q \in Replicas : q # r => pc'[q] = pc[q])
        BY <1>2, <2>1 DEF ClaimReply, Active, TypeOK
      <3>2. \A q \in Replicas : Active(q) => q = r
        BY <1>2, <3>1 DEF IInv, Local, Holds
      <3>3. \A q \in Replicas : pc[q] # "fn"
        BY <3>1, <3>2 DEF Active
      <3>4. \A q \in Replicas : pc'[q] = "fn" <=> q = r
        BY <3>1, <3>3
      <3> QED  BY <3>3, <3>4 DEF Turns!Enter
    <2>2. ASSUME NEW r \in Replicas, pc[r] = "fn", pc'[r] # "fn",
                 \A q \in Replicas : q # r => pc'[q] = pc[q]
          PROVE  Turns!Leave(r)
      BY <2>2 DEF Turns!Leave
    <2>3. ASSUME \A q \in Replicas : pc'[q] = "fn" <=> pc[q] = "fn"
          PROVE  UNCHANGED run
      BY <2>3
    <2>4. ASSUME NEW r \in Replicas, FnReturn(r) \/ Crash(r), pc[r] = "fn"
          PROVE  Turns!Leave(r)
      BY <1>2, <2>2, <2>4 DEF FnReturn, Crash, TypeOK
    <2>5. ASSUME NEW r \in Replicas, pc[r] # "fn",
                 \/ ClaimServe(r) \/ Release(r) \/ Return(r) \/ Crash(r)
          PROVE  UNCHANGED run
      <3>1. \A q \in Replicas : pc'[q] = "fn" <=> pc[q] = "fn"
        BY <1>2, <2>5 DEF ClaimServe, Release, Return, Crash, TypeOK
      <3> QED  BY <2>3, <3>1
    <2>6. ASSUME NEW r \in Replicas,
                 \/ Clock \/ ClaimRefused(r) \/ ParentCancel(r) \/ RenewTick(r)
                 \/ RenewStop(r) \/ RenewServe(r) \/ RenewReply(r) \/ UNCHANGED vars
          PROVE  UNCHANGED run
      <3>1. pc' = pc
        BY <2>6 DEF Clock, ClaimRefused, ParentCancel, RenewTick, RenewStop,
           RenewServe, RenewReply, vars
      <3> QED  BY <3>1
    <2>7. CASE Clock \/ UNCHANGED vars
      <3>1. pc' = pc
        BY <2>7 DEF Clock, vars
      <3> QED  BY <3>1
    <2>8. ASSUME NEW r \in Replicas, ClaimServe(r) \/ Release(r) \/ Return(r)
          PROVE  pc[r] # "fn"
      BY <2>8 DEF ClaimServe, Release, Return
    <2>9. ASSUME NEW r \in Replicas, FnReturn(r)
          PROVE  pc[r] = "fn"
      BY <2>9 DEF FnReturn
    <2>10. ASSUME NEW r \in Replicas, Turns!Enter(r) \/ Turns!Leave(r) PROVE Turns!Next
      BY <2>10 DEF Turns!Next
    <2> QED
      BY <1>2, <2>1, <2>4, <2>5, <2>6, <2>7, <2>8, <2>9, <2>10 DEF Next
  <1>3. TypeOK /\ IInv /\ IInv' /\ [Next]_vars => [Turns!Next]_run
    BY <1>2
  <1> QED
    BY <1>1, <1>3, TypeCorrect, IInvAlways, PTL
    DEF Spec, RunsExclusively, Turns!Spec
=============================================================================
