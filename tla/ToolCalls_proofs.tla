--------------------------- MODULE ToolCalls_proofs ---------------------------
(***************************************************************************)
(* TLAPS proofs about ToolCalls, for any calls, signals and replicas.      *)
(*                                                                         *)
(*  - ToolTypeCorrect: the type invariant.                                 *)
(*  - NoLeakHolds: the registry keeps no call that is over; no assumption. *)
(*  - AbortableHolds: if no two calls share a key, a running tool of a     *)
(*    session can always be aborted.                                       *)
(*  - SignalAbortsHolds: likewise, an interrupt aborts every tool that     *)
(*    runs for a session in its scope on the replica it reaches.           *)
(*  - CancelScopeHolds: if every interrupt names a tenant, it aborts calls *)
(*    of that tenant, and of its session if it names one, and no others.   *)
(***************************************************************************)
EXTENDS ToolCalls, SequenceTheorems, TLAPS

\* Type correctness of the tool-call specification.
THEOREM ToolTypeCorrect == Spec => []TypeOK
  <1>1. Init => TypeOK
    <2> SUFFICES ASSUME Init PROVE TypeOK
      OBVIOUS
    <2>1. signals \in [Replicas -> Seq(Signals)]
      BY DEF Init
    <2> QED  BY <2>1 DEF Init, TypeOK
  <1>2. TypeOK /\ [Next]_vars => TypeOK'
    <2> SUFFICES ASSUME TypeOK, [Next]_vars PROVE TypeOK'
      OBVIOUS
    <2> USE DEF TypeOK
    <2>1. ASSUME NEW c \in Calls, CallTool(c) PROVE TypeOK'
      <3>1. CASE Members = {}
        <4>1. UNCHANGED <<host, call>> /\ caller' = [caller EXCEPT ![c] = "failed"]
          BY <2>1, <3>1 DEF CallTool
        <4> QED  BY <2>1, <4>1 DEF CallTool
      <3>2. CASE Members # {}
        <4>1. PICK x \in Members :
                 /\ host' = [host EXCEPT ![c] = x]
                 /\ call' = [call EXCEPT ![c] = "queued"]
                 /\ caller' = [caller EXCEPT ![c] = "waiting"]
          BY <2>1, <3>2 DEF CallTool
        <4>2. x \in Replicas /\ x # NoReplica
          BY ConstantsAssumption DEF Members
        <4> QED  BY <2>1, <4>1, <4>2 DEF CallTool
      <3> QED  BY <3>1, <3>2
    <2>2. ASSUME NEW c \in Calls, GiveUp(c) PROVE TypeOK'
      BY <2>2 DEF GiveUp
    <2>3. ASSUME NEW c \in Calls, Receive(c) PROVE TypeOK'
      BY <2>3 DEF Receive
    <2>4. ASSUME NEW c \in Calls, Track(c) PROVE TypeOK'
      BY <2>4 DEF Track, Tracked
    <2>5. ASSUME NEW c \in Calls, Execute(c) PROVE TypeOK'
      BY <2>5 DEF Execute
    <2>6. ASSUME NEW c \in Calls, Untrack(c) PROVE TypeOK'
      BY <2>6 DEF Untrack, Untracked
    <2>7. ASSUME NEW c \in Calls, Reply(c) PROVE TypeOK'
      BY <2>7 DEF Reply
    <2>8. ASSUME NEW s \in Signals, Interrupt(s) PROVE TypeOK'
      <3>1. signals' \in [Replicas -> Seq(Signals)]
        <4>1. CASE UNCHANGED signals
          BY <4>1
        <4>2. ASSUME NEW x \in Members, signals' = [signals EXCEPT ![x] = Append(@, s)]
              PROVE  signals' \in [Replicas -> Seq(Signals)]
          BY <4>2, AppendProperties DEF Members
        <4> QED  BY <2>8, <4>1, <4>2 DEF Interrupt
      <3> QED  BY <2>8, <3>1 DEF Interrupt
    <2>9. ASSUME NEW x \in Replicas, TakeSignal(x) PROVE TypeOK'
      <3>1. signals' \in [Replicas -> Seq(Signals)]
        <4>1. Tail(signals[x]) \in Seq(Signals)
          BY <2>9, HeadTailProperties DEF TakeSignal
        <4> QED  BY <2>9, <4>1 DEF TakeSignal
      <3> QED  BY <2>9, <3>1 DEF TakeSignal
    <2>10. ASSUME NEW x \in Replicas, Abort(x) PROVE TypeOK'
      BY <2>10 DEF Abort
    <2>11. ASSUME NEW x \in Replicas, BadMessage(x) PROVE TypeOK'
      BY <2>11 DEF BadMessage
    <2>12. ASSUME NEW x \in Replicas, Stop(x) PROVE TypeOK'
      BY <2>12 DEF Stop
    <2>13. ASSUME NEW x \in Replicas, Close(x) PROVE TypeOK'
      <3>1. signals' \in [Replicas -> Seq(Signals)]
        BY <2>13 DEF Close
      <3> QED  BY <2>13, <3>1, ConstantsAssumption DEF Close
    <2>14. CASE UNCHANGED vars
      BY <2>14 DEF vars
    <2> QED
      BY <2>1, <2>2, <2>3, <2>4, <2>5, <2>6, <2>7, <2>8, <2>9, <2>10, <2>11,
         <2>12, <2>13, <2>14 DEF Next, Handler
  <1> QED  BY <1>1, <1>2, PTL DEF Spec

-----------------------------------------------------------------------------
\* A call that was not made is nowhere; one that reached the extension has a host.
Routed ==
    \A c \in Calls :
       /\ caller[c] = "idle" => call[c] = "none" /\ host[c] = NoReplica
       /\ call[c] # "none" => host[c] \in Replicas

\* Routed holds in every state of the specification.
LEMMA RoutedAlways == Spec => []Routed
  <1>1. Init => Routed
    BY DEF Init, Routed
  <1>2. TypeOK /\ Routed /\ [Next]_vars => Routed'
    <2> SUFFICES ASSUME TypeOK, Routed, [Next]_vars, NEW d \in Calls
                 PROVE  /\ caller'[d] = "idle" => call'[d] = "none" /\ host'[d] = NoReplica
                        /\ call'[d] # "none" => host'[d] \in Replicas
      BY DEF Routed
    <2> USE ConstantsAssumption DEF TypeOK, Routed
    <2>1. ASSUME NEW c \in Calls, CallTool(c)
          PROVE  /\ caller'[d] = "idle" => call'[d] = "none" /\ host'[d] = NoReplica
                 /\ call'[d] # "none" => host'[d] \in Replicas
      <3>1. CASE c = d
        BY <2>1, <3>1 DEF CallTool, Members
      <3>2. CASE c # d
        BY <2>1, <3>2 DEF CallTool, Members
      <3> QED  BY <3>1, <3>2
    <2>2. ASSUME NEW c \in Calls, GiveUp(c) \/ Handler(c)
          PROVE  /\ caller'[d] = "idle" => call'[d] = "none" /\ host'[d] = NoReplica
                 /\ call'[d] # "none" => host'[d] \in Replicas
      <3>1. /\ host' = host
            /\ caller'[d] = "idle" => caller[d] = "idle"
        BY <2>2 DEF GiveUp, Handler, Receive, Track, Execute, Untrack, Reply
      <3>2. call'[d] # call[d] => call[d] # "none"
        BY <2>2 DEF GiveUp, Handler, Receive, Track, Execute, Untrack, Reply
      <3> QED  BY <3>1, <3>2
    <2>3. ASSUME NEW x \in Replicas, Close(x)
          PROVE  /\ caller'[d] = "idle" => call'[d] = "none" /\ host'[d] = NoReplica
                 /\ call'[d] # "none" => host'[d] \in Replicas
      BY <2>3 DEF Close
    <2>4. ASSUME \/ \E s \in Signals : Interrupt(s)
                 \/ \E x \in Replicas : TakeSignal(x) \/ Abort(x) \/ BadMessage(x) \/ Stop(x)
                 \/ UNCHANGED vars
          PROVE  caller' = caller /\ call' = call /\ host' = host
      BY <2>4 DEF Interrupt, TakeSignal, Abort, BadMessage, Stop, vars
    <2> QED  BY <2>1, <2>2, <2>3, <2>4 DEF Next
  <1> QED  BY <1>1, <1>2, ToolTypeCorrect, PTL DEF Spec

\* What the registry holds: calls of its replica, with a session, not over yet.
Registered(x, c) ==
    host[c] = x /\ call[c] \in {"running", "executed"} /\ Session[c] # NoSession
RegistryOK == \A x \in Replicas : \A c \in inflight[x] : Registered(x, c)

\* RegistryOK holds in every state of the specification.
LEMMA RegistryAlwaysOK == Spec => []RegistryOK
  <1>1. Init => RegistryOK
    BY DEF Init, RegistryOK
  <1>2. TypeOK /\ TypeOK' /\ Routed /\ RegistryOK /\ [Next]_vars => RegistryOK'
    <2> SUFFICES ASSUME TypeOK, TypeOK', Routed, RegistryOK, [Next]_vars,
                        NEW x \in Replicas, NEW d \in Calls, d \in inflight'[x]
                 PROVE  Registered(x, d)'
      BY DEF RegistryOK, TypeOK
    <2> USE DEF TypeOK, Registered
    <2>1. ASSUME d \in inflight[x]
          PROVE  Registered(x, d) /\ caller[d] # "idle"
      BY <2>1 DEF RegistryOK, Routed
    <2>2. ASSUME NEW c \in Calls, CallTool(c) \/ GiveUp(c) \/ Receive(c)
          PROVE  Registered(x, d)'
      <3>1. d \in inflight[x]
        BY <2>2 DEF CallTool, GiveUp, Receive
      <3> QED  BY <2>1, <2>2, <3>1 DEF CallTool, GiveUp, Receive
    <2>3. ASSUME NEW c \in Calls, Track(c)
          PROVE  Registered(x, d)'
      <3>1. host[c] \in Replicas /\ call'[c] = "running" /\ host' = host
        BY <2>3 DEF Track, Routed
      <3>2. CASE d = c
        <4>1. d \notin inflight[x]
          BY <2>1, <2>3, <3>2 DEF Track
        <4>2. host[c] = x /\ Session[c] # NoSession
          BY <2>3, <3>1, <3>2, <4>1 DEF Track
        <4> QED  BY <3>1, <3>2, <4>2
      <3>3. CASE d # c
        <4>1. d \in inflight[x]
          BY <2>3, <3>1, <3>3 DEF Track, Tracked
        <4> QED  BY <2>1, <2>3, <3>3, <4>1 DEF Track
      <3> QED  BY <3>2, <3>3
    <2>4. ASSUME NEW c \in Calls, Execute(c)
          PROVE  Registered(x, d)'
      BY <2>1, <2>4 DEF Execute
    <2>5. ASSUME NEW c \in Calls, Untrack(c)
          PROVE  Registered(x, d)'
      <3>1. d \in inflight[x]
        BY <2>5 DEF Untrack, Untracked
      <3>2. d # c
        <4>1. ASSUME d = c PROVE FALSE
          <5>1. host[c] = x /\ Session[c] # NoSession
            BY <2>1, <3>1, <4>1
          <5> QED  BY <2>5, <4>1, <5>1 DEF Untrack, Untracked, SameKey
        <4> QED  BY <4>1
      <3> QED  BY <2>1, <2>5, <3>1, <3>2 DEF Untrack
    <2>6. ASSUME NEW c \in Calls, Reply(c)
          PROVE  Registered(x, d)'
      BY <2>1, <2>6 DEF Reply
    <2>7. ASSUME NEW y \in Replicas, TakeSignal(y) \/ Abort(y) \/ BadMessage(y) \/ Stop(y)
          PROVE  Registered(x, d)'
      <3>1. d \in inflight[x] /\ host' = host /\ call' = call
        BY <2>7 DEF TakeSignal, Abort, BadMessage, Stop
      <3> QED  BY <2>1, <3>1
    <2>8. ASSUME NEW y \in Replicas, Close(y)
          PROVE  Registered(x, d)'
      <3>1. y # x /\ d \in inflight[x]
        BY <2>8 DEF Close
      <3> QED  BY <2>1, <2>8, <3>1 DEF Close
    <2>9. ASSUME (\E s \in Signals : Interrupt(s)) \/ UNCHANGED vars
          PROVE  Registered(x, d)'
      <3>1. d \in inflight[x] /\ host' = host /\ call' = call
        BY <2>9 DEF Interrupt, vars
      <3> QED  BY <2>1, <3>1
    <2> QED
      BY <2>2, <2>3, <2>4, <2>5, <2>6, <2>7, <2>8, <2>9 DEF Next, Handler
  <1> QED  BY <1>1, <1>2, ToolTypeCorrect, RoutedAlways, PTL DEF Spec

\* The registry keeps no call that is over: a goroutine drops whatever is
\* registered under its key before it answers.
THEOREM NoLeakHolds == Spec => []NoLeak
  <1>1. RegistryOK => NoLeak
    BY DEF RegistryOK, Registered, NoLeak
  <1> QED  BY <1>1, RegistryAlwaysOK, PTL

-----------------------------------------------------------------------------
\* With distinct keys, nothing but its own end and an interrupt takes the cancel
\* function of a running call out of the registry.
THEOREM AbortableHolds ==
    ASSUME DistinctKeys
    PROVE  Spec => []Abortable
  <1>1. Init => Abortable
    BY DEF Init, Abortable
  <1>2. TypeOK /\ TypeOK' /\ Routed /\ Abortable /\ [Next]_vars => Abortable'
    <2> DEFINE Reach(d) == inflight[host[d]] \cup aborting[host[d]] \cup cancelled
    <2> SUFFICES ASSUME TypeOK, TypeOK', Routed, Abortable, [Next]_vars,
                        NEW d \in Calls, call'[d] = "running", Session[d] # NoSession
                 PROVE  d \in Reach(d)'
      BY DEF Abortable
    <2> USE DEF TypeOK
    <2>1. ASSUME call[d] = "running"
          PROVE  d \in Reach(d) /\ host[d] \in Replicas /\ caller[d] # "idle"
      BY <2>1 DEF Abortable, Routed
    <2>2. ASSUME NEW c \in Calls, CallTool(c) \/ GiveUp(c) \/ Receive(c) \/ Execute(c) \/ Reply(c)
          PROVE  d \in Reach(d)'
      <3>1. /\ call[d] = "running"
            /\ inflight' = inflight /\ aborting' = aborting /\ cancelled' = cancelled
        BY <2>2 DEF CallTool, GiveUp, Receive, Execute, Reply
      <3>2. host'[d] = host[d]
        BY <2>1, <2>2, <3>1 DEF CallTool, GiveUp, Receive, Execute, Reply
      <3> QED  BY <2>1, <3>1, <3>2
    <2>3. ASSUME NEW c \in Calls, Track(c)
          PROVE  d \in Reach(d)'
      <3>1. CASE d = c
        <4>1. host[c] \in Replicas
          BY <2>3 DEF Track, Routed
        <4> QED  BY <2>3, <3>1, <4>1 DEF Track, Tracked
      <3>2. CASE d # c
        <4>1. call[d] = "running" /\ ~SameKey(c, d)
          BY <2>3, <3>2 DEF Track, DistinctKeys
        <4>2. d \in inflight[host[d]] => d \in inflight'[host[d]]
          BY <2>1, <2>3, <4>1 DEF Track, Tracked, SameKey
        <4> QED  BY <2>1, <2>3, <4>1, <4>2 DEF Track
      <3> QED  BY <3>1, <3>2
    <2>4. ASSUME NEW c \in Calls, Untrack(c)
          PROVE  d \in Reach(d)'
      <3>1. call[d] = "running" /\ ~SameKey(c, d)
        BY <2>4 DEF Untrack, DistinctKeys
      <3>2. d \in inflight[host[d]] => d \in inflight'[host[d]]
        BY <2>1, <2>4, <3>1 DEF Untrack, Untracked, SameKey
      <3> QED  BY <2>1, <2>4, <3>1, <3>2 DEF Untrack
    <2>5. ASSUME NEW x \in Replicas, TakeSignal(x)
          PROVE  d \in Reach(d)'
      <3>1. call' = call /\ host' = host /\ cancelled' = cancelled
            /\ \A y \in Replicas : inflight[y] \cup aborting[y] = inflight'[y] \cup aborting'[y]
        BY <2>5 DEF TakeSignal
      <3> QED  BY <2>1, <3>1
    <2>6. ASSUME NEW x \in Replicas, Abort(x)
          PROVE  d \in Reach(d)'
      <3>1. PICK c \in aborting[x] : /\ cancelled' = cancelled \cup {c}
                                     /\ aborting' = [aborting EXCEPT ![x] = @ \ {c}]
        BY <2>6 DEF Abort
      <3> QED  BY <2>1, <2>6, <3>1 DEF Abort
    <2>7. ASSUME NEW x \in Replicas, Stop(x)
          PROVE  d \in Reach(d)'
      BY <2>1, <2>7 DEF Stop
    <2>8. ASSUME NEW x \in Replicas, Close(x)
          PROVE  d \in Reach(d)'
      <3>1. host[d] # x /\ call[d] = "running" /\ host' = host
        BY <2>8 DEF Close
      <3> QED  BY <2>1, <2>8, <3>1 DEF Close
    <2>9. ASSUME \/ \E s \in Signals : Interrupt(s)
                 \/ \E x \in Replicas : BadMessage(x)
                 \/ UNCHANGED vars
          PROVE  d \in Reach(d)'
      <3>1. /\ call' = call /\ host' = host /\ inflight' = inflight
            /\ aborting' = aborting /\ cancelled' = cancelled
        BY <2>9 DEF Interrupt, BadMessage, vars
      <3> QED  BY <2>1, <3>1
    <2> QED
      BY <2>2, <2>3, <2>4, <2>5, <2>6, <2>7, <2>8, <2>9 DEF Next, Handler
  <1> QED  BY <1>1, <1>2, ToolTypeCorrect, RoutedAlways, PTL DEF Spec

\* With distinct keys, an interrupt aborts every tool that runs for a session in
\* its scope on the replica that takes it.
THEOREM SignalAbortsHolds ==
    ASSUME DistinctKeys
    PROVE  Spec => SignalAborts
  <1> DEFINE P == \A x \in Replicas : Takes(x) =>
          \A c \in Calls :
             /\ call[c] = "running" /\ host[c] = x /\ Session[c] # NoSession
             /\ Tenant[c] = Tenant[Head(signals[x])]
             /\ Session[Head(signals[x])] \in {NoSession, Session[c]}
             => c \in aborting'[x] \cup cancelled
  <1>1. ASSUME TypeOK, Abortable, [Next]_vars, NEW x \in Replicas, Takes(x)
        PROVE  TakeSignal(x)
    <2> USE DEF TypeOK
    <2>1. /\ signals[x] \in Seq(Signals) /\ signals[x] # <<>>
          /\ signals'[x] = Tail(signals[x]) /\ mode'[x] = mode[x]
      BY <1>1 DEF Takes
    <2>2. /\ Len(Tail(signals[x])) # Len(signals[x])
          /\ Len(Tail(signals[x])) # Len(signals[x]) + 1
      BY <2>1, HeadTailProperties, LenProperties
    <2>3. signals'[x] # signals[x]
      BY <2>1, <2>2, Zenon
    <2>4. ASSUME NEW s \in Signals, Interrupt(s) PROVE FALSE
      <3>1. signals'[x] = Append(signals[x], s)
        BY <1>1, <2>3, <2>4 DEF Interrupt, Members
      <3>2. Len(Append(signals[x], s)) = Len(signals[x]) + 1
        BY <2>1, <2>4, AppendProperties
      <3> QED  BY <2>1, <2>2, <3>1, <3>2, Zenon
    <2>5. ASSUME NEW c \in Calls, CallTool(c) \/ GiveUp(c) \/ Handler(c) PROVE FALSE
      BY <2>3, <2>5 DEF CallTool, GiveUp, Handler, Receive, Track, Execute, Untrack, Reply
    <2>6. ASSUME NEW y \in Replicas, Abort(y) \/ BadMessage(y) \/ Stop(y) PROVE FALSE
      BY <2>3, <2>6 DEF Abort, BadMessage, Stop
    <2>7. ASSUME NEW y \in Replicas, Close(y) PROVE FALSE
      <3>1. y = x
        BY <1>1, <2>3, <2>7 DEF Close
      <3>2. mode'[x] = "down" /\ mode[x] # "down"
        BY <1>1, <2>7, <3>1 DEF Close
      <3> QED  BY <2>1, <3>2
    <2>8. ASSUME NEW y \in Replicas, TakeSignal(y) PROVE y = x
      BY <1>1, <2>3, <2>8 DEF TakeSignal
    <2>9. ~UNCHANGED vars
      BY <2>3 DEF vars
    <2> QED
      BY <1>1, <2>4, <2>5, <2>6, <2>7, <2>8, <2>9 DEF Next
  <1>2. ASSUME TypeOK, Abortable, [Next]_vars PROVE P
    <2> SUFFICES ASSUME NEW x \in Replicas, Takes(x), NEW c \in Calls,
                        call[c] = "running", host[c] = x, Session[c] # NoSession,
                        Tenant[c] = Tenant[Head(signals[x])],
                        Session[Head(signals[x])] \in {NoSession, Session[c]}
                 PROVE  c \in aborting'[x] \cup cancelled
      OBVIOUS
    <2>1. TakeSignal(x)
      BY <1>1, <1>2
    <2>2. c \in inflight[x] \cup cancelled
      BY <1>2, <2>1 DEF Abortable, TakeSignal
    <2>3. Covers(Head(signals[x]), c)
      BY DEF Covers
    <2> QED  BY <1>2, <2>1, <2>2, <2>3 DEF TakeSignal, TypeOK
  <1>3. TypeOK /\ Abortable /\ [Next]_vars => [P]_vars
    BY <1>2
  <1> QED  BY <1>3, ToolTypeCorrect, AbortableHolds, PTL DEF Spec, SignalAborts
-----------------------------------------------------------------------------
\* An interrupt that was sent has the call in its scope.
Asked(c) ==
    \E s \in sent : /\ Tenant[s] = Tenant[c]
                    /\ Session[s] # NoSession => Session[s] = Session[c]

\* Only interrupts that were sent wait at a replica; a call that an interrupt loop
\* is about to cancel is one of its replica that was asked for; so is a call that
\* was cancelled, if its replica is not shutting down.
InScope ==
    /\ \A x \in Replicas : \A i \in 1 .. Len(signals[x]) : signals[x][i] \in sent
    /\ \A x \in Replicas : \A c \in aborting[x] : host[c] = x /\ Asked(c)
    /\ \A c \in cancelled : host[c] \in Replicas /\ (mode[host[c]] # "up" \/ Asked(c))

\* The interrupt loop and the shutdown of a replica are the only steps that cancel
\* calls; neither reaches a call outside the scope.
LEMMA InScopeStep ==
    ASSUME \A s \in Signals : Tenant[s] # NoTenant,
           TypeOK, Routed, RegistryOK, InScope, [Next]_vars
    PROVE  InScope'
  <1> USE DEF TypeOK, InScope
  <1>0. ASSUME sent \subseteq sent', NEW c, Asked(c) PROVE Asked(c)'
    BY <1>0 DEF Asked
  <1>1. ASSUME NEW c \in Calls, CallTool(c) PROVE InScope'
    <2>1. /\ \A d \in Calls : d # c => host'[d] = host[d]
          /\ host[c] \notin Replicas
          /\ UNCHANGED <<cancelled, aborting, sent, signals, mode>>
      BY <1>1, ConstantsAssumption DEF CallTool, Routed
    <2>2. \A x \in Replicas : c \notin aborting[x]
      BY <2>1
    <2>3. c \notin cancelled
      BY <2>1
    <2> QED
      BY <2>1, <2>2, <2>3 DEF Asked
  <1>2. ASSUME NEW c \in Calls, GiveUp(c) \/ Handler(c) PROVE InScope'
    <2>1. UNCHANGED <<host, cancelled, aborting, sent, signals, mode>>
      BY <1>2 DEF GiveUp, Handler, Receive, Track, Execute, Untrack, Reply
    <2> QED
      BY <2>1 DEF Asked
  <1>3. ASSUME NEW s \in Signals, Interrupt(s) PROVE InScope'
    <2>1. /\ sent' = sent \cup {s}
          /\ UNCHANGED <<host, cancelled, aborting, mode>>
      BY <1>3 DEF Interrupt
    <2>2. ASSUME NEW x \in Replicas, NEW i \in 1 .. Len(signals'[x])
          PROVE  signals'[x][i] \in sent'
      <3>1. CASE signals'[x] = signals[x]
        BY <2>1, <2>2, <3>1
      <3>2. CASE signals'[x] = Append(signals[x], s)
        <4>1. /\ Len(signals'[x]) = Len(signals[x]) + 1
              /\ \A j \in 1 .. Len(signals[x]) : signals'[x][j] = signals[x][j]
              /\ signals'[x][Len(signals[x]) + 1] = s
          BY <3>2, AppendProperties
        <4>2. Len(signals[x]) \in Nat
          BY LenProperties
        <4>3. i \in 1 .. Len(signals[x]) \/ i = Len(signals[x]) + 1
          BY <2>2, <4>1, <4>2
        <4> QED
          BY <2>1, <4>1, <4>3
      <3>3. signals'[x] = signals[x] \/ signals'[x] = Append(signals[x], s)
        BY <1>3 DEF Interrupt
      <3> QED
        BY <3>1, <3>2, <3>3
    <2> QED
      BY <1>0, <2>1, <2>2
  <1>4. ASSUME NEW x \in Replicas, TakeSignal(x) PROVE InScope'
    <2> DEFINE s == Head(signals[x])
    <2>1. signals[x] \in Seq(Signals) /\ signals[x] # <<>>
      BY <1>4 DEF TakeSignal
    <2>2. Len(signals[x]) \in Nat \ {0} /\ s = signals[x][1]
      BY <2>1, EmptySeq
    <2>3. s \in sent
      BY <2>2
    <2>4. /\ Len(Tail(signals[x])) = Len(signals[x]) - 1
          /\ \A i \in 1 .. Len(Tail(signals[x])) : Tail(signals[x])[i] = signals[x][i + 1]
      BY <2>1, HeadTailProperties
    <2>5. ASSUME NEW y \in Replicas, NEW i \in 1 .. Len(signals'[y])
          PROVE  signals'[y][i] \in sent
      <3>1. signals' = [signals EXCEPT ![x] = Tail(@)]
        BY <1>4 DEF TakeSignal
      <3>2. CASE y = x
        <4>1. signals'[y] = Tail(signals[x])
          BY <3>1, <3>2
        <4>2. i + 1 \in 1 .. Len(signals[x]) /\ signals'[y][i] = signals[x][i + 1]
          BY <2>2, <2>4, <2>5, <4>1
        <4> QED
          BY <4>2
      <3>3. CASE y # x
        BY <2>5, <3>1, <3>3
      <3> QED
        BY <3>2, <3>3
    <2>6. ASSUME NEW c \in inflight[x], Covers(s, c) PROVE host[c] = x /\ Asked(c)
      <3>1. host[c] = x /\ Session[c] # NoSession
        BY DEF RegistryOK, Registered
      <3>2. Tenant[s] # NoTenant
        BY <2>3
      <3>3. Tenant[s] = Tenant[c] /\ (Session[s] # NoSession => Session[s] = Session[c])
        BY <2>6, <3>2 DEF Covers
      <3> QED
        BY <2>3, <3>1, <3>3 DEF Asked
    <2>7. /\ aborting' = [aborting EXCEPT ![x] = {c \in inflight[x] : Covers(s, c)}]
          /\ UNCHANGED <<host, cancelled, sent, mode>>
      BY <1>4 DEF TakeSignal
    <2>8. \A y \in Replicas : \A c \in aborting'[y] : host[c] = y /\ Asked(c)
      BY <2>6, <2>7
    <2> QED
      BY <2>5, <2>7, <2>8 DEF Asked
  <1>5. ASSUME NEW x \in Replicas, Abort(x) PROVE InScope'
    <2>1. PICK c \in aborting[x] :
             /\ cancelled' = cancelled \cup {c}
             /\ aborting' = [aborting EXCEPT ![x] = @ \ {c}]
      BY <1>5 DEF Abort
    <2>2. UNCHANGED <<host, sent, signals, mode>>
      BY <1>5 DEF Abort
    <2>3. host[c] = x /\ Asked(c)
      OBVIOUS
    <2> QED
      BY <2>1, <2>2, <2>3 DEF Asked
  <1>6. ASSUME NEW x \in Replicas, BadMessage(x) PROVE InScope'
    BY <1>6 DEF BadMessage, Asked
  <1>7. ASSUME NEW x \in Replicas, Stop(x) PROVE InScope'
    <2>1. /\ mode' = [mode EXCEPT ![x] = "stopping"]
          /\ \A c \in cancelled' : c \in cancelled \/ host[c] = x
          /\ UNCHANGED <<host, aborting, sent, signals>>
      BY <1>7 DEF Stop
    <2> QED
      BY <2>1 DEF Asked
  <1>8. ASSUME NEW x \in Replicas, Close(x) PROVE InScope'
    <2>1. /\ mode' = [mode EXCEPT ![x] = "down"]
          /\ aborting' = [aborting EXCEPT ![x] = {}]
          /\ signals' = [signals EXCEPT ![x] = <<>>]
          /\ UNCHANGED <<host, cancelled, sent>>
      BY <1>8 DEF Close
    <2>2. Len(<<>>) = 0
      BY EmptySeq
    <2> QED
      BY <2>1, <2>2 DEF Asked
  <1>9. CASE UNCHANGED vars
    BY <1>9 DEF vars, Asked
  <1> QED
    BY <1>1, <1>2, <1>3, <1>4, <1>5, <1>6, <1>7, <1>8, <1>9 DEF Next

\* However signals, calls and shutdowns interleave, an interrupt that names a
\* tenant aborts no call of another one, and if it names a session no call of
\* another session.
THEOREM CancelScopeHolds ==
    ASSUME \A s \in Signals : Tenant[s] # NoTenant
    PROVE  Spec => []CancelScope
  <1>1. Init => InScope
    <2>1. Len(<<>>) = 0
      BY EmptySeq
    <2> QED
      BY <2>1 DEF Init, InScope
  <1>2. TypeOK /\ Routed /\ RegistryOK /\ InScope /\ [Next]_vars => InScope'
    BY InScopeStep
  <1>3. InScope => CancelScope
    BY DEF InScope, CancelScope, Asked
  <1> QED
    BY <1>1, <1>2, <1>3, ToolTypeCorrect, RoutedAlways, RegistryAlwaysOK, PTL DEF Spec
=============================================================================
