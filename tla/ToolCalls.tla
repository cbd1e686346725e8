------------------------------ MODULE ToolCalls ------------------------------
(***************************************************************************)
(* Tool calls and their interruption: CallTool, Interrupt and              *)
(* InterruptSession of agent/agent.go, and the serving side of             *)
(* extension/extension.go (serveTools, pumpTool, handleToolCall, the       *)
(* inflight registry, serveInterrupt), on the replicas of one extension.   *)
(*                                                                         *)
(* A call is a request that the server hands to one replica of the queue   *)
(* group; the replica's pump starts a goroutine for it, which registers    *)
(* the call's cancel function, runs the tool, drops the registration and   *)
(* publishes the result.  An interrupt is a signal that the server hands   *)
(* to one replica too; its receive loop takes the matching registrations   *)
(* out of the registry under the lock and cancels them after it.           *)
(*                                                                         *)
(* inflight is a map tenant+session -> call id -> cancel function.  It is  *)
(* modelled by the set of the calls whose cancel functions it stores, no   *)
(* two of them with the same key.                                          *)
(***************************************************************************)
EXTENDS Sequences

CONSTANTS
    Replicas,       \* the replicas of the extension
    Calls,          \* calls to one tool, each made once
    Signals,        \* interrupts, each sent once
    Tenant,         \* of a call or a signal
    Session,        \* of a call or a signal; NoSession if it has none
    CallId,         \* of a call
    NoTenant, NoSession, NoReplica,
    MayStop,        \* may replicas shut down or die?
    BadMessages     \* may messages arrive that decode or verifyMsg reject?

ASSUME ConstantsAssumption ==
    /\ NoReplica \notin Replicas
    /\ MayStop \in BOOLEAN /\ BadMessages \in BOOLEAN

VARIABLES
    caller,     \* what CallTool's caller sees
    call,       \* how far the call got on the extension's side
    host,       \* the replica the call was routed to
    cancelled,  \* the calls whose callCtx was done before they were over
    inflight,   \* per replica, the calls in the registry
    aborting,   \* per replica, taken out of the registry and still to cancel
    sent,       \* the signals sent
    signals,    \* per replica, the signals delivered and not yet handled
    listening,  \* per replica, the receive loops still alive
    mode        \* per replica: up, stopping (ctx done, not closed), down

vars == <<caller, call, host, cancelled, inflight, aborting,
          sent, signals, listening, mode>>

Loops == {"tool", "interrupt"}

Init ==
    /\ caller = [c \in Calls |-> "idle"]
    /\ call = [c \in Calls |-> "none"]
    /\ host = [c \in Calls |-> NoReplica]
    /\ cancelled = {}
    /\ inflight = [x \in Replicas |-> {}]
    /\ aborting = [x \in Replicas |-> {}]
    /\ sent = {}
    /\ signals = [x \in Replicas |-> <<>>]
    /\ listening = [x \in Replicas |-> Loops]
    /\ mode = [x \in Replicas |-> "up"]

\* The queue group's members: subscriptions stay until Close.
Members == {x \in Replicas : mode[x] # "down"}

-----------------------------------------------------------------------------
(* The registry.                                                           *)

SameKey(c, d) ==
    Tenant[c] = Tenant[d] /\ Session[c] = Session[d] /\ CallId[c] = CallId[d]

\* trackInflight overwrites an entry with the same key, untrackInflight deletes
\* by key.  Mutants: nothing is deleted; the whole session is.
Tracked(reg, c) == {d \in reg : ~SameKey(c, d)} \cup {c}
Leaked(reg, c) == reg
SessionUntracked(reg, c) ==
    {d \in reg : Tenant[d] # Tenant[c] \/ Session[d] # Session[c]}
Untracked(reg, c) == {d \in reg : ~SameKey(c, d)}

\* What a signal aborts: one session of its tenant, its tenant, or everything.
\* Mutants: a session matched without its tenant; no broadcast.
AnyTenantsSession(s, c) ==
    \/ Session[s] # NoSession /\ Session[s] = Session[c]
    \/ Session[s] = NoSession /\ Tenant[s] \in {NoTenant, Tenant[c]}
SessionOnly(s, c) == Session[s] = Session[c] /\ Tenant[s] = Tenant[c]
Covers(s, c) ==
    \/ Session[s] # NoSession /\ Session[s] = Session[c] /\ Tenant[s] = Tenant[c]
    \/ Session[s] = NoSession /\ Tenant[s] \in {NoTenant, Tenant[c]}

-----------------------------------------------------------------------------
(* Calls.                                                                  *)

\* The request goes to a member of the queue group, alive or not; with no
\* member at all it fails.  It has no timeout.  Mutant: the request is published
\* without a check for members.
CallNobody(c) ==
    /\ caller[c] = "idle"
    /\ \E x \in Members \cup {NoReplica} : host' = [host EXCEPT ![c] = x]
    /\ call' = [call EXCEPT ![c] = "queued"]
    /\ caller' = [caller EXCEPT ![c] = "waiting"]
    /\ UNCHANGED <<cancelled, inflight, aborting, sent, signals, listening, mode>>
CallTool(c) ==
    /\ caller[c] = "idle"
    /\ \/ \E x \in Members :
             /\ host' = [host EXCEPT ![c] = x]
             /\ call' = [call EXCEPT ![c] = "queued"]
             /\ caller' = [caller EXCEPT ![c] = "waiting"]
       \/ /\ Members = {}
          /\ caller' = [caller EXCEPT ![c] = "failed"]
          /\ UNCHANGED <<host, call>>
    /\ UNCHANGED <<cancelled, inflight, aborting, sent, signals, listening, mode>>

\* The caller's context ends: it stops waiting.  The extension is not told.
GiveUp(c) ==
    /\ caller[c] = "waiting"
    /\ caller' = [caller EXCEPT ![c] = "failed"]
    /\ UNCHANGED <<call, host, cancelled, inflight, aborting,
                   sent, signals, listening, mode>>

\* The pump takes the request and starts a goroutine for it.
Receive(c) ==
    /\ call[c] = "queued" /\ "tool" \in listening[host[c]]
    /\ call' = [call EXCEPT ![c] = "received"]
    /\ UNCHANGED <<caller, host, cancelled, inflight, aborting,
                   sent, signals, listening, mode>>

\* The goroutine registers the call, if it has a session, and runs the tool.
Track(c) ==
    /\ call[c] = "received"
    /\ call' = [call EXCEPT ![c] = "running"]
    /\ inflight' = IF Session[c] = NoSession THEN inflight
                   ELSE [inflight EXCEPT ![host[c]] = Tracked(@, c)]
    /\ UNCHANGED <<caller, host, cancelled, aborting, sent, signals, listening, mode>>

\* Execute returns a result or an error, with or without regard to callCtx.
Execute(c) ==
    /\ call[c] = "running"
    /\ call' = [call EXCEPT ![c] = "executed"]
    /\ UNCHANGED <<caller, host, cancelled, inflight, aborting, sent, signals, listening, mode>>

Untrack(c) ==
    /\ call[c] = "executed"
    /\ call' = [call EXCEPT ![c] = "untracked"]
    /\ inflight' = IF Session[c] = NoSession THEN inflight
                   ELSE [inflight EXCEPT ![host[c]] = Untracked(@, c)]
    /\ UNCHANGED <<caller, host, cancelled, aborting, sent, signals, listening, mode>>

\* The result, the error or, for a content over maxToolContentBytes, an error
\* instead of it is published to the caller's inbox, once.  The publish may fail,
\* in the connection or before it because the result's data cannot be marshalled;
\* its error is discarded and nothing is sent.  Mutant: nothing is sent, and no
\* error met, if the call was aborted.
ReplyUnlessAborted(c) ==
    /\ call[c] = "untracked"
    /\ \/ /\ call' = [call EXCEPT ![c] = "replied"]
          /\ caller' = [caller EXCEPT ![c] =
                          IF @ = "waiting" /\ c \notin cancelled THEN "done" ELSE @]
       \/ call' = [call EXCEPT ![c] = "unsent"] /\ UNCHANGED caller
    /\ UNCHANGED <<host, cancelled, inflight, aborting, sent, signals, listening, mode>>
Reply(c) ==
    /\ call[c] = "untracked"
    /\ \/ /\ call' = [call EXCEPT ![c] = "replied"]
          /\ caller' = [caller EXCEPT ![c] = IF @ = "waiting" THEN "done" ELSE @]
       \/ call' = [call EXCEPT ![c] = "unsent"] /\ UNCHANGED caller
    /\ UNCHANGED <<host, cancelled, inflight, aborting, sent, signals, listening, mode>>

-----------------------------------------------------------------------------
(* Interrupts.                                                             *)

\* Interrupt (no session) or InterruptSession: publish, to one member.
Interrupt(s) ==
    /\ s \notin sent
    /\ sent' = sent \cup {s}
    /\ \/ \E x \in Members : signals' = [signals EXCEPT ![x] = Append(@, s)]
       \/ Members = {} /\ UNCHANGED signals
    /\ UNCHANGED <<caller, call, host, cancelled, inflight, aborting, listening, mode>>

\* Under the lock: take the matching cancel functions out of the registry.
\* The loop comes back for the next signal when it has called them all.
TakeSignal(x) ==
    /\ "interrupt" \in listening[x] /\ aborting[x] = {} /\ signals[x] # <<>>
    /\ LET hit == {c \in inflight[x] : Covers(Head(signals[x]), c)}
       IN  /\ aborting' = [aborting EXCEPT ![x] = hit]
           /\ inflight' = [inflight EXCEPT ![x] = @ \ hit]
    /\ signals' = [signals EXCEPT ![x] = Tail(@)]
    /\ UNCHANGED <<caller, call, host, cancelled, sent, listening, mode>>

\* After it: call one of them.
Abort(x) ==
    /\ \E c \in aborting[x] :
          /\ cancelled' = cancelled \cup {c}
          /\ aborting' = [aborting EXCEPT ![x] = @ \ {c}]
    /\ UNCHANGED <<caller, call, host, inflight, sent, signals, listening, mode>>

-----------------------------------------------------------------------------
(* Receive loops and replicas that end.                                    *)

\* natsSub.Next answers a message it cannot verify or decode with false, which
\* the receive loops take for the end of the subscription.
BadMessage(x) ==
    /\ BadMessages
    /\ \E l \in listening[x] : listening' = [listening EXCEPT ![x] = @ \ {l}]
    /\ UNCHANGED <<caller, call, host, cancelled, inflight, aborting,
                   sent, signals, mode>>

\* The context of Serve ends: the loops stop, every callCtx is done, and the
\* subscriptions stay open until Close.
Stop(x) ==
    /\ MayStop /\ mode[x] = "up"
    /\ mode' = [mode EXCEPT ![x] = "stopping"]
    /\ listening' = [listening EXCEPT ![x] = {}]
    /\ cancelled' = cancelled \cup
                    {c \in Calls : host[c] = x /\ call[c] \in {"received", "running", "executed"}}
    /\ UNCHANGED <<caller, call, host, inflight, aborting, sent, signals>>

\* Close, or the process dies: whatever is not answered never will be.
Close(x) ==
    /\ MayStop /\ mode[x] # "down"
    /\ mode' = [mode EXCEPT ![x] = "down"]
    /\ listening' = [listening EXCEPT ![x] = {}]
    /\ call' = [c \in Calls |-> IF host[c] = x /\ call[c] \notin {"replied", "unsent"}
                                THEN "dropped" ELSE call[c]]
    /\ inflight' = [inflight EXCEPT ![x] = {}]
    /\ aborting' = [aborting EXCEPT ![x] = {}]
    /\ signals' = [signals EXCEPT ![x] = <<>>]
    /\ UNCHANGED <<caller, host, cancelled, sent>>

Handler(c) == Receive(c) \/ Track(c) \/ Execute(c) \/ Untrack(c) \/ Reply(c)

Next ==
    \/ \E c \in Calls : CallTool(c) \/ GiveUp(c) \/ Handler(c)
    \/ \E s \in Signals : Interrupt(s)
    \/ \E x \in Replicas :
          TakeSignal(x) \/ Abort(x) \/ BadMessage(x) \/ Stop(x) \/ Close(x)

Spec == Init /\ [][Next]_vars

\* Goroutines that can run do; a tool returns once its context is done.
Fairness ==
    /\ \A c \in Calls :
          /\ WF_vars(Receive(c) \/ Track(c) \/ Untrack(c) \/ Reply(c))
          /\ WF_vars(c \in cancelled /\ Execute(c))
    /\ \A x \in Replicas : WF_vars(TakeSignal(x)) /\ WF_vars(Abort(x))

FairSpec == Spec /\ Fairness

-----------------------------------------------------------------------------
(* Properties.                                                             *)

\* Every variable has its type, and a call that the extension has not lost sight
\* of has a replica.
TypeOK ==
    /\ caller \in [Calls -> {"idle", "waiting", "done", "failed"}]
    /\ call \in [Calls -> {"none", "queued", "received", "running", "executed",
                           "untracked", "replied", "unsent", "dropped"}]
    /\ host \in [Calls -> Replicas \cup {NoReplica}]
    /\ \A c \in Calls : host[c] = NoReplica => call[c] = "none"
    /\ cancelled \subseteq Calls
    /\ inflight \in [Replicas -> SUBSET Calls]
    /\ aborting \in [Replicas -> SUBSET Calls]
    /\ sent \subseteq Signals
    /\ signals \in [Replicas -> Seq(Signals)]
    /\ listening \in [Replicas -> SUBSET Loops]
    /\ mode \in [Replicas -> {"up", "stopping", "down"}]

\* No call has the key of another: each is made under an id of its own.
DistinctKeys == \A c, d \in Calls : SameKey(c, d) => c = d

\* InterruptSession aborts only the calls of its tenant's session, Interrupt
\* only those of its tenant, on a replica that is not shutting down.
CancelScope ==
    \A c \in cancelled :
       \/ mode[host[c]] # "up"
       \/ \E s \in sent : /\ Tenant[s] = Tenant[c]
                          /\ Session[s] # NoSession => Session[s] = Session[c]

\* A tool that runs for a session can be aborted: its cancel function is in the
\* registry, or the interrupt loop is about to call it, or has.
Abortable ==
    \A c \in Calls :
       call[c] = "running" /\ Session[c] # NoSession
         => c \in inflight[host[c]] \cup aborting[host[c]] \cup cancelled

\* The registry keeps no call that is over, whatever its key.
NoLeak ==
    \A x \in Replicas : \A c \in inflight[x] :
       host[c] = x /\ call[c] \in {"running", "executed"}

Takes(x) == signals[x] # <<>> /\ signals'[x] = Tail(signals[x]) /\ mode'[x] = mode[x]

\* When a replica acts on an interrupt, every tool it is running for a session in
\* the scope of the interrupt is aborted, however the loop, the goroutines and
\* earlier interrupts interleave.  A call without a session is registered nowhere
\* and no interrupt reaches it, though Interrupt's comment speaks of all work.
SignalAborts ==
    [][\A x \in Replicas : Takes(x) =>
          \A c \in Calls :
             /\ call[c] = "running" /\ host[c] = x /\ Session[c] # NoSession
             /\ Tenant[c] = Tenant[Head(signals[x])]
             /\ Session[Head(signals[x])] \in {NoSession, Session[c]}
             => c \in aborting'[x] \cup cancelled]_vars

\* The caller of an aborted call is not left waiting, unless the replica that
\* ran the call closes before it answers, or fails at the one answer it tries.
AbortedIsAnswered ==
    \A c \in Calls :
       c \in cancelled /\ caller[c] = "waiting"
         ~> caller[c] # "waiting" \/ call[c] \in {"dropped", "unsent"}
=============================================================================
