------------------------------ MODULE Sessions ------------------------------
(***************************************************************************)
(* The life of a session: variables, lifecycle events and hooks, of        *)
(* agent/agent.go, extension/extension.go and extension/config.go.         *)
(*                                                                         *)
(* An agent creates a session, deletes it and creates it again under the   *)
(* same name.  The replicas of one extension share the events of a         *)
(* session's life, and what they are asked, as a queue group.  Each runs   *)
(* one serial loop per subscription: one for the lifecycle events, one per *)
(* variable, one per hook.  A variable's resolver and the handler of       *)
(* "created" may write the session's variables into the vars bucket; on    *)
(* "deleted" they are deleted, one request each.  The agent reads the      *)
(* bucket before it asks, and gives the asking two seconds.  What the      *)
(* agent does to the configuration of a deleted session is in ConfigSync.  *)
(*                                                                         *)
(* The lives of a session are numbered; the value of a session's variable  *)
(* is the number of the life that it was computed in.                      *)
(*                                                                         *)
(* Faults says what may go wrong around the code:                          *)
(*    crash    a replica dies                                              *)
(*    request  a request to the bucket fails                               *)
(*    plain    a message of a bus without identity, once                   *)
(***************************************************************************)
EXTENDS Wire, HookSchema, Functions

CONSTANTS
    Replicas,       \* processes of the extension
    Clients,        \* goroutines of the agent that resolve variables and use the hooks
    Variables,      \* the variables of the extension
    Scoped,         \* those of scope session
    Identity,       \* the identity of the agent, and of each replica
    Agent,
    CallSchema,     \* the schema of the call hook's arguments
    EventSchema,    \* the schema of the event hook's payload
    Args,           \* arguments and payloads that the hooks are used with
    Bounds,         \* how many lives the session has, how often which variables are resolved
                    \* and hooks used, at most: a behaviour keeps to one of them
    Faults

ASSUME ConstantsAssumption ==
    /\ DOMAIN Identity = Replicas \cup {Agent} /\ Agent \notin Replicas
    /\ Scoped \subseteq Variables /\ Variables \cap {"lifecycle", "call", "event"} = {}
    /\ {CallSchema, EventSchema} \subseteq Schemas /\ Args \subseteq Values
    /\ Bounds \subseteq [lives : Nat, asks : Nat, asked : SUBSET Variables, hooks : Nat]
    /\ Faults \subseteq {"crash", "request", "plain"}
    /\ NilPayload \notin Nat \cup [client : Clients, op : Nat] \cup
           [client : Clients, op : Nat, args : Args] \cup [args : Args]
           \cup [value : Nat] \cup [ok : BOOLEAN]

VARIABLES
    bounds,     \* what this behaviour keeps to
    life,       \* the number of the session's present or last life
    alive,      \* does it live?
    bucket,     \* the vars bucket: per key its value, 0 for none
    up,         \* the replicas that run
    inbox,      \* per replica and loop: the messages that it has not received yet
    task,       \* per replica and loop: what it is at
    client,     \* per client: what it is at; auxiliary: forsaken, when the answer to the
                \* call that it waits for could not be sent
    asks,       \* variables resolved so far
    hooks,      \* hooks used so far
    plain,      \* has a bus without identity sent its message?
    disturbed,  \* auxiliary: lives that ended with something of theirs under way or lost
    handled     \* auxiliary: the messages that a hook's handler was called for

vars == <<bounds, life, alive, bucket, up, inbox, task, client, asks, hooks, plain, disturbed, handled>>

Tenant == "t1"
Name == "s1"
ExtId == "ext"
Loops == {"lifecycle", "call", "event"} \cup Variables
Lives == 1..bounds.lives
GlobalValue == bounds.lives + 1     \* the value of a global variable, of no life

VarKey(v) == <<"t", Tenant, ExtId, v>>
SessionVarKey(v) == <<"t", Tenant, ExtId, SessionToken(Name), v>>
Keys == {VarKey(v) : v \in Variables} \cup {SessionVarKey(v) : v \in Variables}

Idle == [step |-> "idle"]
Dead == [step |-> "dead"]

Channel(loop) ==
    CASE loop = "call" -> ChHookCall(Tenant, ExtId, "hook")
      [] loop = "event" -> ChHookEvent(Tenant, "hook")
      [] OTHER -> ChVariable(Tenant, ExtId, loop)

Init ==
    /\ life = 0 /\ alive = FALSE
    /\ bucket = [k \in Keys |-> 0]
    /\ up = Replicas
    /\ inbox = [r \in Replicas |-> [l \in Loops |-> <<>>]]
    /\ task = [r \in Replicas |-> [l \in Loops |-> Idle]]
    /\ client = [c \in Clients |-> Idle]
    /\ bounds \in Bounds /\ asks = 0 /\ hooks = 0 /\ plain = FALSE
    /\ disturbed = {} /\ handled = {}

Queued(l) == UNION {Range(inbox[r][l]) : r \in up}
Running(l) == {task[r][l] : r \in up}

\* Is the deletion of a life's variable still to come?
Pending(n, v) ==
    \/ \E m \in Queued("lifecycle") :
          m.data.ch = ChLifecycle(Tenant, "deleted") /\ m.data.payload = n
    \/ \E t \in Running("lifecycle") : t.step = "delete" /\ t.life = n /\ v \in t.left

\* Is anything under way that may yet write the value of a life to a variable?
UnderWay(n, v) ==
    \/ \E c \in Clients : client[c].step \in {"session", "global", "ask"} /\ client[c].var = v
    \/ Queued(v) # {} \/ \E t \in Running(v) : t.step \in {"resolve", "store"}
    \/ \E m \in Queued("lifecycle") :
          m.data.ch = ChLifecycle(Tenant, "created") /\ m.data.payload = n
    \/ \E t \in Running("lifecycle") : t.step = "created" /\ t.life = n

\* A message goes to one member of the queue group; without one, it goes nowhere.
Deliver(l, m) == \E r \in up : inbox' = [inbox EXCEPT ![r][l] = Append(@, m)]
SetTask(r, l, t) == task' = [task EXCEPT ![r][l] = t]
SetClient(c, t) == client' = [client EXCEPT ![c] = t]

-----------------------------------------------------------------------------
(* The agent.                                                              *)

PublishLifecycleEvent(kind, n) ==
    LET m == Sent(Identity[Agent], "pub", ChLifecycle(Tenant, kind), n, Tenant, "")
    IN  \/ /\ Deliver("lifecycle", m)
           /\ UNCHANGED disturbed
        \/ /\ up = {}
           /\ disturbed' = IF kind = "deleted" THEN disturbed \cup {n} ELSE disturbed
           /\ UNCHANGED inbox

Create ==
    /\ ~alive /\ life < bounds.lives
    /\ life' = life + 1 /\ alive' = TRUE
    /\ PublishLifecycleEvent("created", life + 1)
    /\ UNCHANGED <<bounds, bucket, up, task, client, asks, hooks, plain, handled>>

Delete ==
    /\ alive
    /\ alive' = FALSE
    /\ PublishLifecycleEvent("deleted", life)
    /\ UNCHANGED <<bounds, life, bucket, up, task, client, asks, hooks, plain, handled>>

Busy(c, step) ==
    /\ client[c].step = step
    /\ UNCHANGED <<bounds, life, alive, bucket, up, task, asks, hooks, plain, disturbed, handled>>

\* ResolveVariable.  Every request has a number, which stands for the subject that its
\* answer is sent to.  It remembers the lives before, and which of them were not cleaned.
ResolveVariable(c, v) ==
    /\ client[c].step = "idle" /\ alive /\ asks < bounds.asks /\ v \in bounds.asked
    /\ asks' = asks + 1
    /\ SetClient(c, [step |-> "session", var |-> v, op |-> asks + hooks + 1, born |-> life,
                     owed |-> {n \in Lives : Pending(n, v)}])
    /\ UNCHANGED <<bounds, life, alive, bucket, up, inbox, task, hooks, plain, disturbed, handled>>

Resolved(c, value) ==
    SetClient(c, [step |-> "done", var |-> client[c].var, born |-> client[c].born,
                  owed |-> client[c].owed, value |-> value])

\* A read of the bucket: an error is taken for a miss.
Lookup(c, step, key, missed) ==
    /\ Busy(c, step)
    /\ \/ bucket[key] # 0 /\ Resolved(c, bucket[key])
       \/ /\ bucket[key] = 0 \/ "request" \in Faults
          /\ SetClient(c, [client[c] EXCEPT !.step = missed])
    /\ UNCHANGED inbox

\* The request for the value: nobody there is known at once.
Ask(c) ==
    /\ Busy(c, "ask")
    /\ \/ /\ Deliver(client[c].var,
                     Sent(Identity[Agent], "req", Channel(client[c].var),
                          [client |-> c, op |-> client[c].op], Tenant, Name))
          /\ SetClient(c, [client[c] EXCEPT !.step = "wait"])
       \/ /\ up = {}
          /\ Resolved(c, 0)
          /\ UNCHANGED inbox

TimeOut(c) == Busy(c, "wait") /\ Resolved(c, 0) /\ UNCHANGED inbox

Resolution(c) ==
    \/ Lookup(c, "session", SessionVarKey(client[c].var), "global")
    \/ Lookup(c, "global", VarKey(client[c].var), "ask")
    \/ Ask(c)
    \/ TimeOut(c)

UseHook ==
    /\ hooks < bounds.hooks
    /\ hooks' = hooks + 1
    /\ UNCHANGED <<bounds, life, alive, bucket, up, task, asks, plain, disturbed, handled>>

\* CallHook: a request without a time-out.  A nil map is read as an empty one.
CallHook(c, args) ==
    /\ client[c].step = "idle" /\ UseHook
    /\ \/ /\ Deliver("call", Sent(Identity[Agent], "req", Channel("call"),
                                  [client |-> c, op |-> asks + hooks + 1, args |-> args], Tenant, ""))
          /\ SetClient(c, [step |-> "called", op |-> asks + hooks + 1, args |-> args])
       \/ /\ up = {}
          /\ SetClient(c, [step |-> "answered", args |-> args, ok |-> FALSE])
          /\ UNCHANGED inbox

PublishEventHook(payload) ==
    /\ UseHook
    /\ \/ Deliver("event", Sent(Identity[Agent], "pub", Channel("event"),
                                [args |-> payload], Tenant, ""))
       \/ up = {} /\ UNCHANGED inbox
    /\ UNCHANGED client

\* The caller has what it asked for.
Return(c) ==
    /\ \E step \in {"done", "answered"} : Busy(c, step)
    /\ SetClient(c, Idle)
    /\ UNCHANGED inbox

-----------------------------------------------------------------------------
(* The replicas: one step of the loop of one subscription.                 *)

At(r, l, step) ==
    /\ r \in up /\ task[r][l].step = step
    /\ UNCHANGED <<bounds, life, alive, up, asks, hooks, plain>>

\* Mutant: the test of the variables' scope is inverted.
StartGlobal(r, l, m) ==
    IF Received(Identity[r], m) = NoEnvelope THEN Dead
    ELSE IF l = "lifecycle" THEN
         IF m.data.ch = ChLifecycle(Tenant, "deleted")
         THEN [step |-> "delete", life |-> m.data.payload, left |-> Variables \ Scoped]
         ELSE [step |-> "created", life |-> m.data.payload]
    ELSE [step |-> IF l \in Variables THEN "resolve" ELSE "check", msg |-> m]

\* What Next does with a message that it cannot verify or decode ends the loop, not the
\* subscription.
Start(r, l, m) ==
    IF Received(Identity[r], m) = NoEnvelope THEN Dead
    ELSE IF l = "lifecycle" THEN
         IF m.data.ch = ChLifecycle(Tenant, "deleted")
         THEN [step |-> "delete", life |-> m.data.payload, left |-> Scoped]
         ELSE [step |-> "created", life |-> m.data.payload]
    ELSE [step |-> IF l \in Variables THEN "resolve" ELSE "check", msg |-> m]

Take(r, l) ==
    /\ At(r, l, "idle")
    /\ inbox[r][l] # <<>>
    /\ inbox' = [inbox EXCEPT ![r][l] = Tail(@)]
    /\ SetTask(r, l, Start(r, l, Head(inbox[r][l])))
    /\ UNCHANGED <<bucket, client, disturbed, handled>>

\* Mutant: the first deletion that succeeds ends the loop over the variables.
DeleteFirst(r) ==
    /\ At(r, "lifecycle", "delete")
    /\ \E v \in task[r]["lifecycle"].left :
          /\ bucket' = [bucket EXCEPT ![SessionVarKey(v)] = 0]
          /\ SetTask(r, "lifecycle", Idle)
    /\ UNCHANGED <<inbox, client, disturbed, handled>>

\* DeleteSessionVariables, in the order of a map: a failure leaves the rest, and is not
\* looked at.  Then OnLifecycle gets the event; a handler of "deleted" writes nothing.
DeleteVariable(r) ==
    LET t == task[r]["lifecycle"]
    IN  /\ At(r, "lifecycle", "delete")
        /\ \/ \E v \in t.left :
                 /\ bucket' = [bucket EXCEPT ![SessionVarKey(v)] = 0]
                 /\ disturbed' = IF UnderWay(t.life, v) THEN disturbed \cup {t.life} ELSE disturbed
                 /\ SetTask(r, "lifecycle",
                            IF t.left = {v} THEN Idle ELSE [t EXCEPT !.left = t.left \ {v}])
           \/ /\ "request" \in Faults
              /\ disturbed' = disturbed \cup {t.life}
              /\ SetTask(r, "lifecycle", Idle)
              /\ UNCHANGED bucket
        /\ UNCHANGED <<inbox, client, handled>>

\* OnLifecycle of "created" may store the session's variables: SetSessionVariable.
Created(r) ==
    /\ At(r, "lifecycle", "created")
    /\ \/ UNCHANGED bucket
       \/ \E v \in Scoped :
             bucket' = [bucket EXCEPT ![SessionVarKey(v)] = task[r]["lifecycle"].life]
    /\ SetTask(r, "lifecycle", Idle)
    /\ UNCHANGED <<inbox, client, disturbed, handled>>

\* A resolver fails, which is not answered, or computes a value for the session's name.
Resolve(r, v) ==
    /\ At(r, v, "resolve")
    /\ \/ SetTask(r, v, Idle)
       \/ SetTask(r, v, [step |-> "store", msg |-> task[r][v].msg,
                         value |-> IF v \in Scoped THEN life ELSE GlobalValue])
    /\ UNCHANGED <<bucket, inbox, client, disturbed, handled>>

\* It may store what it has computed: SetSessionVariable or SetVariable.
Store(r, v) ==
    LET key == IF v \in Scoped THEN SessionVarKey(v) ELSE VarKey(v)
    IN  /\ At(r, v, "store")
        /\ \/ UNCHANGED bucket
           \/ bucket' = [bucket EXCEPT ![key] = task[r][v].value]
        /\ SetTask(r, v, [task[r][v] EXCEPT !.step = "reply"])
        /\ UNCHANGED <<inbox, client, disturbed, handled>>

\* A reply reaches the request it belongs to while that one waits for it.  Or it is never
\* sent: it cannot be marshalled, as a handler's data may be anything, or its publish fails;
\* no loop looks at that error.
Reply(r, l, to, payload) ==
    LET inboxOf == <<"_INBOX", to.client, to.op>>
        m == Sent(Identity[r], "pub", inboxOf, payload, Tenant, "")
        env == Received(Identity[Agent], m)
        c == to.client
        waits == client[c].step = "wait" /\ client[c].op = to.op
        called == client[c].step = "called" /\ client[c].op = to.op
    IN  \/ waits /\ Resolved(c, IF env = NoEnvelope THEN 0 ELSE env.payload.value)
        \/ called /\ SetClient(c, [step |-> "answered", args |-> client[c].args,
                                   ok |-> env # NoEnvelope /\ env.payload.ok])
        \/ called /\ SetClient(c, [step |-> "forsaken", op |-> client[c].op,
                                   args |-> client[c].args])
        \/ ~called /\ UNCHANGED client

Answer(r, v) ==
    /\ At(r, v, "reply")
    /\ Reply(r, v, task[r][v].msg.data.payload, [value |-> task[r][v].value])
    /\ SetTask(r, v, Idle)
    /\ UNCHANGED <<bucket, inbox, disturbed, handled>>

\* Mutant: invalid arguments are dropped, as those of an event hook.
CallDropped(r) ==
    /\ At(r, "call", "check")
    /\ LET msg == task[r]["call"].msg
       IN  IF validateHookSchema(CallSchema, msg.data.payload.args)
           THEN /\ handled' = handled \cup {msg}
                /\ Reply(r, "call", msg.data.payload, [ok |-> TRUE])
           ELSE UNCHANGED <<handled, client>>
    /\ SetTask(r, "call", Idle)
    /\ UNCHANGED <<bucket, inbox, disturbed>>

\* serveCallHooks: invalid arguments are answered without the handler; the handler may
\* refuse valid ones.
Call(r) ==
    /\ At(r, "call", "check")
    /\ LET msg == task[r]["call"].msg
       IN  IF validateHookSchema(CallSchema, msg.data.payload.args)
           THEN /\ handled' = handled \cup {msg}
                /\ \E ok \in BOOLEAN : Reply(r, "call", msg.data.payload, [ok |-> ok])
           ELSE /\ Reply(r, "call", msg.data.payload, [ok |-> FALSE])
                /\ UNCHANGED handled
    /\ SetTask(r, "call", Idle)
    /\ UNCHANGED <<bucket, inbox, disturbed>>

\* serveEventHooks: an invalid payload is dropped.
Event(r) ==
    /\ At(r, "event", "check")
    /\ LET msg == task[r]["event"].msg
       IN  handled' = IF validateHookSchema(EventSchema, msg.data.payload.args)
                      THEN handled \cup {msg} ELSE handled
    /\ SetTask(r, "event", Idle)
    /\ UNCHANGED <<bucket, inbox, client, disturbed>>

Loop(r, l) ==
    \/ Take(r, l)
    \/ l = "lifecycle" /\ (DeleteVariable(r) \/ Created(r))
    \/ l \in Variables /\ (Resolve(r, l) \/ Store(r, l) \/ Answer(r, l))
    \/ l = "call" /\ Call(r)
    \/ l = "event" /\ Event(r)

-----------------------------------------------------------------------------
(* Faults.                                                                 *)

\* A replica dies, with the deletions that it has taken.
Crash(r) ==
    /\ "crash" \in Faults /\ r \in up
    /\ up' = up \ {r}
    /\ inbox' = [inbox EXCEPT ![r] = [l \in Loops |-> <<>>]]
    /\ task' = [task EXCEPT ![r] = [l \in Loops |-> Idle]]
    /\ LET lost == {m \in Range(inbox[r]["lifecycle"]) : m.data.ch = ChLifecycle(Tenant, "deleted")}
           t == task[r]["lifecycle"]
       IN  disturbed' = disturbed \cup {m.data.payload : m \in lost}
                                  \cup (IF t.step = "delete" THEN {t.life} ELSE {})
    /\ UNCHANGED <<bounds, life, alive, bucket, client, asks, hooks, plain, handled>>

\* A bus without identity uses a hook, and signs nothing.
Plain(l) ==
    /\ "plain" \in Faults /\ ~plain
    /\ hooks < bounds.hooks
    /\ hooks' = hooks + 1 /\ plain' = TRUE
    /\ \E args \in Args : Deliver(l, Sent(NoIdentity, "pub", Channel(l), [args |-> args], Tenant, ""))
    /\ UNCHANGED <<bounds, life, alive, bucket, up, task, client, asks, disturbed, handled>>

-----------------------------------------------------------------------------
Next ==
    \/ Create \/ Delete
    \/ \E c \in Clients :
          \/ \E v \in Variables : ResolveVariable(c, v)
          \/ \E args \in Args : CallHook(c, args)
          \/ Resolution(c) \/ Return(c)
    \/ \E args \in Args : PublishEventHook(args)
    \/ \E r \in Replicas : Crash(r) \/ \E l \in Loops : Loop(r, l)
    \/ \E l \in {"call", "event"} : Plain(l)

Spec == Init /\ [][Next]_vars

-----------------------------------------------------------------------------
(* Properties.                                                             *)

\* A value of a life that is over stays in the bucket only until the deletion of its
\* variable, or something disturbed that deletion: a failed request, a crash, or a
\* resolver or handler of that life that was still at work.
CleanedUp ==
    \A v \in Variables :
        LET n == bucket[SessionVarKey(v)]
        IN  n \in Lives /\ (n = life => ~alive) => Pending(n, v) \/ n \in disturbed

\* What a session resolves is not of an earlier session of the same name, unless that
\* one's deletion had not been handled when the call began, or was disturbed.
NoInheritance ==
    \A c \in Clients :
        client[c].step = "done" =>
            LET n == client[c].value
            IN  n \in 1..(client[c].born - 1) => n \in client[c].owed \cup disturbed

\* Does validateHookSchema let nothing through that the schema does not describe?  With a
\* type that it does not know, or a keyword that it does not look at, it may.
Enforced(schema) == \A v \in Args : validateHookSchema(schema, v) => Conforms(schema, v)

\* The handlers of hooks are called with what their schema describes, and by a bus that
\* has the extension's secret only.
HandledConforms ==
    \A m \in handled :
        /\ m.header # NoHeader
        /\ Conforms(IF m.data.ch = Channel("event") THEN EventSchema ELSE CallSchema,
                    m.data.payload.args)

\* CallHook, which has no time-out, waits for a call that a replica has or is going to
\* take, unless one died, or got a message that ended one of its loops, or could not send
\* the answer.
CallsAreHeld ==
    \A c \in Clients :
        client[c].step = "called" =>
            \/ up # Replicas \/ plain
            \/ \E m \in Queued("call") \cup {t.msg : t \in {u \in Running("call") : u.step = "check"}} :
                  m.data.payload.client = c /\ m.data.payload.op = client[c].op
=============================================================================
