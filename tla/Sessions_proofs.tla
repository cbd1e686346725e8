-------------------------- MODULE Sessions_proofs ---------------------------
(***************************************************************************)
(* Theorems about the life of a session, for any number of replicas,       *)
(* clients, variables, lives, requests and hooks, under any faults.        *)
(*                                                                         *)
(* All of them take it that the agent and the replicas have an identity    *)
(* with one secret: what one of them sends, another one can read.          *)
(* WellFormedIsEnforced is about schemas and values alone, by induction    *)
(* over the depth of a value.                                              *)
(***************************************************************************)
EXTENDS Sessions, SequenceTheorems, WellFoundedInduction, TLAPS

OneSecret ==
    \A x \in Replicas \cup {Agent} :
        Identity[x] # NoIdentity /\ Identity[x].secret = Identity[Agent].secret

\* What is sent: a lifecycle event, the request for a variable, the call of a hook, and
\* what goes to the loops of hooks besides that.
LifeMsg(kind, n) == Sent(Identity[Agent], "pub", ChLifecycle(Tenant, kind), n, Tenant, "")
AskMsg(v, c, o) ==
    Sent(Identity[Agent], "req", Channel(v), [client |-> c, op |-> o], Tenant, Name)
CallMsg(c, o, a) ==
    Sent(Identity[Agent], "req", Channel("call"), [client |-> c, op |-> o, args |-> a], Tenant, "")
EventMsg(a) == Sent(Identity[Agent], "pub", Channel("event"), [args |-> a], Tenant, "")
PlainMsg(l, a) == Sent(NoIdentity, "pub", Channel(l), [args |-> a], Tenant, "")

Messages ==
    {LifeMsg(x[1], x[2]) : x \in {"created", "deleted"} \X Nat}
        \cup {AskMsg(x[1], x[2], x[3]) : x \in Variables \X Clients \X Nat}
        \cup {CallMsg(x[1], x[2], x[3]) : x \in Clients \X Nat \X Args}
        \cup {EventMsg(a) : a \in Args}
        \cup {PlainMsg(x[1], x[2]) : x \in {"call", "event"} \X Args}

-----------------------------------------------------------------------------
(* What is known of a message.                                             *)

\* A channel under the tenant has the tenant as its second token.
LEMMA UnderTenant ==
    ASSUME NEW S, NEW s \in Seq(S), s # <<>>, NEW ch, ch = TenantPrefix(Tenant) \o s
    PROVE  SubjectTenant(ch) = Tenant /\ Len(ch) = 2 + Len(s)
  <1>1. PICK T : T = S \cup {"abc", Tenant}
    OBVIOUS
  <1>2. PICK t : t = TenantPrefix(Tenant)
    OBVIOUS
  <1>3. t \in Seq(T) /\ Len(t) = 2 /\ t[1] = "abc" /\ t[2] = Tenant
    BY <1>1, <1>2 DEF TenantPrefix
  <1>4. s \in Seq(T) /\ Len(s) \in Nat /\ Len(s) > 0
    BY <1>1, LenProperties, EmptySeq
  <1>5. /\ Len(ch) = 2 + Len(s)
        /\ \A i \in 1..2 + Len(s) : ch[i] = IF i <= 2 THEN t[i] ELSE s[i - 2]
    <2>1. /\ Len(t \o s) = Len(t) + Len(s)
          /\ \A i \in 1..Len(t) + Len(s) :
                (t \o s)[i] = IF i <= Len(t) THEN t[i] ELSE s[i - Len(t)]
      BY <1>3, <1>4, ConcatProperties, Zenon
    <2> QED
      BY <1>2, <1>3, <2>1, Zenon
  <1>6. ch[1] = "abc" /\ ch[2] = Tenant /\ Len(ch) > 2
    BY <1>3, <1>4, <1>5
  <1>7. IsValidTenant(Tenant)
    BY DEF IsValidTenant, Tenant
  <1> QED
    BY <1>5, <1>6, <1>7 DEF SubjectTenant

\* The channels of this module, and the lifecycle events' kinds.
LEMMA ChannelsUnderTenant ==
    ASSUME NEW kind, NEW l
    PROVE  /\ SubjectTenant(ChLifecycle(Tenant, kind)) = Tenant
           /\ SubjectTenant(Channel(l)) = Tenant
           /\ ChLifecycle(Tenant, kind)[5] = kind
  <1>1. SubjectTenant(ChLifecycle(Tenant, kind)) = Tenant
    <2>1. PICK s : s = <<"session", "lifecycle", kind>>
      OBVIOUS
    <2>2. s \in Seq({"session", "lifecycle", kind}) /\ s # <<>>
      BY <2>1
    <2> QED
      BY <2>1, <2>2, UnderTenant DEF ChLifecycle
  <1>2. SubjectTenant(Channel(l)) = Tenant
    <2>1. PICK s : s = IF l = "call" THEN <<"hook", "call", ExtId, "hook">>
                       ELSE IF l = "event" THEN <<"hook", "event", "hook">>
                       ELSE <<"var", ExtId, l>>
      OBVIOUS
    <2>2. s \in Seq({"hook", "call", "event", "var", ExtId, l}) /\ s # <<>>
      <3>1. <<"hook", "call", ExtId, "hook">> \in Seq({"hook", "call", "event", "var", ExtId, l})
        OBVIOUS
      <3>2. <<"hook", "event", "hook">> \in Seq({"hook", "call", "event", "var", ExtId, l})
        OBVIOUS
      <3>3. <<"var", ExtId, l>> \in Seq({"hook", "call", "event", "var", ExtId, l})
        OBVIOUS
      <3>4. /\ Len(<<"hook", "call", ExtId, "hook">>) # 0 /\ Len(<<"hook", "event", "hook">>) # 0
            /\ Len(<<"var", ExtId, l>>) # 0 /\ Len(<<>>) = 0
        OBVIOUS
      <3> QED
        BY <2>1, <3>1, <3>2, <3>3, <3>4, Zenon
    <2>3. Channel(l) = TenantPrefix(Tenant) \o s
      BY <2>1 DEF Channel, ChHookCall, ChHookEvent, ChVariable
    <2> QED
      BY <2>2, <2>3, UnderTenant
  <1>3. ChLifecycle(Tenant, kind)[5] = kind
    <2>1. PICK T : T = {"abc", Tenant, "session", "lifecycle", kind}
      OBVIOUS
    <2>2. PICK s, t : s = <<"session", "lifecycle", kind>> /\ t = TenantPrefix(Tenant)
      OBVIOUS
    <2>3. s \in Seq(T) /\ Len(s) = 3 /\ s[3] = kind
      BY <2>1, <2>2
    <2>4. t \in Seq(T) /\ Len(t) = 2
      BY <2>1, <2>2 DEF TenantPrefix
    <2>5. \A i \in 1..Len(t) + Len(s) :
             (t \o s)[i] = IF i <= Len(t) THEN t[i] ELSE s[i - Len(t)]
      BY <2>3, <2>4, ConcatProperties, Zenon
    <2>6. (t \o s)[5] = s[3]
      <3>1. 5 \in 1..Len(t) + Len(s) /\ ~(5 <= Len(t)) /\ 5 - Len(t) = 3
        BY <2>3, <2>4
      <3> QED
        BY <2>5, <3>1, Zenon
    <2> QED
      BY <2>2, <2>3, <2>6 DEF ChLifecycle
  <1> QED
    BY <1>1, <1>2, <1>3

\* A message has a channel and a payload, and is read by everybody who has the secret.
Carries(m, ch, payload) ==
    /\ m.data.payload = payload /\ m.data.ch = ch /\ m.header # NoHeader
    /\ \A x \in Replicas \cup {Agent} :
          Received(Identity[x], m) = m.data /\ Received(Identity[x], m) # NoEnvelope

\* A subject is of the tenant or of none.
Domestic(ch) == SubjectTenant(ch) # "" => SubjectTenant(ch) = Tenant

\* What one with the secret sends on a channel of the tenant, or of nobody, another one reads.
LEMMA SentIsReceived ==
    ASSUME OneSecret, NEW y \in Replicas \cup {Agent}, NEW kind, NEW ch, NEW payload,
           NEW session, Domestic(ch), payload # NilPayload
    PROVE  Carries(Sent(Identity[y], kind, ch, payload, Tenant, session), ch, payload)
  <1>1. PICK m : m = Sent(Identity[y], kind, ch, payload, Tenant, session)
    OBVIOUS
  <1>2. PICK d : d = buildEnvelope(kind, ch, payload, tenantOf(ch, Tenant), "", session)
    OBVIOUS
  <1>3. /\ d.payload = payload /\ d.ch = ch /\ d.kind = kind /\ d.tenant = Tenant
        /\ d.id = ""
    BY <1>2 DEF buildEnvelope, tenantOf, Tenant
  <1>9. d.v = 2
    BY <1>2 DEF buildEnvelope
  <1>10. PICK i, g : i = Identity[y].id
                     /\ g = sign(Identity[y], Fields(d, ch, kind, "", payload))
    OBVIOUS
  <1>4. m.data = d /\ m.subject = ch /\ m.header = [id |-> i, sig |-> g]
    BY <1>1, <1>2, <1>10 DEF Sent, signMsg, OneSecret
  <1>5. m.header # NoHeader
    <2>1. PICK u, w : g = <<u, w>>
      BY <1>10 DEF sign
    <2>2. <<u, w>> # <<>>
      OBVIOUS
    <2>3. m.header.sig = g
      BY <1>4
    <2>4. NoHeader.sig = <<>>
      BY DEF NoHeader
    <2> QED
      BY <2>1, <2>2, <2>3, <2>4
  <1>6. ASSUME NEW x \in Replicas \cup {Agent} PROVE verifyMsg(Identity[x], m)
    <2>1. Identity[x].secret = Identity[y].secret
      BY DEF OneSecret
    <2>2. m.header.id = i /\ m.header.sig = g
      BY <1>4
    <2>3. Fields(m.data, m.subject, m.data.kind, m.data.id, m.data.payload)
             = Fields(d, ch, kind, "", payload)
      BY <1>3, <1>4, Zenon
    <2>4. \A f : sign([id |-> Identity[y].id, secret |-> Identity[x].secret], f)
                   = sign(Identity[y], f)
      BY <2>1 DEF sign
    <2> QED
      BY <1>5, <1>10, <2>2, <2>3, <2>4, Zenon DEF verifyMsg
  <1>7. decode(m) = d
    BY <1>3, <1>4, <1>9 DEF decode, Domestic
  <1>8. d # NoEnvelope
    <2>1. NoEnvelope.v = 0
      BY DEF NoEnvelope
    <2> QED
      BY <1>9, <2>1
  <1> QED
    BY <1>1, <1>3, <1>4, <1>5, <1>6, <1>7, <1>8 DEF Received, Carries

\* What a bus without identity sends is refused by a replica.
LEMMA PlainIsRefused ==
    ASSUME OneSecret, NEW x \in Replicas \cup {Agent}, NEW l, NEW a
    PROVE  Received(Identity[x], PlainMsg(l, a)) = NoEnvelope
  <1>1. PlainMsg(l, a).header = NoHeader
    BY DEF PlainMsg, Sent, signMsg
  <1>2. ~verifyMsg(Identity[x], PlainMsg(l, a))
    BY <1>1 DEF verifyMsg, OneSecret
  <1> QED
    BY <1>2 DEF Received

\* So the messages of the agent tell what they are.
LEMMA LifeMsgIs ==
    ASSUME OneSecret, NEW kind \in {"created", "deleted"}, NEW n \in Nat
    PROVE  LET m == LifeMsg(kind, n)
           IN  /\ m \in Messages /\ m.data.payload = n
               /\ m.data.ch = ChLifecycle(Tenant, "deleted") <=> kind = "deleted"
               /\ m.data.ch = ChLifecycle(Tenant, "created") <=> kind = "created"
               /\ \A r \in Replicas : Received(Identity[r], m) # NoEnvelope
  <1>1. n # NilPayload
    BY ConstantsAssumption
  <1>2. /\ LifeMsg(kind, n).data.payload = n
        /\ LifeMsg(kind, n).data.ch = ChLifecycle(Tenant, kind)
        /\ \A r \in Replicas : Received(Identity[r], LifeMsg(kind, n)) # NoEnvelope
    <2>1. Domestic(ChLifecycle(Tenant, kind))
      BY ChannelsUnderTenant DEF Domestic
    <2>0. Agent \in Replicas \cup {Agent}
      OBVIOUS
    <2>2. LifeMsg(kind, n) = Sent(Identity[Agent], "pub", ChLifecycle(Tenant, kind), n, Tenant, "")
      BY DEF LifeMsg
    <2>3. Carries(LifeMsg(kind, n), ChLifecycle(Tenant, kind), n)
      BY <1>1, <2>0, <2>1, <2>2, SentIsReceived
    <2> QED
      BY <2>3 DEF Carries
  <1>3. LifeMsg(kind, n) \in Messages
    <2>1. <<kind, n>> \in {"created", "deleted"} \X Nat
      OBVIOUS
    <2> QED
      BY <2>1 DEF Messages
  <1>4. \A k : ChLifecycle(Tenant, k)[5] = k
    BY ChannelsUnderTenant
  <1> QED
    BY <1>2, <1>3, <1>4

\* The request for a variable: what it carries, and that a replica reads it.
LEMMA AskMsgIs ==
    ASSUME OneSecret, NEW v \in Variables, NEW c \in Clients, NEW o \in Nat
    PROVE  LET m == AskMsg(v, c, o)
           IN  /\ m \in Messages /\ m.data.payload.client = c /\ m.data.payload.op = o
               /\ \A r \in Replicas : Received(Identity[r], m) # NoEnvelope
  <1>1. PICK p : p = [client |-> c, op |-> o]
    OBVIOUS
  <1>2. p \in [client : Clients, op : Nat] /\ p # NilPayload
    BY <1>1, ConstantsAssumption
  <1>3. /\ AskMsg(v, c, o).data.payload = p
        /\ \A r \in Replicas : Received(Identity[r], AskMsg(v, c, o)) # NoEnvelope
    <2>1. Domestic(Channel(v))
      BY ChannelsUnderTenant DEF Domestic
    <2>0. Agent \in Replicas \cup {Agent}
      OBVIOUS
    <2>2. AskMsg(v, c, o) = Sent(Identity[Agent], "req", Channel(v), p, Tenant, Name)
      BY <1>1 DEF AskMsg
    <2>3. Carries(AskMsg(v, c, o), Channel(v), p)
      BY <1>2, <2>0, <2>1, <2>2, SentIsReceived
    <2> QED
      BY <2>3 DEF Carries
  <1>4. AskMsg(v, c, o) \in Messages
    <2>1. <<v, c, o>> \in Variables \X Clients \X Nat
      OBVIOUS
    <2> QED
      BY <2>1 DEF Messages
  <1> QED
    BY <1>1, <1>3, <1>4

\* The call of a hook: what it carries, and that a replica reads it.
LEMMA CallMsgIs ==
    ASSUME OneSecret, NEW c \in Clients, NEW o \in Nat, NEW a \in Args
    PROVE  LET m == CallMsg(c, o, a)
           IN  /\ m \in Messages /\ m.data.payload.client = c /\ m.data.payload.op = o
               /\ \A r \in Replicas : Received(Identity[r], m) # NoEnvelope
  <1>1. PICK p : p = [client |-> c, op |-> o, args |-> a]
    OBVIOUS
  <1>2. p \in [client : Clients, op : Nat, args : Args] /\ p # NilPayload
    BY <1>1, ConstantsAssumption
  <1>3. /\ CallMsg(c, o, a).data.payload = p
        /\ \A r \in Replicas : Received(Identity[r], CallMsg(c, o, a)) # NoEnvelope
    <2>1. Domestic(Channel("call"))
      BY ChannelsUnderTenant DEF Domestic
    <2>0. Agent \in Replicas \cup {Agent}
      OBVIOUS
    <2>2. CallMsg(c, o, a) = Sent(Identity[Agent], "req", Channel("call"), p, Tenant, "")
      BY <1>1 DEF CallMsg
    <2>3. Carries(CallMsg(c, o, a), Channel("call"), p)
      BY <1>2, <2>0, <2>1, <2>2, SentIsReceived
    <2> QED
      BY <2>3 DEF Carries
  <1>4. CallMsg(c, o, a) \in Messages
    <2>1. <<c, o, a>> \in Clients \X Nat \X Args
      OBVIOUS
    <2> QED
      BY <2>1 DEF Messages
  <1> QED
    BY <1>1, <1>3, <1>4

-----------------------------------------------------------------------------
(* Types, and what is where.                                               *)

Tasks ==
    {Idle, Dead}
        \cup [step : {"delete"}, life : Nat, left : SUBSET Variables]
        \cup [step : {"created"}, life : Nat]
        \cup [step : {"resolve", "check"}, msg : Messages]
        \cup [step : {"store", "reply"}, msg : Messages, value : Nat]

Calls ==
    {Idle}
        \cup [step : {"session", "global", "ask", "wait"}, var : Variables, op : Nat,
              born : Nat, owed : SUBSET Nat]
        \cup [step : {"done"}, var : Variables, born : Nat, owed : SUBSET Nat, value : Nat]
        \cup [step : {"called", "forsaken"}, op : Nat, args : Args]
        \cup [step : {"answered"}, args : Args, ok : BOOLEAN]

Typed ==
    /\ bounds \in Bounds /\ life \in 0..bounds.lives /\ alive \in BOOLEAN
    /\ alive = TRUE => life # 0
    /\ bucket \in [Keys -> Nat]
    /\ up \subseteq Replicas
    /\ inbox \in [Replicas -> [Loops -> Seq(Messages)]]
    /\ task \in [Replicas -> [Loops -> Tasks]]
    /\ client \in [Clients -> Calls]
    /\ asks \in Nat /\ hooks \in Nat /\ plain \in BOOLEAN

\* A loop has messages of its subscription only; those that have been received come from
\* the agent.
Fits(l, m) ==
    /\ l = "lifecycle" => \E kind \in {"created", "deleted"}, n \in 1..life : m = LifeMsg(kind, n)
    /\ l \in Variables => \E c \in Clients, o \in 1..asks + hooks : m = AskMsg(l, c, o)
    /\ l = "call" => \E c \in Clients, o \in 1..asks + hooks, a \in Args : m = CallMsg(c, o, a)

FitsTask(l, t) ==
    /\ t.step \in {"delete", "created"} => l = "lifecycle" /\ t.life \in 1..life
    /\ t.step = "delete" => t.left \subseteq Scoped
    /\ t.step \in {"resolve", "store", "reply"} => l \in Variables /\ Fits(l, t.msg)
    /\ t.step = "check" => l \in {"call", "event"} /\ Fits(l, t.msg)

Foreign(l, m) == plain = TRUE /\ l = "call" /\ \E a \in Args : m = PlainMsg(l, a)

Posted ==
    \A r \in Replicas, l \in Loops :
        /\ \A m \in Range(inbox[r][l]) : Fits(l, m) \/ Foreign(l, m)
        /\ FitsTask(l, task[r][l])

\* What is in the bucket, or on its way to it, was computed in some life.
Known(v, n) == IF v \in Scoped THEN n \in 0..life ELSE n = GlobalValue
Valued ==
    /\ \A v \in Variables : bucket[VarKey(v)] \in {0, GlobalValue}
    /\ \A v \in Variables : bucket[SessionVarKey(v)] \in 0..life
    /\ \A v \in Variables \ Scoped : bucket[SessionVarKey(v)] = 0
    /\ \A r \in Replicas, v \in Variables :
          task[r][v].step \in {"store", "reply"} => Known(v, task[r][v].value)

-----------------------------------------------------------------------------
(* The lives that are over.                                                *)

\* A replica is going to delete a variable of a life, or to store something of that life.
ToDelete(r, n, v) ==
    LET t == task[r]["lifecycle"]
    IN  \/ LifeMsg("deleted", n) \in Range(inbox[r]["lifecycle"])
        \/ t.step = "delete" /\ t.life = n /\ v \in t.left
ToCreate(r, n) ==
    LET t == task[r]["lifecycle"]
    IN  \/ LifeMsg("created", n) \in Range(inbox[r]["lifecycle"])
        \/ t.step = "created" /\ t.life = n
ToStore(r, n, v) == task[r][v].step = "store" /\ task[r][v].value = n
Asking(c, v) == client[c].step \in {"session", "global", "ask"} /\ client[c].var = v
Computing(r, v) == Range(inbox[r][v]) # {} \/ task[r][v].step \in {"resolve", "store"}

\* Nothing of a life that is over is left, nor will anything come.
Clean(n, v) ==
    /\ bucket[SessionVarKey(v)] # n
    /\ \A r \in up : ~ToCreate(r, n) /\ ~ToStore(r, n, v)
    /\ n = life => /\ \A c \in Clients : ~Asking(c, v)
                   /\ \A r \in up : ~Computing(r, v)

Swept ==
    \A n \in 1..life, v \in Scoped :
        (n = life => ~alive) =>
            n \in disturbed \/ (\E r \in up : ToDelete(r, n, v)) \/ Clean(n, v)

-----------------------------------------------------------------------------
(* The calls of the agent.                                                 *)

\* Is a request of a client in a loop?  Has it been computed?
Asked(r, v, c, o) ==
    LET t == task[r][v]
    IN  \/ AskMsg(v, c, o) \in Range(inbox[r][v])
        \/ t.step \in {"resolve", "store", "reply"} /\ t.msg = AskMsg(v, c, o)
Called(r, c, o) ==
    LET t == task[r]["call"]
    IN  \E a \in Args : \/ CallMsg(c, o, a) \in Range(inbox[r]["call"])
                        \/ t.step = "check" /\ t.msg = CallMsg(c, o, a)

\* A call has a number of its own; what it waits for was computed after it was made; and
\* what it has is not of a life before it, but for the excuses.
CallInv(c) ==
    LET k == client[c]
    IN  /\ k.step \in {"session", "global", "ask", "wait", "called"} =>
              k.op \in 1..asks + hooks
        /\ k.step \in {"session", "global", "ask", "wait"} =>
              \A r \in Replicas : ~Called(r, c, k.op)
        /\ k.step \in {"session", "global", "ask", "called"} =>
              \A r \in Replicas, v \in Variables : ~Asked(r, v, c, k.op)
        /\ k.step = "wait" =>
              \A r \in Replicas, v \in Variables :
                  task[r][v].step \in {"store", "reply"} /\ task[r][v].msg = AskMsg(v, c, k.op)
                      => task[r][v].value >= k.born
        /\ k.step \in {"session", "global", "ask", "wait", "done"} => k.born \in 1..life
        /\ k.step = "session" =>
              \A n \in 1..k.born - 1 :
                  (\E r \in up : ToDelete(r, n, k.var)) => n \in k.owed
        /\ k.step = "done" =>
              (k.value \in 1..k.born - 1 => k.value \in k.owed \cup disturbed)
        /\ k.step = "called" =>
              up # Replicas \/ plain \/ \E r \in Replicas : Called(r, c, k.op)

Formed == Typed /\ Posted /\ Valued

-----------------------------------------------------------------------------
(* What the steps do to inboxes, tasks and clients.                        *)

\* The loops are the three of the extension and those of the variables.
LEMMA LoopsAre ==
    /\ {"lifecycle", "call", "event"} \subseteq Loops /\ Variables \subseteq Loops
    /\ \A v \in Variables : v \notin {"lifecycle", "call", "event"}
    /\ \A l \in Loops : l \in Variables \/ l \in {"lifecycle", "call", "event"}
    /\ Scoped \subseteq Variables
  BY ConstantsAssumption DEF Loops

\* Elsewhere than in one loop of one replica nothing happens.
Elsewhere(r, l) ==
    \A q \in Replicas, k \in Loops :
        q # r \/ k # l => inbox'[q][k] = inbox[q][k] /\ task'[q][k] = task[q][k]

\* A message in an inbox.
LEMMA Queueing ==
    ASSUME inbox \in [Replicas -> [Loops -> Seq(Messages)]],
           NEW r \in Replicas, NEW l \in Loops, NEW m \in Messages,
           inbox' = [inbox EXCEPT ![r][l] = Append(@, m)]
    PROVE  /\ inbox' \in [Replicas -> [Loops -> Seq(Messages)]]
           /\ Range(inbox'[r][l]) = Range(inbox[r][l]) \cup {m}
           /\ \A q \in Replicas, k \in Loops : q # r \/ k # l => inbox'[q][k] = inbox[q][k]
  <1>1. PICK s : s = inbox[r][l]
    OBVIOUS
  <1>2. s \in Seq(Messages) /\ Append(s, m) \in Seq(Messages)
    BY <1>1
  <1>3. inbox'[r][l] = Append(s, m)
    BY <1>1
  <1>4. \A q \in Replicas, k \in Loops : q # r \/ k # l => inbox'[q][k] = inbox[q][k]
    OBVIOUS
  <1>5. inbox' \in [Replicas -> [Loops -> Seq(Messages)]]
    BY <1>1, <1>2
  <1>6. Range(Append(s, m)) = Range(s) \cup {m}
    <2>1. /\ Len(s) \in Nat /\ Len(Append(s, m)) = Len(s) + 1
          /\ \A i \in 1..Len(s) : Append(s, m)[i] = s[i]
          /\ Append(s, m)[Len(s) + 1] = m
      BY <1>2, AppendProperties, LenProperties
    <2>2. DOMAIN s = 1..Len(s) /\ DOMAIN Append(s, m) = 1..Len(s) + 1
      BY <1>2, <2>1, LenProperties
    <2>3. 1..Len(s) + 1 = 1..Len(s) \cup {Len(s) + 1}
      BY <2>1
    <2> QED
      BY <2>1, <2>2, <2>3 DEF Range
  <1> QED
    BY <1>1, <1>3, <1>4, <1>5, <1>6

\* The first message out of an inbox.
LEMMA Taking ==
    ASSUME inbox \in [Replicas -> [Loops -> Seq(Messages)]],
           NEW r \in Replicas, NEW l \in Loops, inbox[r][l] # <<>>,
           inbox' = [inbox EXCEPT ![r][l] = Tail(@)]
    PROVE  /\ inbox' \in [Replicas -> [Loops -> Seq(Messages)]]
           /\ Head(inbox[r][l]) \in Messages
           /\ Range(inbox[r][l]) = Range(inbox'[r][l]) \cup {Head(inbox[r][l])}
           /\ \A q \in Replicas, k \in Loops : q # r \/ k # l => inbox'[q][k] = inbox[q][k]
  <1>1. PICK s : s = inbox[r][l]
    OBVIOUS
  <1>2. s \in Seq(Messages) /\ s # <<>> /\ Tail(s) \in Seq(Messages)
    BY <1>1, HeadTailProperties
  <1>3. inbox'[r][l] = Tail(s)
    BY <1>1
  <1>4. \A q \in Replicas, k \in Loops : q # r \/ k # l => inbox'[q][k] = inbox[q][k]
    OBVIOUS
  <1>5. inbox' \in [Replicas -> [Loops -> Seq(Messages)]]
    BY <1>1, <1>2
  <1>6. Range(s) = Range(Tail(s)) \cup {Head(s)} /\ Head(s) \in Messages
    <2>1. /\ Len(s) \in Nat /\ Len(s) >= 1 /\ Len(Tail(s)) = Len(s) - 1 /\ Head(s) = s[1]
          /\ \A i \in 1..Len(s) - 1 : Tail(s)[i] = s[i + 1]
      BY <1>2, HeadTailProperties, LenProperties, EmptySeq
    <2>2. DOMAIN s = 1..Len(s) /\ DOMAIN Tail(s) = 1..Len(s) - 1
      BY <1>2, <2>1, LenProperties
    <2>3. \A i \in 1..Len(s) : i = 1 \/ (i - 1 \in 1..Len(s) - 1 /\ s[i] = Tail(s)[i - 1])
      BY <2>1
    <2>4. \A i \in 1..Len(s) - 1 : i + 1 \in 1..Len(s)
      BY <2>1
    <2>5. 1 \in 1..Len(s)
      BY <2>1
    <2> QED
      <3>1. Range(s) = {s[i] : i \in 1..Len(s)}
        BY <2>2 DEF Range
      <3>2. Range(Tail(s)) = {Tail(s)[i] : i \in 1..Len(s) - 1}
        BY <2>2 DEF Range
      <3>3. Range(Tail(s)) \subseteq Range(s)
        BY <2>1, <2>4, <3>1, <3>2
      <3>4. Range(s) \subseteq Range(Tail(s)) \cup {s[1]}
        BY <2>3, <3>1, <3>2
      <3>5. s[1] \in Range(s) /\ s[1] \in Messages
        BY <1>2, <2>5, <3>1, ElementOfSeq
      <3> QED
        BY <2>1, <3>3, <3>4, <3>5
  <1> QED
    BY <1>1, <1>3, <1>4, <1>5, <1>6

\* What SetTask does.
LEMMA Tasking ==
    ASSUME task \in [Replicas -> [Loops -> Tasks]],
           NEW r \in Replicas, NEW l \in Loops, NEW t \in Tasks, SetTask(r, l, t)
    PROVE  /\ task' \in [Replicas -> [Loops -> Tasks]] /\ task'[r][l] = t
           /\ \A q \in Replicas, k \in Loops : q # r \/ k # l => task'[q][k] = task[q][k]
  BY DEF SetTask

\* An empty inbox has no messages.
LEMMA EmptyRange == ASSUME NEW s, s = <<>> PROVE Range(s) = {}
  BY DEF Range

-----------------------------------------------------------------------------
(* Types hold, and what is where is as it should be.                       *)

\* The counters are numbers.
LEMMA NumbersAre ==
    ASSUME Typed
    PROVE  /\ bounds.lives \in Nat /\ life \in Nat /\ life <= bounds.lives
           /\ asks \in Nat /\ hooks \in Nat /\ asks + hooks \in Nat
  <1>1. bounds \in [lives : Nat, asks : Nat, asked : SUBSET Variables, hooks : Nat]
    BY ConstantsAssumption DEF Typed
  <1>2. bounds.lives \in Nat
    BY <1>1
  <1>3. life \in 0..bounds.lives
    BY DEF Typed
  <1>4. asks \in Nat /\ hooks \in Nat
    BY DEF Typed
  <1>5. life \in Nat /\ life <= bounds.lives
    BY <1>2, <1>3
  <1> QED
    BY <1>2, <1>4, <1>5

\* What fits a loop goes on to fit it: the numbers only grow.
LEMMA FitsStill ==
    ASSUME life' >= life, asks' + hooks' >= asks + hooks, life \in Nat, life' \in Nat,
           asks + hooks \in Nat, asks' + hooks' \in Nat
    PROVE  /\ \A l, m : Fits(l, m) => Fits(l, m)'
           /\ \A l, t : FitsTask(l, t) => FitsTask(l, t)'
  <1>1. 1..life \subseteq 1..life' /\ 1..asks + hooks \subseteq 1..asks' + hooks'
    OBVIOUS
  <1>2. \A l, m : Fits(l, m) => Fits(l, m)'
    BY <1>1 DEF Fits
  <1> QED
    BY <1>1, <1>2 DEF FitsTask

\* Sums of numbers are numbers.
LEMMA SumIsNat == ASSUME NEW a \in Nat, NEW b \in Nat PROVE a + b \in Nat
  OBVIOUS

\* A step that leaves every task as it is, or with one that fits, and that sends only what fits.
LEMMA PostedStill ==
    ASSUME Typed, Posted, life' >= life, asks' + hooks' >= asks + hooks, life' \in Nat,
           asks' \in Nat, hooks' \in Nat, plain = TRUE => plain' = TRUE,
           \A r \in Replicas, l \in Loops :
               /\ \A m \in Range(inbox'[r][l]) :
                     m \in Range(inbox[r][l]) \/ Fits(l, m)' \/ Foreign(l, m)'
               /\ task'[r][l] = task[r][l] \/ FitsTask(l, task[r][l])'
    PROVE  Posted'
  <1>0. asks' + hooks' \in Nat
    BY SumIsNat
  <1>1. life \in Nat /\ asks + hooks \in Nat
    BY NumbersAre
  <1>2. /\ \A l, m : Fits(l, m) => Fits(l, m)'
        /\ \A l, t : FitsTask(l, t) => FitsTask(l, t)'
    BY <1>0, <1>1, FitsStill
  <1>3. \A l, m : Foreign(l, m) => Foreign(l, m)'
    BY DEF Foreign, PlainMsg
  <1>4. ASSUME NEW r \in Replicas, NEW l \in Loops
        PROVE  /\ \A m \in Range(inbox'[r][l]) : Fits(l, m)' \/ Foreign(l, m)'
               /\ FitsTask(l, task[r][l])'
    <2>1. PICK t : t = task[r][l]
      OBVIOUS
    <2>2. FitsTask(l, t)' /\ \A m \in Range(inbox[r][l]) : Fits(l, m) \/ Foreign(l, m)
      BY <1>2, <2>1 DEF Posted
    <2>3. task'[r][l] = t => FitsTask(l, task[r][l])'
      BY <2>2 DEF FitsTask
    <2> QED
      BY <1>2, <1>3, <2>1, <2>2, <2>3
  <1> QED
    BY <1>4 DEF Posted

\* A step that leaves bucket and tasks alone.
LEMMA ValuedStill ==
    ASSUME Typed, Valued, UNCHANGED <<bounds, bucket, task>>, life' >= life, life' \in Nat
    PROVE  Valued'
  <1>1. life \in Nat /\ 0..life \subseteq 0..life'
    BY NumbersAre
  <1>2. GlobalValue' = GlobalValue
    BY DEF GlobalValue
  <1> QED
    BY <1>1, <1>2 DEF Valued, Known

\* Steps of the agent, and of a bus without identity: a message is delivered, or none.
LEMMA FormedSending ==
    ASSUME Formed, UNCHANGED <<bounds, bucket, up, task>>,
           life' \in life..bounds.lives, alive' \in BOOLEAN, client' \in [Clients -> Calls],
           alive' = TRUE => life' # 0,
           asks' \in Nat, hooks' \in Nat, asks' + hooks' >= asks + hooks,
           plain' \in BOOLEAN, plain = TRUE => plain' = TRUE,
           NEW l \in Loops, NEW m \in Messages,
           UNCHANGED inbox \/ (Deliver(l, m) /\ (Fits(l, m)' \/ Foreign(l, m)'))
    PROVE  Formed'
  <1>1. life \in Nat /\ bounds.lives \in Nat /\ life' \in Nat /\ life' >= life
        /\ life' \in 0..bounds'.lives
    BY NumbersAre DEF Formed
  <1>2. inbox \in [Replicas -> [Loops -> Seq(Messages)]] /\ up \subseteq Replicas
    BY DEF Formed, Typed
  <1>3. /\ inbox' \in [Replicas -> [Loops -> Seq(Messages)]]
        /\ \A r \in Replicas, k \in Loops : \A x \in Range(inbox'[r][k]) :
              x \in Range(inbox[r][k]) \/ Fits(k, x)' \/ Foreign(k, x)'
    <2>1. CASE UNCHANGED inbox
      BY <1>2, <2>1
    <2>2. CASE Deliver(l, m) /\ (Fits(l, m)' \/ Foreign(l, m)')
      <3>1. PICK r \in Replicas : inbox' = [inbox EXCEPT ![r][l] = Append(@, m)]
        BY <1>2, <2>2 DEF Deliver
      <3>2. /\ inbox' \in [Replicas -> [Loops -> Seq(Messages)]]
            /\ Range(inbox'[r][l]) = Range(inbox[r][l]) \cup {m}
            /\ \A q \in Replicas, k \in Loops : q # r \/ k # l => inbox'[q][k] = inbox[q][k]
        BY <1>2, <3>1, Queueing
      <3>3. ASSUME NEW q \in Replicas, NEW k \in Loops, NEW x \in Range(inbox'[q][k])
            PROVE  x \in Range(inbox[q][k]) \/ Fits(k, x)' \/ Foreign(k, x)'
        BY <2>2, <3>2, <3>3
      <3> QED
        BY <3>2, <3>3
    <2> QED
      BY <2>1, <2>2
  <1>4. Typed'
    BY <1>1, <1>3 DEF Formed, Typed
  <1>5. Posted'
    BY <1>1, <1>3, PostedStill DEF Formed
  <1>6. Valued'
    BY <1>1, ValuedStill DEF Formed
  <1> QED
    BY <1>4, <1>5, <1>6 DEF Formed

\* Steps of a loop.
LEMMA FormedLoop ==
    ASSUME Formed, NEW r \in Replicas, NEW l \in Loops, NEW t \in Tasks, SetTask(r, l, t),
           FitsTask(l, t), UNCHANGED <<bounds, life, alive, up, asks, hooks, plain>>,
           inbox' \in [Replicas -> [Loops -> Seq(Messages)]],
           \A q \in Replicas, k \in Loops : Range(inbox'[q][k]) \subseteq Range(inbox[q][k]),
           client' \in [Clients -> Calls], bucket' \in [Keys -> Nat], Valued'
    PROVE  Formed'
  <1>1. /\ task' \in [Replicas -> [Loops -> Tasks]] /\ task'[r][l] = t
        /\ \A q \in Replicas, k \in Loops : q # r \/ k # l => task'[q][k] = task[q][k]
    BY Tasking DEF Formed, Typed
  <1>2. FitsTask(l, t)'
    BY DEF FitsTask, Fits
  <1>3. Typed'
    BY <1>1 DEF Formed, Typed
  <1>4. Posted'
    <2>1. life \in Nat /\ asks \in Nat /\ hooks \in Nat
      BY NumbersAre DEF Formed
    <2>4. /\ life' \in Nat /\ asks' \in Nat /\ hooks' \in Nat
          /\ life' >= life /\ asks' + hooks' >= asks + hooks
      BY <2>1
    <2>5. plain = TRUE => plain' = TRUE
      OBVIOUS
    <2>6. \A q \in Replicas, k \in Loops : \A m \in Range(inbox'[q][k]) : m \in Range(inbox[q][k])
      OBVIOUS
    <2>3. \A k : task'[r][k] = t /\ k = l => FitsTask(k, task[r][k])'
      BY <1>2 DEF FitsTask
    <2>2. \A q \in Replicas, k \in Loops :
             task'[q][k] = task[q][k] \/ FitsTask(k, task[q][k])'
      BY <1>1, <2>3
    <2> QED
      BY <2>2, <2>4, <2>5, <2>6, PostedStill DEF Formed
  <1> QED
    BY <1>3, <1>4 DEF Formed

\* A step tells the form of a task or call.
LEMMA TaskForms ==
    ASSUME NEW t \in Tasks
    PROVE  /\ t.step = "delete" => t \in [step : {"delete"}, life : Nat, left : SUBSET Variables]
           /\ t.step = "created" => t \in [step : {"created"}, life : Nat]
           /\ t.step \in {"resolve", "check"} => t \in [step : {"resolve", "check"}, msg : Messages]
           /\ t.step \in {"store", "reply"} =>
                  t \in [step : {"store", "reply"}, msg : Messages, value : Nat]
  BY DEF Tasks, Idle, Dead

Open == {"session", "global", "ask", "wait"}
OpenCalls == [step : Open, var : Variables, op : Nat, born : Nat, owed : SUBSET Nat]
DoneCalls == [step : {"done"}, var : Variables, born : Nat, owed : SUBSET Nat, value : Nat]
CalledCalls == [step : {"called"}, op : Nat, args : Args]

\* A step tells the form of a call.
LEMMA CallForms ==
    ASSUME NEW k \in Calls
    PROVE  /\ k.step \in Open => k \in OpenCalls
           /\ k.step = "done" => k \in DoneCalls
           /\ k.step = "called" => k \in CalledCalls
           /\ k.step \in Open \cup {"idle", "done", "called", "forsaken", "answered"}
  BY DEF Calls, Idle, Open, OpenCalls, DoneCalls, CalledCalls

\* What SetClient does.
LEMMA Clienting ==
    ASSUME client \in [Clients -> Calls], NEW c \in Clients, NEW k \in Calls, SetClient(c, k)
    PROVE  /\ client' \in [Clients -> Calls] /\ client'[c] = k
           /\ \A d \in Clients : d # c => client'[d] = client[d]
  BY DEF SetClient

\* The new forms of a call.
LEMMA CallsFormed ==
    ASSUME NEW k \in Calls, k.step \in Open, NEW value \in Nat
    PROVE  /\ \A s \in Open : /\ [k EXCEPT !.step = s] \in OpenCalls \cap Calls
                             /\ [k EXCEPT !.step = s].step = s
                             /\ [k EXCEPT !.step = s].var = k.var
                             /\ [k EXCEPT !.step = s].op = k.op
                             /\ [k EXCEPT !.step = s].born = k.born
                             /\ [k EXCEPT !.step = s].owed = k.owed
           /\ [step |-> "done", var |-> k.var, born |-> k.born, owed |-> k.owed,
               value |-> value] \in Calls
  <1>1. k \in OpenCalls
    BY CallForms
  <1>2. OpenCalls \cup DoneCalls \subseteq Calls
    BY DEF Calls, OpenCalls, DoneCalls, Open
  <1>3. [step |-> "done", var |-> k.var, born |-> k.born, owed |-> k.owed, value |-> value]
           \in DoneCalls
    BY <1>1 DEF OpenCalls, DoneCalls
  <1>4. ASSUME NEW s \in Open
        PROVE  /\ [k EXCEPT !.step = s] \in OpenCalls
               /\ [k EXCEPT !.step = s].step = s
               /\ [k EXCEPT !.step = s].var = k.var
               /\ [k EXCEPT !.step = s].op = k.op
               /\ [k EXCEPT !.step = s].born = k.born
               /\ [k EXCEPT !.step = s].owed = k.owed
    BY <1>1 DEF OpenCalls
  <1> QED
    BY <1>2, <1>3, <1>4

\* A lifecycle event is published.
LEMMA FormedLifecycle ==
    ASSUME OneSecret, Formed, NEW kind \in {"created", "deleted"}, NEW n \in Nat,
           PublishLifecycleEvent(kind, n), n \in 1..life',
           life' \in life..bounds.lives, alive' \in BOOLEAN, life' # 0,
           UNCHANGED <<bounds, bucket, up, task, client, asks, hooks, plain>>
    PROVE  Formed'
  <1>1. UNCHANGED inbox \/ Deliver("lifecycle", LifeMsg(kind, n))
    BY DEF PublishLifecycleEvent, LifeMsg
  <1>2. LifeMsg(kind, n) \in Messages
    BY LifeMsgIs
  <1>3. Fits("lifecycle", LifeMsg(kind, n))'
    BY LoopsAre DEF Fits, LifeMsg
  <1>4. asks \in Nat /\ hooks \in Nat /\ asks + hooks >= asks + hooks
    BY NumbersAre DEF Formed
  <1>5. plain \in BOOLEAN /\ client \in [Clients -> Calls]
    BY DEF Formed, Typed
  <1>6. "lifecycle" \in Loops
    BY LoopsAre
  <1> QED
    BY <1>1, <1>2, <1>3, <1>4, <1>5, <1>6, FormedSending

\* The next number, and the last one.
LEMMA NextIs ==
    ASSUME NEW a \in Nat, NEW b \in Nat, NEW d, (d = a + 1 /\ a < b) \/ (d = a /\ a <= b /\ a # 0)
    PROVE  d \in Nat /\ d \in a..b /\ d \in 1..d /\ d # 0
  OBVIOUS

\* Sums grow.
LEMMA SumGrows ==
    ASSUME NEW a \in Nat, NEW b \in Nat, NEW d \in Nat, NEW e \in Nat, d >= a, e >= b
    PROVE  d + e >= a + b
  OBVIOUS

\* A number is not below itself.
LEMMA Same == ASSUME NEW a \in Nat, NEW b \in Nat, a <= b PROVE a \in a..b /\ a >= a
  OBVIOUS

\* Formed is kept: Create.
LEMMA FormedCreate == OneSecret /\ Formed /\ Create => Formed'
  <1> SUFFICES ASSUME OneSecret, Formed, Create PROVE Formed'
    OBVIOUS
  <1>1. life \in Nat /\ life' = life + 1 /\ life < bounds.lives /\ bounds.lives \in Nat
    BY NumbersAre DEF Formed, Create
  <1>2. /\ alive' \in BOOLEAN /\ PublishLifecycleEvent("created", life + 1)
        /\ UNCHANGED <<bounds, bucket, up, task, client, asks, hooks, plain>>
    BY DEF Create
  <1>3. /\ life' \in life..bounds.lives /\ life' \in 1..life' /\ life' \in Nat
        /\ life' # 0
    BY <1>1, NextIs
  <1> QED
    BY <1>1, <1>2, <1>3, FormedLifecycle

\* Formed is kept: Delete.
LEMMA FormedDelete == OneSecret /\ Formed /\ Delete => Formed'
  <1> SUFFICES ASSUME OneSecret, Formed, Delete PROVE Formed'
    OBVIOUS
  <1>1. life \in Nat /\ life' = life /\ life <= bounds.lives /\ bounds.lives \in Nat
    BY NumbersAre DEF Formed, Delete
  <1>2. /\ alive' \in BOOLEAN /\ PublishLifecycleEvent("deleted", life)
        /\ UNCHANGED <<bounds, bucket, up, task, client, asks, hooks, plain>>
    BY DEF Delete
  <1>3. life # 0
    BY DEF Formed, Typed, Delete
  <1>4. life' \in life..bounds.lives /\ life' \in 1..life' /\ life' # 0
    BY <1>1, <1>3, NextIs
  <1> QED
    BY <1>1, <1>2, <1>4, FormedLifecycle

\* A client's step that sends nothing.
LEMMA FormedQuiet ==
    ASSUME OneSecret, Formed, NEW c \in Clients, NEW k \in Calls, SetClient(c, k),
           asks' \in Nat, asks' >= asks,
           UNCHANGED <<bounds, life, alive, bucket, up, inbox, task, hooks, plain>>
    PROVE  Formed'
  <1>1. /\ asks \in Nat /\ hooks \in Nat /\ life \in Nat /\ bounds.lives \in Nat
        /\ life <= bounds.lives
    BY NumbersAre DEF Formed
  <1>2. asks' + hooks' >= asks + hooks /\ life' \in life..bounds.lives /\ hooks' \in Nat
    <2>1. life' = life /\ hooks' = hooks /\ life \in life..bounds.lives /\ hooks >= hooks
      BY <1>1, Same
    <2>2. asks' + hooks' >= asks + hooks
      BY <1>1, <2>1, SumGrows
    <2> QED
      BY <1>1, <2>1, <2>2
  <1>3. /\ plain \in BOOLEAN /\ alive \in BOOLEAN /\ client \in [Clients -> Calls]
        /\ alive = TRUE => life # 0
    BY DEF Formed, Typed
  <1>4. client' \in [Clients -> Calls]
    BY <1>3, Clienting
  <1>5. "lifecycle" \in Loops /\ LifeMsg("created", 0) \in Messages
    BY LoopsAre, LifeMsgIs
  <1> QED
    BY <1>1, <1>2, <1>3, <1>4, <1>5, FormedSending

\* A client's step that sends a request.
LEMMA FormedRequest ==
    ASSUME OneSecret, Formed, client' \in [Clients -> Calls], hooks' \in Nat, hooks' >= hooks,
           UNCHANGED <<bounds, life, alive, bucket, up, task, asks>>,
           plain' \in BOOLEAN, plain = TRUE => plain' = TRUE,
           NEW l \in Loops, NEW m \in Messages,
           UNCHANGED inbox \/ (Deliver(l, m) /\ (Fits(l, m)' \/ Foreign(l, m)'))
    PROVE  Formed'
  <1>1. /\ asks \in Nat /\ hooks \in Nat /\ life \in Nat /\ bounds.lives \in Nat
        /\ life <= bounds.lives
    BY NumbersAre DEF Formed
  <1>2. asks' + hooks' >= asks + hooks /\ life' \in life..bounds.lives /\ asks' \in Nat
    <2>1. life' = life /\ asks' = asks /\ life \in life..bounds.lives /\ asks >= asks
      BY <1>1, Same
    <2>2. asks' + hooks' >= asks + hooks
      BY <1>1, <2>1, SumGrows
    <2> QED
      BY <1>1, <2>1, <2>2
  <1>3. alive \in BOOLEAN /\ (alive = TRUE => life # 0)
    BY DEF Formed, Typed
  <1> QED
    BY <1>1, <1>2, <1>3, FormedSending

\* What a call has to say of itself for its request to fit.
Numbered ==
    \A c \in Clients :
        client[c].step \in Open \cup {"called"} => client[c].op \in 1..asks + hooks

\* The keys are all different.
LEMMA KeysAre ==
    /\ \A u, v : SessionVarKey(u) # VarKey(v)
    /\ \A u, v : SessionVarKey(u) = SessionVarKey(v) => u = v
    /\ \A u, v : VarKey(u) = VarKey(v) => u = v
    /\ \A v \in Variables : SessionVarKey(v) \in Keys /\ VarKey(v) \in Keys
  <1>1. ASSUME NEW u, NEW v PROVE SessionVarKey(u) # VarKey(v)
    <2>1. Len(SessionVarKey(u)) = 5 /\ Len(VarKey(v)) = 4
      BY DEF SessionVarKey, VarKey
    <2> QED
      BY <2>1
  <1>2. ASSUME NEW u, NEW v, SessionVarKey(u) = SessionVarKey(v) PROVE u = v
    <2>1. SessionVarKey(u)[5] = u /\ SessionVarKey(v)[5] = v
      BY DEF SessionVarKey
    <2> QED
      BY <1>2, <2>1
  <1>3. ASSUME NEW u, NEW v, VarKey(u) = VarKey(v) PROVE u = v
    <2>1. VarKey(u)[4] = u /\ VarKey(v)[4] = v
      BY DEF VarKey
    <2> QED
      BY <1>3, <2>1
  <1>4. \A v \in Variables : SessionVarKey(v) \in Keys /\ VarKey(v) \in Keys
    BY DEF Keys
  <1> QED
    BY <1>1, <1>2, <1>3, <1>4

\* An open call is one for a variable.
LEMMA OpenIs ==
    ASSUME Formed, NEW c \in Clients, client[c].step \in Open
    PROVE  /\ client[c] \in Calls /\ client[c] \in OpenCalls /\ client[c].var \in Variables
           /\ client[c].op \in Nat /\ client[c].born \in Nat
           /\ client[c].owed \subseteq Nat
  <1>1. client[c] \in Calls
    BY DEF Formed, Typed
  <1>2. client[c] \in OpenCalls
    BY <1>1, CallForms
  <1> QED
    BY <1>1, <1>2 DEF OpenCalls

\* Formed is kept: the bucket is read.
LEMMA FormedLookup ==
    ASSUME OneSecret, Formed, NEW c \in Clients, NEW step \in Open, NEW key \in Keys,
           NEW missed \in Open, Lookup(c, step, key, missed)
    PROVE  Formed'
  <1>1. client[c] \in Calls /\ client[c].step \in Open
    BY OpenIs DEF Lookup, Busy
  <1>2. bucket[key] \in Nat /\ asks \in Nat /\ asks' = asks /\ asks >= asks
    BY NumbersAre DEF Formed, Typed, Lookup, Busy
  <1>3. UNCHANGED <<bounds, life, alive, bucket, up, inbox, task, hooks, plain>>
    BY DEF Lookup, Busy
  <1>4. \E k \in Calls : SetClient(c, k)
    <2>1. CASE Resolved(c, bucket[key])
      BY <1>1, <1>2, <2>1, CallsFormed DEF Resolved
    <2>2. CASE SetClient(c, [client[c] EXCEPT !.step = missed])
      BY <1>1, <1>2, <2>2, CallsFormed
    <2> QED
      BY <2>1, <2>2 DEF Lookup
  <1> QED
    BY <1>2, <1>3, <1>4, FormedQuiet

\* Formed is kept: the request is sent.
LEMMA FormedAsk ==
    ASSUME OneSecret, Formed, Numbered, NEW c \in Clients, Ask(c)
    PROVE  Formed'
  <1>1. /\ client[c] \in Calls /\ client[c].step \in Open /\ client[c].var \in Variables
        /\ client[c].op \in 1..asks + hooks /\ client[c].op \in Nat
    BY OpenIs DEF Ask, Busy, Numbered, Open
  <1>2. asks \in Nat /\ asks' = asks /\ asks >= asks /\ hooks \in Nat /\ hooks >= hooks
    BY NumbersAre DEF Formed, Ask, Busy
  <1>3. UNCHANGED <<bounds, life, alive, bucket, up, task, asks, hooks, plain>>
    BY DEF Ask, Busy
  <1>4. PICK v, o : v = client[c].var /\ o = client[c].op
    OBVIOUS
  <1>5. CASE Deliver(v, AskMsg(v, c, o)) /\ SetClient(c, [client[c] EXCEPT !.step = "wait"])
    <2>1. AskMsg(v, c, o) \in Messages
      BY <1>1, <1>4, AskMsgIs
    <2>2. Fits(v, AskMsg(v, c, o))'
      <3>1. o \in (1..asks + hooks)'
        BY <1>1, <1>3, <1>4
      <3>2. v \in Loops /\ v \in Variables /\ v # "lifecycle" /\ v # "call"
        BY <1>1, <1>4, LoopsAre
      <3> QED
        BY <3>1, <3>2 DEF Fits, AskMsg
    <2>3. client' \in [Clients -> Calls]
      <3>1. [client[c] EXCEPT !.step = "wait"] \in Calls
        BY <1>1, <1>2, CallsFormed DEF Open
      <3> QED
        BY <1>5, <3>1, Clienting DEF Formed, Typed
    <2>4. v \in Loops
      BY <1>1, <1>4, LoopsAre
    <2>5. plain \in BOOLEAN
      BY DEF Formed, Typed
    <2>6. Deliver(v, AskMsg(v, c, o)) /\ (Fits(v, AskMsg(v, c, o))' \/ Foreign(v, AskMsg(v, c, o))')
      BY <1>5, <2>2
    <2> QED
      BY <1>2, <1>3, <2>1, <2>3, <2>4, <2>5, <2>6, FormedRequest
  <1>6. CASE Resolved(c, 0) /\ UNCHANGED inbox
    <2>1. \E k \in Calls : SetClient(c, k)
      BY <1>1, <1>6, CallsFormed DEF Resolved
    <2> QED
      BY <1>2, <1>3, <1>6, <2>1, FormedQuiet
  <1>7. \/ Deliver(v, AskMsg(v, c, o)) /\ SetClient(c, [client[c] EXCEPT !.step = "wait"])
        \/ Resolved(c, 0) /\ UNCHANGED inbox
    <2>1. \/ Deliver(client[c].var, AskMsg(client[c].var, c, client[c].op))
                /\ SetClient(c, [client[c] EXCEPT !.step = "wait"])
          \/ Resolved(c, 0) /\ UNCHANGED inbox
      BY DEF Ask, AskMsg
    <2>2. AskMsg(client[c].var, c, client[c].op) = AskMsg(v, c, o)
      BY <1>4
    <2> QED
      BY <1>4, <2>1, <2>2
  <1> QED
    BY <1>5, <1>6, <1>7

\* Formed is kept: the request times out.
LEMMA FormedTimeOut ==
    ASSUME OneSecret, Formed, NEW c \in Clients, TimeOut(c)
    PROVE  Formed'
  <1>1. client[c] \in Calls /\ client[c].step \in Open
    BY OpenIs DEF TimeOut, Busy, Open
  <1>2. asks \in Nat /\ asks' = asks /\ asks >= asks
    BY NumbersAre DEF Formed, TimeOut, Busy
  <1>3. UNCHANGED <<bounds, life, alive, bucket, up, inbox, task, hooks, plain>>
    BY DEF TimeOut, Busy
  <1>4. \E k \in Calls : SetClient(c, k)
    BY <1>1, CallsFormed DEF Resolved, TimeOut
  <1> QED
    BY <1>2, <1>3, <1>4, FormedQuiet

\* Formed is kept: the call returns.
LEMMA FormedReturn ==
    ASSUME OneSecret, Formed, NEW c \in Clients, Return(c)
    PROVE  Formed'
  <1>1. /\ UNCHANGED <<bounds, life, alive, bucket, up, inbox, task, hooks, plain>>
        /\ asks' = asks /\ SetClient(c, Idle)
    BY DEF Return, Busy
  <1>2. asks \in Nat /\ asks >= asks
    BY NumbersAre DEF Formed
  <1>3. Idle \in Calls
    BY DEF Calls
  <1> QED
    BY <1>1, <1>2, <1>3, FormedQuiet

\* Formed is kept: a call gets its number, and the present life.
LEMMA FormedResolveVariable ==
    ASSUME OneSecret, Formed, NEW c \in Clients, NEW v \in Variables, ResolveVariable(c, v)
    PROVE  Formed'
  <1>1. asks \in Nat /\ hooks \in Nat /\ life \in Nat /\ bounds.lives \in Nat
    BY NumbersAre DEF Formed
  <1>2. asks' = asks + 1 /\ asks' \in Nat /\ asks' >= asks /\ asks + hooks + 1 \in Nat
    BY <1>1 DEF ResolveVariable
  <1>3. PICK w : w = {n \in Lives : Pending(n, v)}
    OBVIOUS
  <1>4. w \subseteq Nat
    BY <1>1, <1>3 DEF Lives
  <1>5. [step |-> "session", var |-> v, op |-> asks + hooks + 1, born |-> life, owed |-> w]
           \in OpenCalls
    BY <1>1, <1>2, <1>4 DEF OpenCalls, Open
  <1>6. OpenCalls \subseteq Calls
    BY DEF Calls, OpenCalls, Open
  <1>7. \E k \in Calls : SetClient(c, k)
    BY <1>3, <1>5, <1>6 DEF ResolveVariable
  <1>8. UNCHANGED <<bounds, life, alive, bucket, up, inbox, task, hooks, plain>>
    BY DEF ResolveVariable
  <1> QED
    BY <1>2, <1>7, <1>8, FormedQuiet

\* Formed is kept: the call of a hook gets its number.
LEMMA FormedCallHook ==
    ASSUME OneSecret, Formed, NEW c \in Clients, NEW args \in Args, CallHook(c, args)
    PROVE  Formed'
  <1>1. asks \in Nat /\ hooks \in Nat /\ plain \in BOOLEAN
    BY NumbersAre DEF Formed, Typed
  <1>2. hooks' = hooks + 1 /\ UNCHANGED <<bounds, life, alive, bucket, up, task, asks, plain>>
    BY DEF CallHook, UseHook
  <1>3. PICK o : o = asks + hooks + 1
    OBVIOUS
  <1>4. /\ hooks' \in Nat /\ hooks' >= hooks /\ o \in Nat /\ o \in 1..asks + hooks'
    BY <1>1, <1>2, <1>3
  <1>5. o \in (1..asks + hooks)'
    BY <1>2, <1>4
  <1>6. CallMsg(c, o, args) \in Messages
    BY <1>4, CallMsgIs
  <1>7. Fits("call", CallMsg(c, o, args))'
    BY <1>5, LoopsAre DEF Fits, CallMsg
  <1>8. /\ client' \in [Clients -> Calls]
        /\ UNCHANGED inbox \/ Deliver("call", CallMsg(c, o, args))
    <2>1. /\ [step |-> "called", op |-> o, args |-> args] \in Calls
          /\ [step |-> "answered", args |-> args, ok |-> FALSE] \in Calls
      <3>1. [step |-> "answered", args |-> args, ok |-> FALSE]
               \in [step : {"answered"}, args : Args, ok : BOOLEAN]
        OBVIOUS
      <3>2. [step |-> "called", op |-> o, args |-> args]
               \in [step : {"called", "forsaken"}, op : Nat, args : Args]
        BY <1>4
      <3> QED
        BY <3>1, <3>2 DEF Calls
    <2>2. \/ /\ Deliver("call", CallMsg(c, o, args))
             /\ SetClient(c, [step |-> "called", op |-> o, args |-> args])
          \/ /\ UNCHANGED inbox
             /\ SetClient(c, [step |-> "answered", args |-> args, ok |-> FALSE])
      BY <1>3 DEF CallHook, CallMsg
    <2>3. client \in [Clients -> Calls]
      BY DEF Formed, Typed
    <2> QED
      BY <2>1, <2>2, <2>3, Clienting
  <1>9. "call" \in Loops
    BY LoopsAre
  <1> QED
    BY <1>1, <1>2, <1>4, <1>6, <1>7, <1>8, <1>9, FormedRequest

\* Formed is kept: an event for a hook.
LEMMA FormedPublishEventHook ==
    ASSUME OneSecret, Formed, NEW args \in Args, PublishEventHook(args)
    PROVE  Formed'
  <1>1. asks \in Nat /\ hooks \in Nat /\ plain \in BOOLEAN /\ client \in [Clients -> Calls]
    BY NumbersAre DEF Formed, Typed
  <1>2. /\ hooks' = hooks + 1
        /\ UNCHANGED <<bounds, life, alive, bucket, up, task, asks, plain, client>>
    BY DEF PublishEventHook, UseHook
  <1>3. hooks' \in Nat /\ hooks' >= hooks
    BY <1>1, <1>2
  <1>4. EventMsg(args) \in Messages
    BY DEF Messages
  <1>5. Fits("event", EventMsg(args))'
    BY LoopsAre DEF Fits
  <1>6. UNCHANGED inbox \/ Deliver("event", EventMsg(args))
    BY DEF PublishEventHook, EventMsg
  <1>7. "event" \in Loops
    BY LoopsAre
  <1> QED
    BY <1>1, <1>2, <1>3, <1>4, <1>5, <1>6, <1>7, FormedRequest

\* Formed is kept: what a bus without identity sends is foreign to the loop of calls.
LEMMA FormedPlain ==
    ASSUME OneSecret, Formed, NEW l \in {"call", "event"}, Plain(l)
    PROVE  Formed'
  <1>1. asks \in Nat /\ hooks \in Nat /\ client \in [Clients -> Calls]
    BY NumbersAre DEF Formed, Typed
  <1>2. /\ hooks' = hooks + 1 /\ plain' = TRUE
        /\ UNCHANGED <<bounds, life, alive, bucket, up, task, asks, client>>
    BY DEF Plain
  <1>3. hooks' \in Nat /\ hooks' >= hooks
    BY <1>1, <1>2
  <1>4. PICK args \in Args : Deliver(l, PlainMsg(l, args))
    BY DEF Plain, PlainMsg
  <1>5. PlainMsg(l, args) \in Messages
    <2>1. <<l, args>> \in {"call", "event"} \X Args
      OBVIOUS
    <2> QED
      BY <2>1 DEF Messages
  <1>6. Fits(l, PlainMsg(l, args))' \/ Foreign(l, PlainMsg(l, args))'
    <2>1. CASE l = "event"
      BY <2>1, LoopsAre DEF Fits
    <2>2. CASE l = "call"
      BY <1>2, <2>2 DEF Foreign, PlainMsg
    <2> QED
      BY <2>1, <2>2
  <1>7. l \in Loops
    BY LoopsAre
  <1>8. Deliver(l, PlainMsg(l, args))
           /\ (Fits(l, PlainMsg(l, args))' \/ Foreign(l, PlainMsg(l, args))')
    BY <1>4, <1>6
  <1>9. plain' \in BOOLEAN /\ (plain = TRUE => plain' = TRUE)
    BY <1>2
  <1> QED
    BY <1>1, <1>2, <1>3, <1>5, <1>7, <1>8, <1>9, FormedRequest

-----------------------------------------------------------------------------
(* The loops.                                                              *)

\* What a loop makes of a message.
Started(l, m, t) ==
    /\ t \in Tasks /\ FitsTask(l, t) /\ t.step \notin {"store", "reply"}
    /\ l = "lifecycle" =>
           \E n \in 1..life :
               \/ m = LifeMsg("deleted", n)
                  /\ t = [step |-> "delete", life |-> n, left |-> Scoped]
               \/ m = LifeMsg("created", n) /\ t = [step |-> "created", life |-> n]
    /\ l \in Variables => t = [step |-> "resolve", msg |-> m]
    /\ l = "call" /\ plain # TRUE => t = [step |-> "check", msg |-> m]

\* A loop makes of a message what its subscription says.
LEMMA StartIs ==
    ASSUME OneSecret, NEW r \in Replicas, NEW l \in Loops, NEW m \in Messages,
           Fits(l, m) \/ Foreign(l, m), life \in Nat, asks + hooks \in Nat
    PROVE  Started(l, m, Start(r, l, m))
  <1> USE DEF Started
  <1>1. CASE l = "lifecycle"
    <2>1. PICK kind \in {"created", "deleted"}, n \in 1..life : m = LifeMsg(kind, n)
      BY <1>1 DEF Fits, Foreign
    <2>2. n \in Nat
      BY <2>1
    <2>3. /\ m.data.payload = n
          /\ m.data.ch = ChLifecycle(Tenant, "deleted") <=> kind = "deleted"
          /\ Received(Identity[r], m) # NoEnvelope
      BY <2>1, <2>2, LifeMsgIs
    <2>4. CASE kind = "deleted"
      <3>1. Start(r, l, m) = [step |-> "delete", life |-> n, left |-> Scoped]
        BY <1>1, <2>3, <2>4 DEF Start
      <3>2. [step |-> "delete", life |-> n, left |-> Scoped]
               \in [step : {"delete"}, life : Nat, left : SUBSET Variables]
        BY <2>2, LoopsAre
      <3>3. FitsTask(l, [step |-> "delete", life |-> n, left |-> Scoped])
        BY <1>1, <2>1 DEF FitsTask
      <3>4. [step |-> "delete", life |-> n, left |-> Scoped].step = "delete"
        OBVIOUS
      <3> QED
        BY <1>1, <2>1, <2>4, <3>1, <3>2, <3>3, <3>4, LoopsAre DEF Tasks
    <2>5. CASE kind = "created"
      <3>1. Start(r, l, m) = [step |-> "created", life |-> n]
        BY <1>1, <2>3, <2>5 DEF Start
      <3>2. [step |-> "created", life |-> n] \in [step : {"created"}, life : Nat]
        BY <2>2
      <3>3. FitsTask(l, [step |-> "created", life |-> n])
        BY <1>1, <2>1 DEF FitsTask
      <3>4. [step |-> "created", life |-> n].step = "created"
        OBVIOUS
      <3> QED
        BY <1>1, <2>1, <2>5, <3>1, <3>2, <3>3, <3>4, LoopsAre DEF Tasks
    <2> QED
      BY <2>4, <2>5
  <1>2. CASE l \in Variables
    <2>1. PICK c \in Clients, o \in 1..asks + hooks : m = AskMsg(l, c, o)
      BY <1>2, LoopsAre DEF Fits, Foreign
    <2>2. Received(Identity[r], m) # NoEnvelope /\ o \in Nat
      BY <1>2, <2>1, AskMsgIs
    <2>3. Start(r, l, m) = [step |-> "resolve", msg |-> m]
      BY <1>2, <2>2, LoopsAre DEF Start
    <2>4. [step |-> "resolve", msg |-> m] \in [step : {"resolve", "check"}, msg : Messages]
      OBVIOUS
    <2>5. FitsTask(l, [step |-> "resolve", msg |-> m])
      BY <1>2, LoopsAre DEF FitsTask, Foreign
    <2>6. [step |-> "resolve", msg |-> m].step = "resolve"
      OBVIOUS
    <2> QED
      BY <1>2, <2>3, <2>4, <2>5, <2>6, LoopsAre DEF Tasks
  <1>3. CASE l \in {"call", "event"}
    <2>1. l \notin Variables /\ l # "lifecycle"
      BY <1>3, LoopsAre
    <2>2. \/ Start(r, l, m) = Dead /\ Received(Identity[r], m) = NoEnvelope
          \/ /\ Start(r, l, m) = [step |-> "check", msg |-> m]
             /\ Received(Identity[r], m) # NoEnvelope
      BY <2>1 DEF Start
    <2>3. Dead \in Tasks /\ FitsTask(l, Dead) /\ Dead.step = "dead"
      BY DEF Tasks, FitsTask, Dead
    <2>4. [step |-> "check", msg |-> m] \in Tasks /\ [step |-> "check", msg |-> m].step = "check"
      BY DEF Tasks
    <2>5. Received(Identity[r], m) # NoEnvelope => Fits(l, m)
      BY PlainIsRefused DEF Foreign
    <2>6. Fits(l, m) => FitsTask(l, [step |-> "check", msg |-> m])
      BY <1>3 DEF FitsTask
    <2>7. l = "call" /\ plain # TRUE => Received(Identity[r], m) # NoEnvelope
      <3> SUFFICES ASSUME l = "call", plain # TRUE PROVE Received(Identity[r], m) # NoEnvelope
        OBVIOUS
      <3>1. PICK c \in Clients, o \in 1..asks + hooks, a \in Args : m = CallMsg(c, o, a)
        BY DEF Fits, Foreign
      <3>2. o \in Nat
        BY <3>1
      <3> QED
        BY <3>1, <3>2, CallMsgIs
    <2> QED
      BY <2>1, <2>2, <2>3, <2>4, <2>5, <2>6, <2>7
  <1> QED
    BY <1>1, <1>2, <1>3, LoopsAre

\* A global value is of no life.
LEMMA PlusOne ==
    ASSUME NEW a \in Nat, NEW b \in Nat, a <= b
    PROVE  b + 1 \in Nat /\ b + 1 # 0 /\ ~(b + 1 <= a) /\ a \in 0..a /\ 0 \in 0..a
  OBVIOUS

\* The value of a global variable is of no life.
LEMMA GlobalIs ==
    ASSUME Typed
    PROVE  /\ GlobalValue \in Nat /\ GlobalValue # 0 /\ ~(GlobalValue <= life)
           /\ life \in 0..life /\ 0 \in 0..life
  BY NumbersAre, PlusOne DEF GlobalValue

\* The bucket and the values on their way to it, after a step of a loop.
LEMMA ValuedLoop ==
    ASSUME Formed, NEW r \in Replicas, NEW l \in Loops, NEW t \in Tasks, SetTask(r, l, t),
           UNCHANGED <<bounds, life>>,
           l \in Variables /\ t.step \in {"store", "reply"} => Known(l, t.value),
           \/ UNCHANGED bucket
           \/ \E v \in Scoped, n \in 0..life :
                 bucket' = [bucket EXCEPT ![SessionVarKey(v)] = n]
           \/ \E v \in Variables \ Scoped :
                 bucket' = [bucket EXCEPT ![VarKey(v)] = GlobalValue]
    PROVE  Valued' /\ bucket' \in [Keys -> Nat]
  <1>1. /\ task' \in [Replicas -> [Loops -> Tasks]] /\ task'[r][l] = t
        /\ \A q \in Replicas, k \in Loops : q # r \/ k # l => task'[q][k] = task[q][k]
    BY Tasking DEF Formed, Typed
  <1>2. GlobalValue' = GlobalValue /\ \A v, n : Known(v, n)' <=> Known(v, n)
    BY DEF GlobalValue, Known
  <1>3. \A q \in Replicas, v \in Variables :
           task'[q][v].step \in {"store", "reply"} => Known(v, task'[q][v].value)
    BY <1>1, LoopsAre DEF Formed, Valued
  <1>4. bucket \in [Keys -> Nat] /\ life \in Nat /\ GlobalValue \in Nat
    BY NumbersAre, GlobalIs DEF Formed, Typed
  <1>5. /\ bucket' \in [Keys -> Nat]
        /\ \A v \in Variables : bucket'[VarKey(v)] \in {0, GlobalValue}
        /\ \A v \in Variables : bucket'[SessionVarKey(v)] \in 0..life
        /\ \A v \in Variables \ Scoped : bucket'[SessionVarKey(v)] = 0
    <2>1. CASE UNCHANGED bucket
      BY <1>4, <2>1 DEF Formed, Valued
    <2>2. ASSUME NEW v \in Scoped, NEW n \in 0..life,
                 bucket' = [bucket EXCEPT ![SessionVarKey(v)] = n]
          PROVE  <1>5
      <3>1. /\ \A w \in Variables : bucket'[VarKey(w)] = bucket[VarKey(w)]
            /\ \A w \in Variables : w # v => bucket'[SessionVarKey(w)] = bucket[SessionVarKey(w)]
            /\ bucket'[SessionVarKey(v)] = n
        BY <1>4, <2>2, KeysAre, LoopsAre
      <3>2. n \in Nat
        BY <1>4
      <3>3. bucket' \in [Keys -> Nat]
        BY <1>4, <2>2, <3>2
      <3> QED
        BY <3>1, <3>3 DEF Formed, Valued
    <2>3. ASSUME NEW v \in Variables \ Scoped, bucket' = [bucket EXCEPT ![VarKey(v)] = GlobalValue]
          PROVE  <1>5
      <3>1. /\ \A w \in Variables : w # v => bucket'[VarKey(w)] = bucket[VarKey(w)]
            /\ \A w \in Variables : bucket'[SessionVarKey(w)] = bucket[SessionVarKey(w)]
            /\ bucket'[VarKey(v)] = GlobalValue
        BY <1>4, <2>3, KeysAre
      <3>3. bucket' \in [Keys -> Nat]
        BY <1>4, <2>3
      <3> QED
        BY <3>1, <3>3 DEF Formed, Valued
    <2> QED
      BY <2>1, <2>2, <2>3
  <1> QED
    BY <1>2, <1>3, <1>5 DEF Valued

\* Steps of a loop that leave the inboxes and the clients, or take from the one and
\* answer the other.
LEMMA FormedStepOf ==
    ASSUME Formed, NEW r \in Replicas, NEW l \in Loops, NEW step, At(r, l, step),
           NEW t \in Tasks, SetTask(r, l, t), FitsTask(l, t),
           l \in Variables /\ t.step \in {"store", "reply"} => Known(l, t.value),
           \/ UNCHANGED bucket
           \/ \E v \in Scoped, n \in 0..life :
                 bucket' = [bucket EXCEPT ![SessionVarKey(v)] = n]
           \/ \E v \in Variables \ Scoped :
                 bucket' = [bucket EXCEPT ![VarKey(v)] = GlobalValue],
           \/ UNCHANGED inbox
           \/ inbox[r][l] # <<>> /\ inbox' = [inbox EXCEPT ![r][l] = Tail(@)],
           client' \in [Clients -> Calls]
    PROVE  Formed'
  <1>1. UNCHANGED <<bounds, life, alive, up, asks, hooks, plain>>
    BY DEF At
  <1>2. Valued' /\ bucket' \in [Keys -> Nat]
    BY <1>1, ValuedLoop
  <1>3. inbox \in [Replicas -> [Loops -> Seq(Messages)]]
    BY DEF Formed, Typed
  <1>4. /\ inbox' \in [Replicas -> [Loops -> Seq(Messages)]]
        /\ \A q \in Replicas, k \in Loops : Range(inbox'[q][k]) \subseteq Range(inbox[q][k])
    <2>1. CASE UNCHANGED inbox
      BY <1>3, <2>1
    <2>2. CASE inbox[r][l] # <<>> /\ inbox' = [inbox EXCEPT ![r][l] = Tail(@)]
      <3>1. /\ inbox' \in [Replicas -> [Loops -> Seq(Messages)]]
            /\ Range(inbox[r][l]) = Range(inbox'[r][l]) \cup {Head(inbox[r][l])}
            /\ \A q \in Replicas, k \in Loops : q # r \/ k # l => inbox'[q][k] = inbox[q][k]
        BY <1>3, <2>2, Taking
      <3>2. ASSUME NEW q \in Replicas, NEW k \in Loops
            PROVE  Range(inbox'[q][k]) \subseteq Range(inbox[q][k])
        <4>1. CASE q # r \/ k # l
          BY <3>1, <4>1
        <4>2. CASE q = r /\ k = l
          BY <3>1, <4>2
        <4> QED
          BY <4>1, <4>2
      <3> QED
        BY <3>1, <3>2
    <2> QED
      BY <2>1, <2>2
  <1> QED
    BY <1>1, <1>2, <1>4, FormedLoop

\* A loop, and a client, may be idle.
LEMMA IdleFits == Idle \in Tasks /\ Idle \in Calls /\ Idle.step = "idle" /\ \A l : FitsTask(l, Idle)
  BY DEF Idle, Tasks, Calls, FitsTask

\* What a loop is at fits it.
LEMMA TaskIs ==
    ASSUME Formed, NEW r \in Replicas, NEW l \in Loops
    PROVE  task[r][l] \in Tasks /\ FitsTask(l, task[r][l])
  BY DEF Formed, Typed, Posted

\* Formed is kept: a loop takes a message.
LEMMA FormedTake ==
    ASSUME OneSecret, Formed, NEW r \in Replicas, NEW l \in Loops, Take(r, l)
    PROVE  Formed'
  <1>1. /\ At(r, l, "idle") /\ inbox[r][l] # <<>> /\ inbox' = [inbox EXCEPT ![r][l] = Tail(@)]
        /\ UNCHANGED <<bucket, client>>
    BY DEF Take
  <1>2. PICK m : m = Head(inbox[r][l])
    OBVIOUS
  <1>3. inbox \in [Replicas -> [Loops -> Seq(Messages)]] /\ client \in [Clients -> Calls]
    BY DEF Formed, Typed
  <1>4. m \in Messages /\ m \in Range(inbox[r][l])
    BY <1>1, <1>2, <1>3, Taking
  <1>5. Fits(l, m) \/ Foreign(l, m)
    BY <1>4 DEF Formed, Posted
  <1>6. life \in Nat /\ asks + hooks \in Nat
    BY NumbersAre DEF Formed
  <1>7. PICK t : t = Start(r, l, m)
    OBVIOUS
  <1>8. SetTask(r, l, t)
    BY <1>2, <1>7 DEF Take
  <1>9. t \in Tasks /\ FitsTask(l, t) /\ t.step \notin {"store", "reply"}
    BY <1>4, <1>5, <1>6, <1>7, StartIs DEF Started
  <1> QED
    BY <1>1, <1>3, <1>8, <1>9, FormedStepOf

\* Formed is kept: a variable is deleted, or the deletion fails.
LEMMA FormedDeleteVariable ==
    ASSUME Formed, NEW r \in Replicas, DeleteVariable(r)
    PROVE  Formed'
  <1>1. PICK t : t = task[r]["lifecycle"]
    OBVIOUS
  <1>2. /\ At(r, "lifecycle", "delete") /\ UNCHANGED <<inbox, client>> /\ t.step = "delete"
    BY <1>1 DEF DeleteVariable, At
  <1>3. "lifecycle" \in Loops /\ "lifecycle" \notin Variables
    BY LoopsAre
  <1>4. t \in Tasks /\ FitsTask("lifecycle", t)
    BY <1>1, <1>3, TaskIs
  <1>5. t \in [step : {"delete"}, life : Nat, left : SUBSET Variables]
    BY <1>2, <1>4, TaskForms
  <1>6. /\ t.left \subseteq Scoped /\ t.life \in 1..life
    BY <1>2, <1>4 DEF FitsTask
  <1>7. client \in [Clients -> Calls] /\ 0 \in 0..life
    BY NumbersAre DEF Formed, Typed
  <1>8. /\ \/ UNCHANGED bucket
           \/ \E v \in Scoped : bucket' = [bucket EXCEPT ![SessionVarKey(v)] = 0]
        /\ \/ SetTask(r, "lifecycle", Idle)
           \/ \E v \in t.left : SetTask(r, "lifecycle", [t EXCEPT !.left = t.left \ {v}])
    <2>1. CASE UNCHANGED bucket /\ SetTask(r, "lifecycle", Idle)
      BY <2>1
    <2>2. ASSUME NEW v \in t.left,
                 bucket' = [bucket EXCEPT ![SessionVarKey(v)] = 0],
                 SetTask(r, "lifecycle", IF t.left = {v} THEN Idle ELSE [t EXCEPT !.left = t.left \ {v}])
          PROVE  <1>8
      <3>1. v \in Scoped
        BY <1>6
      <3>2. CASE t.left = {v}
        BY <2>2, <3>1, <3>2
      <3>3. CASE t.left # {v}
        BY <2>2, <3>1, <3>3
      <3> QED
        BY <3>2, <3>3
    <2>3. \/ UNCHANGED bucket /\ SetTask(r, "lifecycle", Idle)
          \/ \E v \in t.left :
                /\ bucket' = [bucket EXCEPT ![SessionVarKey(v)] = 0]
                /\ SetTask(r, "lifecycle", IF t.left = {v} THEN Idle ELSE [t EXCEPT !.left = t.left \ {v}])
      BY <1>1 DEF DeleteVariable
    <2> QED
      BY <2>1, <2>2, <2>3
  <1>9. \E u \in Tasks : SetTask(r, "lifecycle", u) /\ FitsTask("lifecycle", u)
                          /\ u.step \notin {"store", "reply"}
    <2>1. CASE SetTask(r, "lifecycle", Idle)
      BY <2>1, IdleFits
    <2>2. ASSUME NEW v \in t.left, SetTask(r, "lifecycle", [t EXCEPT !.left = t.left \ {v}])
          PROVE  <1>9
      <3>1. PICK u : u = [t EXCEPT !.left = t.left \ {v}]
        OBVIOUS
      <3>2. /\ u \in [step : {"delete"}, life : Nat, left : SUBSET Variables]
            /\ u.step = "delete" /\ u.life = t.life /\ u.left \subseteq t.left
        BY <1>5, <3>1
      <3>3. u \in Tasks /\ FitsTask("lifecycle", u)
        BY <1>6, <3>2 DEF Tasks, FitsTask
      <3> QED
        BY <2>2, <3>1, <3>2, <3>3
    <2> QED
      BY <1>8, <2>1, <2>2
  <1> QED
    BY <1>2, <1>3, <1>7, <1>8, <1>9, FormedStepOf

\* Formed is kept: the handler of "created" stores a value of its life.
LEMMA FormedCreated ==
    ASSUME Formed, NEW r \in Replicas, Created(r)
    PROVE  Formed'
  <1>1. PICK n : n = task[r]["lifecycle"].life
    OBVIOUS
  <1>2. /\ At(r, "lifecycle", "created") /\ UNCHANGED <<inbox, client>>
        /\ SetTask(r, "lifecycle", Idle) /\ task[r]["lifecycle"].step = "created"
    BY DEF Created, At
  <1>3. "lifecycle" \in Loops /\ "lifecycle" \notin Variables
    BY LoopsAre
  <1>4. n \in 1..life
    BY <1>1, <1>2, <1>3, TaskIs DEF FitsTask
  <1>5. client \in [Clients -> Calls] /\ n \in 0..life
    BY <1>4, NumbersAre DEF Formed, Typed
  <1>6. \/ UNCHANGED bucket
        \/ \E v \in Scoped : bucket' = [bucket EXCEPT ![SessionVarKey(v)] = n]
    BY <1>1 DEF Created
  <1> QED
    BY <1>2, <1>3, <1>5, <1>6, IdleFits, FormedStepOf

\* Formed is kept: a resolver computes a value of the present life.
LEMMA FormedResolve ==
    ASSUME Formed, NEW r \in Replicas, NEW v \in Variables, Resolve(r, v)
    PROVE  Formed'
  <1>1. PICK m, w : m = task[r][v].msg /\ w = IF v \in Scoped THEN life ELSE GlobalValue
    OBVIOUS
  <1>2. /\ At(r, v, "resolve") /\ UNCHANGED <<bucket, inbox, client>>
        /\ task[r][v].step = "resolve"
    BY DEF Resolve, At
  <1>3. v \in Loops
    BY LoopsAre
  <1>4. task[r][v] \in [step : {"resolve", "check"}, msg : Messages] /\ FitsTask(v, task[r][v])
    BY <1>2, <1>3, TaskIs, TaskForms
  <1>5. m \in Messages /\ Fits(v, m)
    BY <1>1, <1>2, <1>4 DEF FitsTask
  <1>6. client \in [Clients -> Calls] /\ life \in Nat /\ GlobalValue \in Nat /\ life \in 0..life
    BY NumbersAre, GlobalIs DEF Formed, Typed
  <1>7. PICK u : u = [step |-> "store", msg |-> m, value |-> w]
    OBVIOUS
  <1>8. u.step = "store" /\ u.msg = m /\ u.value = w /\ w \in Nat /\ Known(v, w)
    BY <1>1, <1>6, <1>7 DEF Known
  <1>9. u \in [step : {"store", "reply"}, msg : Messages, value : Nat]
    BY <1>5, <1>7, <1>8
  <1>10. u \in Tasks /\ FitsTask(v, u)
    BY <1>5, <1>8, <1>9 DEF Tasks, FitsTask
  <1>11. SetTask(r, v, Idle) \/ SetTask(r, v, u)
    BY <1>1, <1>7 DEF Resolve
  <1> QED
    BY <1>2, <1>3, <1>6, <1>8, <1>10, <1>11, IdleFits, FormedStepOf

\* Formed is kept: a resolver stores what it has computed.
LEMMA FormedStore ==
    ASSUME Formed, NEW r \in Replicas, NEW v \in Variables, Store(r, v)
    PROVE  Formed'
  <1>1. PICK t : t = task[r][v]
    OBVIOUS
  <1>2. /\ At(r, v, "store") /\ UNCHANGED <<inbox, client>> /\ t.step = "store"
    BY <1>1 DEF Store, At
  <1>3. v \in Loops
    BY LoopsAre
  <1>4. t \in [step : {"store", "reply"}, msg : Messages, value : Nat] /\ FitsTask(v, t)
    BY <1>1, <1>2, <1>3, TaskIs, TaskForms
  <1>5. Known(v, t.value)
    BY <1>1, <1>2 DEF Formed, Valued
  <1>6. PICK u : u = [t EXCEPT !.step = "reply"]
    OBVIOUS
  <1>7. /\ u \in [step : {"store", "reply"}, msg : Messages, value : Nat]
        /\ u.step = "reply" /\ u.msg = t.msg /\ u.value = t.value
    BY <1>4, <1>6
  <1>8. u \in Tasks /\ FitsTask(v, u)
    BY <1>2, <1>4, <1>7 DEF Tasks, FitsTask
  <1>9. SetTask(r, v, u)
    BY <1>1, <1>6 DEF Store
  <1>10. \/ UNCHANGED bucket
         \/ \E x \in Scoped, n \in 0..life :
               bucket' = [bucket EXCEPT ![SessionVarKey(x)] = n]
         \/ \E x \in Variables \ Scoped :
               bucket' = [bucket EXCEPT ![VarKey(x)] = GlobalValue]
    BY <1>1, <1>5 DEF Store, Known
  <1>11. client \in [Clients -> Calls]
    BY DEF Formed, Typed
  <1> QED
    BY <1>2, <1>3, <1>5, <1>7, <1>8, <1>9, <1>10, <1>11, FormedStepOf

\* How a call of a hook ends: with an answer, or with one that is never sent.
Ended(k) == [step : {"answered"}, args : {k.args}, ok : BOOLEAN]
                \cup [step : {"forsaken"}, op : {k.op}, args : {k.args}]

LEMMA EndedIs ==
    ASSUME NEW k, NEW e \in Ended(k)
    PROVE  /\ e.step \in {"answered", "forsaken"}
           /\ k \in CalledCalls => e \in Calls
  BY DEF Ended, CalledCalls, Calls

\* What a reply comes to.
LEMMA ReplyIs ==
    ASSUME OneSecret, NEW r \in Replicas, NEW l \in Loops, NEW to, NEW payload,
           payload # NilPayload, Reply(r, l, to, payload)
    PROVE  \/ /\ UNCHANGED client
              /\ ~(client[to.client].step = "called" /\ client[to.client].op = to.op)
           \/ /\ client[to.client].step = "wait" /\ client[to.client].op = to.op
              /\ Resolved(to.client, payload.value)
           \/ /\ client[to.client].step = "called" /\ client[to.client].op = to.op
              /\ \E k \in Ended(client[to.client]) : SetClient(to.client, k)
  <1>1. PICK c, o, ch : c = to.client /\ o = to.op /\ ch = <<"_INBOX", c, o>>
    OBVIOUS
  <1>2. PICK m : m = Sent(Identity[r], "pub", ch, payload, Tenant, "")
    OBVIOUS
  <1>3. Domestic(ch)
    <2>1. ch[1] = "_INBOX"
      BY <1>1
    <2>2. "_INBOX" # "abc"
      OBVIOUS
    <2> QED
      BY <2>1, <2>2 DEF Domestic, SubjectTenant
  <1>4. Carries(m, ch, payload)
    BY <1>2, <1>3, SentIsReceived
  <1>5. Received(Identity[Agent], m) # NoEnvelope /\ Received(Identity[Agent], m).payload = payload
    BY <1>4 DEF Carries
  <1>6. PICK x, y : /\ x = [step |-> "answered", args |-> client[c].args, ok |-> TRUE /\ payload.ok]
                    /\ y = [step |-> "forsaken", op |-> client[c].op, args |-> client[c].args]
    OBVIOUS
  <1>7. x \in Ended(client[c]) /\ y \in Ended(client[c])
    BY <1>6 DEF Ended
  <1>8. \/ client[c].step = "wait" /\ client[c].op = o /\ Resolved(c, payload.value)
        \/ client[c].step = "called" /\ client[c].op = o /\ SetClient(c, x)
        \/ client[c].step = "called" /\ client[c].op = o /\ SetClient(c, y)
        \/ ~(client[c].step = "called" /\ client[c].op = o) /\ UNCHANGED client
    BY <1>1, <1>2, <1>5, <1>6 DEF Reply
  <1> QED
    BY <1>1, <1>7, <1>8

\* An answer reaches the call that waits for it, and no call of a hook.
LEMMA AnswerIs ==
    ASSUME OneSecret, Formed, \A c \in Clients : CallInv(c),
           NEW r \in Replicas, NEW v \in Variables, Answer(r, v)
    PROVE  \E c \in Clients, o \in 1..asks + hooks :
              /\ task[r][v].step = "reply" /\ task[r][v].msg = AskMsg(v, c, o)
              /\ task[r][v].value \in Nat
              /\ \/ UNCHANGED client
                 \/ /\ client[c].step = "wait" /\ client[c].op = o
                    /\ Resolved(c, task[r][v].value)
  <1>1. PICK t : t = task[r][v]
    OBVIOUS
  <1>2. t.step = "reply" /\ Reply(r, v, t.msg.data.payload, [value |-> t.value])
    BY <1>1 DEF Answer, At
  <1>3. v \in Loops /\ v # "lifecycle" /\ v # "call"
    BY LoopsAre
  <1>4. t \in [step : {"store", "reply"}, msg : Messages, value : Nat] /\ FitsTask(v, t)
    BY <1>1, <1>2, <1>3, TaskIs, TaskForms
  <1>5. PICK c \in Clients, o \in 1..asks + hooks : t.msg = AskMsg(v, c, o)
    BY <1>2, <1>4 DEF FitsTask, Fits
  <1>6. o \in Nat /\ t.value \in Nat
    BY <1>4, <1>5
  <1>7. PICK to : to = t.msg.data.payload
    OBVIOUS
  <1>8. to.client = c /\ to.op = o
    BY <1>5, <1>6, <1>7, AskMsgIs
  <1>9. PICK p : p = [value |-> t.value]
    OBVIOUS
  <1>10. p.value = t.value /\ p # NilPayload
    <2>1. p \in [value : Nat]
      BY <1>6, <1>9
    <2> QED
      BY <1>9, <2>1, ConstantsAssumption
  <1>11. Reply(r, v, to, p)
    BY <1>2, <1>7, <1>9
  <1>12. \/ UNCHANGED client
         \/ /\ client[c].step = "wait" /\ client[c].op = o
            /\ Resolved(c, t.value)
         \/ client[c].step = "called" /\ client[c].op = o
    BY <1>3, <1>8, <1>10, <1>11, ReplyIs
  <1>13. ~(client[c].step = "called" /\ client[c].op = o)
    <2> SUFFICES ASSUME client[c].step = "called", client[c].op = o PROVE FALSE
      OBVIOUS
    <2>1. ~Asked(r, v, c, o)
      BY DEF CallInv
    <2>2. Asked(r, v, c, o)
      BY <1>1, <1>2, <1>5 DEF Asked
    <2> QED
      BY <2>1, <2>2
  <1> QED
    BY <1>1, <1>2, <1>5, <1>6, <1>12, <1>13

\* The reply of a hook reaches its call or is not sent, and nobody who waits for a variable.
LEMMA CallIs ==
    ASSUME OneSecret, Formed, \A c \in Clients : CallInv(c),
           NEW r \in Replicas, Call(r)
    PROVE  \E c \in Clients, o \in 1..asks + hooks, a \in Args :
              /\ task[r]["call"].step = "check" /\ task[r]["call"].msg = CallMsg(c, o, a)
              /\ \/ UNCHANGED client /\ ~(client[c].step = "called" /\ client[c].op = o)
                 \/ /\ client[c].step = "called" /\ client[c].op = o
                    /\ \E k \in Ended(client[c]) : SetClient(c, k)
  <1>1. PICK t : t = task[r]["call"]
    OBVIOUS
  <1>2. /\ t.step = "check"
        /\ \E ok \in BOOLEAN : Reply(r, "call", t.msg.data.payload, [ok |-> ok])
    BY <1>1 DEF Call, At
  <1>3. "call" \in Loops
    BY LoopsAre
  <1>4. t \in Tasks /\ FitsTask("call", t)
    BY <1>1, <1>3, TaskIs
  <1>5. PICK c \in Clients, o \in 1..asks + hooks, a \in Args : t.msg = CallMsg(c, o, a)
    BY <1>2, <1>4 DEF FitsTask, Fits
  <1>6. o \in Nat
    BY <1>5
  <1>7. PICK to : to = t.msg.data.payload
    OBVIOUS
  <1>8. to.client = c /\ to.op = o
    BY <1>5, <1>6, <1>7, CallMsgIs
  <1>9. PICK p : p # NilPayload /\ Reply(r, "call", to, p)
    <2>1. PICK ok \in BOOLEAN : Reply(r, "call", to, [ok |-> ok])
      BY <1>2, <1>7
    <2>2. [ok |-> ok] \in [ok : BOOLEAN]
      OBVIOUS
    <2> QED
      BY <2>1, <2>2, ConstantsAssumption
  <1>10. \/ UNCHANGED client /\ ~(client[c].step = "called" /\ client[c].op = o)
         \/ client[c].step = "wait" /\ client[c].op = o
         \/ /\ client[c].step = "called" /\ client[c].op = o
            /\ \E k \in Ended(client[c]) : SetClient(c, k)
    BY <1>3, <1>8, <1>9, ReplyIs
  <1>11. ~(client[c].step = "wait" /\ client[c].op = o)
    <2> SUFFICES ASSUME client[c].step = "wait", client[c].op = o PROVE FALSE
      OBVIOUS
    <2>1. ~Called(r, c, o)
      BY DEF CallInv
    <2>2. Called(r, c, o)
      BY <1>1, <1>2, <1>5 DEF Called
    <2> QED
      BY <2>1, <2>2
  <1> QED
    BY <1>1, <1>2, <1>5, <1>10, <1>11

\* Formed is kept: an answer.
LEMMA FormedAnswer ==
    ASSUME OneSecret, Formed, \A c \in Clients : CallInv(c),
           NEW r \in Replicas, NEW v \in Variables, Answer(r, v)
    PROVE  Formed'
  <1>1. /\ At(r, v, "reply") /\ SetTask(r, v, Idle) /\ UNCHANGED <<bucket, inbox>>
    BY DEF Answer
  <1>2. client' \in [Clients -> Calls]
    <2>1. client \in [Clients -> Calls]
      BY DEF Formed, Typed
    <2>2. PICK c \in Clients, n \in Nat :
             UNCHANGED client \/ (client[c].step = "wait" /\ Resolved(c, n))
      BY AnswerIs
    <2>3. CASE client[c].step = "wait" /\ Resolved(c, n)
      <3>1. client[c] \in Calls /\ client[c].step \in Open
        BY <2>1, <2>3 DEF Open
      <3> QED
        BY <2>1, <2>3, <3>1, CallsFormed, Clienting DEF Resolved
    <2> QED
      BY <2>1, <2>2, <2>3
  <1>3. v \in Loops
    BY LoopsAre
  <1> QED
    BY <1>1, <1>2, <1>3, IdleFits, FormedStepOf

\* Formed is kept: the reply of a hook.
LEMMA FormedCall ==
    ASSUME OneSecret, Formed, \A c \in Clients : CallInv(c),
           NEW r \in Replicas, Call(r)
    PROVE  Formed'
  <1>1. /\ At(r, "call", "check") /\ SetTask(r, "call", Idle) /\ UNCHANGED <<bucket, inbox>>
    BY DEF Call
  <1>2. client' \in [Clients -> Calls]
    <2>1. client \in [Clients -> Calls]
      BY DEF Formed, Typed
    <2>2. \E c \in Clients :
             \/ UNCHANGED client
             \/ client[c].step = "called" /\ \E k \in Ended(client[c]) : SetClient(c, k)
      BY CallIs
    <2>3. ASSUME NEW c \in Clients, client[c].step = "called",
                 NEW k \in Ended(client[c]), SetClient(c, k)
          PROVE  client' \in [Clients -> Calls]
      <3>1. client[c] \in CalledCalls
        BY <2>1, <2>3, CallForms
      <3>2. k \in Calls
        BY <3>1, EndedIs
      <3> QED
        BY <2>1, <2>3, <3>2, Clienting
    <2> QED
      BY <2>1, <2>2, <2>3
  <1>3. "call" \in Loops /\ "call" \notin Variables
    BY LoopsAre
  <1> QED
    BY <1>1, <1>2, <1>3, IdleFits, FormedStepOf

\* Formed is kept: the event of a hook is handled or dropped.
LEMMA FormedEvent ==
    ASSUME Formed, NEW r \in Replicas, Event(r)
    PROVE  Formed'
  <1>1. At(r, "event", "check") /\ SetTask(r, "event", Idle) /\ UNCHANGED <<bucket, inbox, client>>
    BY DEF Event
  <1>2. client' \in [Clients -> Calls]
    BY <1>1 DEF Formed, Typed
  <1>3. "event" \in Loops /\ "event" \notin Variables
    BY LoopsAre
  <1> QED
    BY <1>1, <1>2, <1>3, IdleFits, FormedStepOf

\* What a crash leaves.
LEMMA CrashIs ==
    ASSUME Typed, NEW r \in Replicas, Crash(r)
    PROVE  /\ inbox' \in [Replicas -> [Loops -> Seq(Messages)]]
           /\ task' \in [Replicas -> [Loops -> Tasks]]
           /\ \A l \in Loops : inbox'[r][l] = <<>> /\ task'[r][l] = Idle
           /\ \A q \in Replicas, l \in Loops :
                 q # r => inbox'[q][l] = inbox[q][l] /\ task'[q][l] = task[q][l]
           /\ up' = up \ {r}
           /\ UNCHANGED <<bounds, life, alive, bucket, client, asks, hooks, plain>>
  <1>1. /\ inbox \in [Replicas -> [Loops -> Seq(Messages)]]
        /\ task \in [Replicas -> [Loops -> Tasks]]
    BY DEF Typed
  <1>2. <<>> \in Seq(Messages) /\ Idle \in Tasks
    BY IdleFits
  <1>3. /\ inbox' = [inbox EXCEPT ![r] = [l \in Loops |-> <<>>]]
        /\ task' = [task EXCEPT ![r] = [l \in Loops |-> Idle]]
    BY DEF Crash
  <1>4. /\ [l \in Loops |-> <<>>] \in [Loops -> Seq(Messages)]
        /\ [l \in Loops |-> Idle] \in [Loops -> Tasks]
    BY <1>2
  <1>5. /\ inbox' \in [Replicas -> [Loops -> Seq(Messages)]]
        /\ task' \in [Replicas -> [Loops -> Tasks]]
    BY <1>1, <1>3, <1>4
  <1>6. \A l \in Loops : inbox'[r][l] = <<>> /\ task'[r][l] = Idle
    BY <1>1, <1>3
  <1>7. \A q \in Replicas, l \in Loops :
           q # r => inbox'[q][l] = inbox[q][l] /\ task'[q][l] = task[q][l]
    BY <1>1, <1>3
  <1> QED
    BY <1>5, <1>6, <1>7 DEF Crash

\* Formed is kept: a crash.
LEMMA FormedCrash ==
    ASSUME Formed, NEW r \in Replicas, Crash(r)
    PROVE  Formed'
  <1>1. /\ inbox' \in [Replicas -> [Loops -> Seq(Messages)]]
        /\ task' \in [Replicas -> [Loops -> Tasks]]
        /\ \A l \in Loops : inbox'[r][l] = <<>> /\ task'[r][l] = Idle
        /\ \A q \in Replicas, l \in Loops :
              q # r => inbox'[q][l] = inbox[q][l] /\ task'[q][l] = task[q][l]
        /\ up' = up \ {r}
        /\ UNCHANGED <<bounds, life, alive, bucket, client, asks, hooks, plain>>
    BY CrashIs DEF Formed
  <1>2. Typed'
    BY <1>1 DEF Formed, Typed
  <1>3. Posted'
    <2>1. life' = life /\ asks' = asks /\ hooks' = hooks /\ plain' = plain
      BY <1>1
    <2>2. /\ \A l, m : Fits(l, m) => Fits(l, m)'
          /\ \A l, m : Foreign(l, m) => Foreign(l, m)'
      BY <2>1 DEF Fits, Foreign, PlainMsg
    <2>3. \A l, t : FitsTask(l, t) => FitsTask(l, t)'
      BY <2>1, <2>2 DEF FitsTask
    <2>4. ASSUME NEW q \in Replicas, NEW l \in Loops
          PROVE  /\ \A m \in Range(inbox'[q][l]) : Fits(l, m)' \/ Foreign(l, m)'
                 /\ FitsTask(l, task[q][l])'
      <3>1. CASE q = r
        <4>1. Range(inbox'[q][l]) = {}
          BY <1>1, <3>1, EmptyRange
        <4>2. FitsTask(l, task[q][l])'
          BY <1>1, <3>1, IdleFits DEF FitsTask
        <4> QED
          BY <4>1, <4>2
      <3>2. CASE q # r
        <4>1. PICK t : t = task[q][l]
          OBVIOUS
        <4>2. FitsTask(l, t)' /\ task'[q][l] = t
          BY <1>1, <2>3, <3>2, <4>1 DEF Posted, Formed
        <4>3. FitsTask(l, task[q][l])'
          BY <4>2 DEF FitsTask
        <4> QED
          BY <1>1, <2>2, <3>2, <4>3 DEF Posted, Formed
      <3> QED
        BY <3>1, <3>2
    <2> QED
      BY <2>4 DEF Posted
  <1>4. Valued'
    <2>1. \A q \in Replicas, v \in Variables :
             task'[q][v].step \in {"store", "reply"} => task'[q][v] = task[q][v]
      BY <1>1, LoopsAre, IdleFits
    <2>2. GlobalValue' = GlobalValue /\ \A v, n : Known(v, n)' <=> Known(v, n)
      BY <1>1 DEF GlobalValue, Known
    <2> QED
      BY <1>1, <2>1, <2>2 DEF Formed, Valued
  <1> QED
    BY <1>2, <1>3, <1>4 DEF Formed

\* Formed holds at first.
LEMMA FormedInit == Init => Formed
  <1> SUFFICES ASSUME Init PROVE Formed
    OBVIOUS
  <1>1. /\ bounds \in Bounds /\ life = 0 /\ alive = FALSE /\ up = Replicas
        /\ asks = 0 /\ hooks = 0 /\ plain = FALSE
        /\ bucket = [k \in Keys |-> 0] /\ client = [c \in Clients |-> Idle]
    BY DEF Init
  <1>2. \A r \in Replicas, l \in Loops : inbox[r][l] = <<>> /\ task[r][l] = Idle
    BY DEF Init
  <1>3. <<>> \in Seq(Messages) /\ Idle \in Tasks /\ Idle \in Calls
    BY IdleFits
  <1>4. /\ inbox \in [Replicas -> [Loops -> Seq(Messages)]]
        /\ task \in [Replicas -> [Loops -> Tasks]]
    BY <1>3 DEF Init
  <1>5. life \in 0..bounds.lives
    <2>1. bounds \in [lives : Nat, asks : Nat, asked : SUBSET Variables, hooks : Nat]
      BY <1>1, ConstantsAssumption
    <2>2. bounds.lives \in Nat
      BY <2>1
    <2> QED
      BY <1>1, <2>2, PlusOne
  <1>6. Typed
    <2>1. 0 \in Nat /\ FALSE \in BOOLEAN /\ (FALSE = TRUE => 0 # 0)
      OBVIOUS
    <2>2. bucket \in [Keys -> Nat] /\ client \in [Clients -> Calls]
      BY <1>1, <1>3
    <2> QED
      BY <1>1, <1>4, <1>5, <2>1, <2>2 DEF Typed
  <1>7. Posted
    <2>1. \A r \in Replicas, l \in Loops : Range(inbox[r][l]) = {}
      BY <1>2, EmptyRange
    <2> QED
      BY <1>2, <2>1, IdleFits DEF Posted
  <1>8. Valued
    <2>1. \A v \in Variables : bucket[VarKey(v)] = 0 /\ bucket[SessionVarKey(v)] = 0
      BY <1>1, KeysAre
    <2>2. \A r \in Replicas, v \in Variables : task[r][v].step = "idle"
      BY <1>2, LoopsAre, IdleFits
    <2>3. 0 \in 0..life
      BY <1>6, GlobalIs
    <2> QED
      BY <2>1, <2>2, <2>3 DEF Valued
  <1> QED
    BY <1>6, <1>7, <1>8 DEF Formed

\* Formed is kept by a step in which nothing happens.
LEMMA FormedUnchanged == Formed /\ UNCHANGED vars => Formed'
  <1> SUFFICES ASSUME Formed, UNCHANGED vars PROVE Formed'
    OBVIOUS
  <1>1. life' = life /\ asks' = asks /\ hooks' = hooks /\ plain' = plain /\ bounds' = bounds
    BY DEF vars
  <1>2. /\ \A l, m : Fits(l, m) => Fits(l, m)'
        /\ \A l, m : Foreign(l, m) => Foreign(l, m)'
    BY <1>1 DEF Fits, Foreign, LifeMsg, AskMsg, CallMsg, PlainMsg
  <1>3. \A l, t : FitsTask(l, t) => FitsTask(l, t)'
    BY <1>1, <1>2 DEF FitsTask
  <1>4. inbox' = inbox /\ task' = task
    BY DEF vars
  <1>5. ASSUME NEW q \in Replicas, NEW l \in Loops
        PROVE  /\ \A m \in Range(inbox'[q][l]) : Fits(l, m)' \/ Foreign(l, m)'
               /\ FitsTask(l, task[q][l])'
    <2>1. PICK t : t = task[q][l]
      OBVIOUS
    <2>2. FitsTask(l, t)'
      BY <1>3, <2>1 DEF Formed, Posted
    <2>3. FitsTask(l, task[q][l])'
      BY <1>4, <2>1, <2>2 DEF FitsTask
    <2> QED
      BY <1>2, <1>4, <2>3 DEF Formed, Posted
  <1>6. Posted'
    BY <1>5 DEF Posted
  <1>7. Typed'
    BY DEF vars, Typed, Formed
  <1>8. Valued'
    BY <1>1 DEF vars, Valued, Formed, Known, GlobalValue
  <1> QED
    BY <1>6, <1>7, <1>8 DEF Formed

\* Formed is kept by every step of a resolution.
LEMMA FormedResolution ==
    ASSUME OneSecret, Formed, Numbered, NEW c \in Clients, Resolution(c)
    PROVE  Formed'
  <1>1. \A v \in Variables : SessionVarKey(v) \in Keys /\ VarKey(v) \in Keys
    BY KeysAre
  <1>2. CASE Lookup(c, "session", SessionVarKey(client[c].var), "global")
    <2>1. client[c].var \in Variables
      BY <1>2, OpenIs DEF Lookup, Busy, Open
    <2> QED
      BY <1>1, <1>2, <2>1, FormedLookup DEF Open
  <1>3. CASE Lookup(c, "global", VarKey(client[c].var), "ask")
    <2>1. client[c].var \in Variables
      BY <1>3, OpenIs DEF Lookup, Busy, Open
    <2> QED
      BY <1>1, <1>3, <2>1, FormedLookup DEF Open
  <1> QED
    BY <1>2, <1>3, FormedAsk, FormedTimeOut DEF Resolution

\* Formed is kept by every step.
LEMMA FormedStep ==
    ASSUME OneSecret, Formed, \A c \in Clients : CallInv(c), [Next]_vars
    PROVE  Formed'
  <1>1. Numbered
    BY DEF Numbered, CallInv, Open
  <1>2. CASE Create
    BY <1>2, FormedCreate
  <1>3. CASE Delete
    BY <1>3, FormedDelete
  <1>4. ASSUME NEW c \in Clients,
               \/ \E v \in Variables : ResolveVariable(c, v)
               \/ \E args \in Args : CallHook(c, args)
               \/ Resolution(c) \/ Return(c)
        PROVE  Formed'
    BY <1>1, <1>4, FormedResolveVariable, FormedCallHook, FormedResolution, FormedReturn
  <1>5. ASSUME NEW args \in Args, PublishEventHook(args) PROVE Formed'
    BY <1>5, FormedPublishEventHook
  <1>6. ASSUME NEW r \in Replicas, Crash(r) PROVE Formed'
    BY <1>6, FormedCrash
  <1>7. ASSUME NEW r \in Replicas, NEW l \in Loops, Loop(r, l) PROVE Formed'
    BY <1>7, FormedTake, FormedDeleteVariable, FormedCreated, FormedResolve, FormedStore,
       FormedAnswer, FormedCall, FormedEvent DEF Loop
  <1>8. ASSUME NEW l \in {"call", "event"}, Plain(l) PROVE Formed'
    BY <1>8, FormedPlain
  <1>9. CASE UNCHANGED vars
    BY <1>9, FormedUnchanged
  <1> QED
    BY <1>2, <1>3, <1>4, <1>5, <1>6, <1>7, <1>8, <1>9 DEF Next

-----------------------------------------------------------------------------
(* What is left of a life that is over.                                    *)

\* Two lifecycle events are one only if they say the same.
LEMMA LivesDiffer ==
    ASSUME OneSecret, NEW n \in Nat, NEW p \in Nat
    PROVE  /\ LifeMsg("created", n) # LifeMsg("deleted", p)
           /\ LifeMsg("created", n) = LifeMsg("created", p) => n = p
           /\ LifeMsg("deleted", n) = LifeMsg("deleted", p) => n = p
  <1>1. /\ LifeMsg("created", n).data.payload = n /\ LifeMsg("created", p).data.payload = p
        /\ LifeMsg("deleted", n).data.payload = n /\ LifeMsg("deleted", p).data.payload = p
        /\ LifeMsg("deleted", p).data.ch = ChLifecycle(Tenant, "deleted")
        /\ ~(LifeMsg("created", n).data.ch = ChLifecycle(Tenant, "deleted"))
    BY LifeMsgIs
  <1> QED
    BY <1>1

\* The state after a step.
LEMMA ToDeleteNext ==
    ASSUME NEW r, NEW n, NEW v
    PROVE  ToDelete(r, n, v)' <=>
              \/ LifeMsg("deleted", n) \in Range(inbox'[r]["lifecycle"])
              \/ /\ task'[r]["lifecycle"].step = "delete" /\ task'[r]["lifecycle"].life = n
                 /\ v \in task'[r]["lifecycle"].left
  BY DEF ToDelete, LifeMsg

\* ToCreate, after a step.
LEMMA ToCreateNext ==
    ASSUME NEW r, NEW n
    PROVE  ToCreate(r, n)' <=>
              \/ LifeMsg("created", n) \in Range(inbox'[r]["lifecycle"])
              \/ task'[r]["lifecycle"].step = "created" /\ task'[r]["lifecycle"].life = n
  BY DEF ToCreate, LifeMsg

\* Clean, after a step.
LEMMA CleanNext ==
    ASSUME NEW n, NEW v
    PROVE  Clean(n, v)' <=>
              /\ bucket'[SessionVarKey(v)] # n
              /\ \A r \in up' : ~ToCreate(r, n)' /\ ~ToStore(r, n, v)'
              /\ n = life' => /\ \A c \in Clients : ~Asking(c, v)'
                              /\ \A r \in up' : ~Computing(r, v)'
  BY DEF Clean, SessionVarKey

\* The properties speak of the messages' channels and payloads.
LEMMA PendingIs ==
    ASSUME OneSecret, Formed, NEW n \in 1..life, NEW v
    PROVE  Pending(n, v) <=> \E r \in up : ToDelete(r, n, v)
  <1>1. life \in Nat /\ n \in Nat
    BY NumbersAre DEF Formed
  <1>2. "lifecycle" \in Loops /\ up \subseteq Replicas
    BY LoopsAre DEF Formed, Typed
  <1>3. ASSUME NEW r \in up, NEW m \in Range(inbox[r]["lifecycle"])
        PROVE  m.data.ch = ChLifecycle(Tenant, "deleted") /\ m.data.payload = n
                  <=> m = LifeMsg("deleted", n)
    <2>1. Fits("lifecycle", m)
      BY <1>2, LoopsAre DEF Formed, Posted, Foreign
    <2>2. PICK kind \in {"created", "deleted"}, p \in 1..life : m = LifeMsg(kind, p)
      BY <2>1 DEF Fits
    <2>3. p \in Nat
      BY <1>1, <2>2
    <2> QED
      BY <1>1, <2>2, <2>3, LifeMsgIs
  <1>4. (\E m \in Queued("lifecycle") :
            m.data.ch = ChLifecycle(Tenant, "deleted") /\ m.data.payload = n)
           <=> \E r \in up : LifeMsg("deleted", n) \in Range(inbox[r]["lifecycle"])
    BY <1>3 DEF Queued
  <1>5. (\E t \in Running("lifecycle") : t.step = "delete" /\ t.life = n /\ v \in t.left)
           <=> \E r \in up : /\ task[r]["lifecycle"].step = "delete"
                             /\ task[r]["lifecycle"].life = n
                             /\ v \in task[r]["lifecycle"].left
    BY DEF Running
  <1> QED
    BY <1>4, <1>5 DEF Pending, ToDelete

\* What UnderWay says, in terms of the loops.
LEMMA UnderWayIs ==
    ASSUME OneSecret, Formed, NEW n \in 1..life, NEW v, ~UnderWay(n, v)
    PROVE  /\ \A r \in up : ~ToCreate(r, n) /\ ~ToStore(r, n, v) /\ ~Computing(r, v)
           /\ \A c \in Clients : ~Asking(c, v)
  <1>1. life \in Nat /\ n \in Nat
    BY NumbersAre DEF Formed
  <1>2. ASSUME NEW r \in up PROVE ~ToCreate(r, n)
    <2>1. ~(task[r]["lifecycle"].step = "created" /\ task[r]["lifecycle"].life = n)
      BY DEF UnderWay, Running
    <2>2. LifeMsg("created", n) \notin Range(inbox[r]["lifecycle"])
      <3>1. /\ LifeMsg("created", n).data.ch = ChLifecycle(Tenant, "created")
            /\ LifeMsg("created", n).data.payload = n
        BY <1>1, LifeMsgIs
      <3>2. \A m \in Range(inbox[r]["lifecycle"]) :
               ~(m.data.ch = ChLifecycle(Tenant, "created") /\ m.data.payload = n)
        BY DEF UnderWay, Queued
      <3> QED
        BY <3>1, <3>2
    <2> QED
      BY <2>1, <2>2 DEF ToCreate
  <1>3. ASSUME NEW r \in up PROVE ~ToStore(r, n, v) /\ ~Computing(r, v)
    <2>1. task[r][v].step \notin {"resolve", "store"}
      BY DEF UnderWay, Running
    <2>2. Range(inbox[r][v]) = {}
      BY DEF UnderWay, Queued
    <2> QED
      BY <2>1, <2>2 DEF ToStore, Computing
  <1>4. \A c \in Clients : ~Asking(c, v)
    BY DEF UnderWay, Asking
  <1> QED
    BY <1>2, <1>3, <1>4

\* The lives that were over stay so, with what is said of them.
LEMMA SweptStill ==
    ASSUME Swept, life' = life, alive' = alive,
           \A n \in 1..life, v \in Scoped :
               (n = life => alive # TRUE) =>
                   /\ n \in disturbed => n \in disturbed'
                   /\ \A r \in up : ToDelete(r, n, v) =>
                         \/ n \in disturbed' \/ (\E q \in up' : ToDelete(q, n, v)')
                         \/ Clean(n, v)'
                   /\ Clean(n, v) => n \in disturbed' \/ Clean(n, v)'
    PROVE  Swept'
  <1> SUFFICES ASSUME NEW n \in 1..life, NEW v \in Scoped, n = life => ~alive
               PROVE  n \in disturbed' \/ (\E q \in up' : ToDelete(q, n, v)') \/ Clean(n, v)'
    BY DEF Swept
  <1>1. n \in disturbed \/ (\E r \in up : ToDelete(r, n, v)) \/ Clean(n, v)
    BY DEF Swept
  <1> QED
    BY <1>1

\* Steps of the agent and of its clients, when no life begins or ends.
LEMMA SweptAgent ==
    ASSUME OneSecret, Formed, Swept, UNCHANGED <<life, alive, bucket, up, task, disturbed>>,
           \A r \in Replicas : inbox'[r]["lifecycle"] = inbox[r]["lifecycle"],
           alive # TRUE =>
               \A v \in Scoped :
                   /\ \A c \in Clients : Asking(c, v)' => \E d \in Clients : Asking(d, v)
                   /\ \A r \in up : Range(inbox'[r][v]) # {} =>
                         Range(inbox[r][v]) # {} \/ \E d \in Clients : Asking(d, v)
    PROVE  Swept'
  <1>1. up \subseteq Replicas
    BY DEF Formed, Typed
  <1>2. ASSUME NEW r \in up, NEW n, NEW v
        PROVE  /\ ToDelete(r, n, v)' <=> ToDelete(r, n, v)
               /\ ToCreate(r, n)' <=> ToCreate(r, n)
               /\ ToStore(r, n, v)' <=> ToStore(r, n, v)
    <2>1. inbox'[r]["lifecycle"] = inbox[r]["lifecycle"] /\ task' = task
      BY <1>1
    <2>2. ToStore(r, n, v)' <=> ToStore(r, n, v)
      BY <2>1 DEF ToStore
    <2> QED
      BY <2>1, <2>2, ToDeleteNext, ToCreateNext DEF ToDelete, ToCreate
  <1>3. ASSUME NEW n \in 1..life, NEW v \in Scoped, n = life => alive # TRUE, Clean(n, v)
        PROVE  Clean(n, v)'
    <2>1. \A r \in up' : ~ToCreate(r, n)' /\ ~ToStore(r, n, v)'
      BY <1>2, <1>3 DEF Clean
    <2>2. ASSUME n = life'
          PROVE  /\ \A c \in Clients : ~Asking(c, v)'
                 /\ \A r \in up' : ~Computing(r, v)'
      <3>1. /\ \A c \in Clients : ~Asking(c, v)
            /\ \A r \in up : ~Computing(r, v)
        BY <1>3, <2>2 DEF Clean
      <3>2. ASSUME NEW r \in up' PROVE ~Computing(r, v)'
        <4>1. Range(inbox[r][v]) = {} /\ task[r][v].step \notin {"resolve", "store"}
          BY <3>1 DEF Computing
        <4>2. Range(inbox'[r][v]) = {}
          BY <1>3, <2>2, <3>1, <4>1
        <4> QED
          BY <4>1, <4>2 DEF Computing
      <3> QED
        BY <1>3, <2>2, <3>1, <3>2
    <2>3. bucket'[SessionVarKey(v)] # n
      BY <1>3 DEF Clean
    <2> QED
      BY <2>1, <2>2, <2>3, CleanNext
  <1> QED
    BY <1>2, <1>3, SweptStill

\* A step of one client, which may send something that is no lifecycle event.
LEMMA SweptClient ==
    ASSUME OneSecret, Formed, Swept, NEW c \in Clients,
           UNCHANGED <<life, alive, bucket, up, task, disturbed>>,
           \A d \in Clients : d # c => client'[d] = client[d],
           alive # TRUE => \A v \in Scoped : Asking(c, v)' => Asking(c, v),
           \/ UNCHANGED inbox
           \/ \E l \in Loops, m \in Messages :
                 /\ Deliver(l, m)
                 /\ l \in {"call", "event"} \/ (l \in Variables /\ Asking(c, l))
    PROVE  Swept'
  <1>1. inbox \in [Replicas -> [Loops -> Seq(Messages)]] /\ up \subseteq Replicas
    BY DEF Formed, Typed
  <1>2. ASSUME NEW v \in Scoped, NEW d \in Clients, Asking(d, v)', alive # TRUE
        PROVE  Asking(d, v)
    <2>1. CASE d = c
      BY <1>2, <2>1
    <2>2. CASE d # c
      <3>1. client'[d] = client[d]
        BY <2>2
      <3> QED
        BY <1>2, <3>1 DEF Asking
    <2> QED
      BY <2>1, <2>2
  <1>3. CASE UNCHANGED inbox
    BY <1>2, <1>3, SweptAgent
  <1>4. ASSUME NEW l \in Loops, NEW m \in Messages, Deliver(l, m),
               l \in {"call", "event"} \/ (l \in Variables /\ Asking(c, l))
        PROVE  Swept'
    <2>1. PICK r \in up : inbox' = [inbox EXCEPT ![r][l] = Append(@, m)]
      BY <1>4 DEF Deliver
    <2>2. \A q \in Replicas, k \in Loops : q # r \/ k # l => inbox'[q][k] = inbox[q][k]
      BY <1>1, <2>1, Queueing
    <2>3. l # "lifecycle" /\ "lifecycle" \in Loops
      BY <1>4, LoopsAre
    <2>4. \A q \in Replicas : inbox'[q]["lifecycle"] = inbox[q]["lifecycle"]
      BY <2>2, <2>3
    <2>5. ASSUME NEW v \in Scoped, NEW q \in up
          PROVE  inbox'[q][v] = inbox[q][v] \/ \E d \in Clients : Asking(d, v)
      <3>1. v \in Variables /\ v \in Loops /\ v \notin {"call", "event"} /\ q \in Replicas
        BY <1>1, LoopsAre
      <3>2. CASE v = l
        BY <1>4, <3>1, <3>2
      <3>3. CASE v # l
        BY <2>2, <3>1, <3>3
      <3> QED
        BY <3>2, <3>3
    <2>6. ASSUME NEW v \in Scoped, NEW q \in up, Range(inbox'[q][v]) # {}
          PROVE  Range(inbox[q][v]) # {} \/ \E d \in Clients : Asking(d, v)
      BY <2>5, <2>6
    <2> QED
      BY <1>2, <2>4, <2>6, SweptAgent
  <1> QED
    BY <1>3, <1>4

\* A client's step that sets no call asking.
LEMMA SweptQuiet ==
    ASSUME OneSecret, Formed, Swept, NEW c \in Clients, NEW k, SetClient(c, k),
           UNCHANGED <<life, alive, bucket, up, inbox, task, disturbed>>,
           k.step \in {"session", "global", "ask"} =>
               alive = TRUE \/ (client[c].step \in {"session", "global", "ask"} /\ k.var = client[c].var)
    PROVE  Swept'
  <1>1. client \in [Clients -> Calls]
    BY DEF Formed, Typed
  <1>2. client'[c] = k /\ \A d \in Clients : d # c => client'[d] = client[d]
    BY <1>1 DEF SetClient
  <1>3. ASSUME alive # TRUE, NEW v \in Scoped, Asking(c, v)' PROVE Asking(c, v)
    BY <1>2, <1>3 DEF Asking
  <1> QED
    BY <1>2, <1>3, SweptClient

\* Swept is kept: the bucket is read.
LEMMA SweptLookup ==
    ASSUME OneSecret, Formed, Swept, NEW c \in Clients, NEW step \in {"session", "global"},
           NEW key, NEW missed \in Open, Lookup(c, step, key, missed)
    PROVE  Swept'
  <1>1. /\ UNCHANGED <<life, alive, bucket, up, inbox, task, disturbed>> /\ client[c].step = step
        /\ \/ Resolved(c, bucket[key])
           \/ SetClient(c, [client[c] EXCEPT !.step = missed])
    BY DEF Lookup, Busy
  <1>2. client[c] \in OpenCalls
    BY <1>1, OpenIs DEF Open
  <1>3. CASE Resolved(c, bucket[key])
    <2>1. PICK k : /\ k = [step |-> "done", var |-> client[c].var, born |-> client[c].born,
                           owed |-> client[c].owed, value |-> bucket[key]]
                   /\ SetClient(c, k)
      BY <1>3 DEF Resolved
    <2>2. k.step = "done"
      BY <2>1
    <2> QED
      BY <1>1, <2>1, <2>2, SweptQuiet
  <1>4. CASE SetClient(c, [client[c] EXCEPT !.step = missed])
    <2>1. [client[c] EXCEPT !.step = missed].var = client[c].var
      BY <1>2 DEF OpenCalls
    <2> QED
      BY <1>1, <1>4, <2>1, SweptQuiet
  <1> QED
    BY <1>1, <1>3, <1>4

\* Swept is kept: the request goes from the client to a loop.
LEMMA SweptAsk ==
    ASSUME OneSecret, Formed, Numbered, Swept, NEW c \in Clients, Ask(c)
    PROVE  Swept'
  <1>1. UNCHANGED <<life, alive, bucket, up, task, disturbed>> /\ client[c].step = "ask"
    BY DEF Ask, Busy
  <1>2. PICK v, o : v = client[c].var /\ o = client[c].op
    OBVIOUS
  <1>3. client[c] \in OpenCalls /\ v \in Variables /\ o \in Nat
    BY <1>1, <1>2, OpenIs DEF Open
  <1>4. CASE Resolved(c, 0) /\ UNCHANGED inbox
    <2>1. PICK k : /\ k = [step |-> "done", var |-> client[c].var, born |-> client[c].born,
                           owed |-> client[c].owed, value |-> 0]
                   /\ SetClient(c, k)
      BY <1>4 DEF Resolved
    <2>2. k.step = "done"
      BY <2>1
    <2> QED
      BY <1>1, <1>4, <2>1, <2>2, SweptQuiet
  <1>5. CASE Deliver(v, AskMsg(v, c, o)) /\ SetClient(c, [client[c] EXCEPT !.step = "wait"])
    <2>1. AskMsg(v, c, o) \in Messages /\ v \in Loops
      BY <1>3, AskMsgIs, LoopsAre
    <2>2. [client[c] EXCEPT !.step = "wait"].step = "wait"
      BY <1>3 DEF OpenCalls
    <2>3. client \in [Clients -> Calls]
      BY DEF Formed, Typed
    <2>4. client'[c].step = "wait" /\ \A d \in Clients : d # c => client'[d] = client[d]
      BY <1>5, <2>2, <2>3 DEF SetClient
    <2>5. \A w : ~Asking(c, w)'
      BY <2>4 DEF Asking
    <2>6. Asking(c, v)
      BY <1>1, <1>2 DEF Asking
    <2>7. \E l \in Loops, m \in Messages :
                 /\ Deliver(l, m)
                 /\ l \in {"call", "event"} \/ (l \in Variables /\ Asking(c, l))
      BY <1>3, <1>5, <2>1, <2>6
    <2> QED
      BY <1>1, <2>4, <2>5, <2>7, SweptClient
  <1>6. \/ Deliver(v, AskMsg(v, c, o)) /\ SetClient(c, [client[c] EXCEPT !.step = "wait"])
        \/ Resolved(c, 0) /\ UNCHANGED inbox
    <2>1. \/ Deliver(client[c].var, AskMsg(client[c].var, c, client[c].op))
                /\ SetClient(c, [client[c] EXCEPT !.step = "wait"])
          \/ Resolved(c, 0) /\ UNCHANGED inbox
      BY DEF Ask, AskMsg
    <2>2. AskMsg(client[c].var, c, client[c].op) = AskMsg(v, c, o)
      BY <1>2
    <2> QED
      BY <1>2, <2>1, <2>2
  <1> QED
    BY <1>4, <1>5, <1>6

\* Swept is kept: the request times out.
LEMMA SweptTimeOut ==
    ASSUME OneSecret, Formed, Swept, NEW c \in Clients, TimeOut(c)
    PROVE  Swept'
  <1>1. UNCHANGED <<life, alive, bucket, up, inbox, task, disturbed>>
    BY DEF TimeOut, Busy
  <1>2. PICK k : /\ k = [step |-> "done", var |-> client[c].var, born |-> client[c].born,
                         owed |-> client[c].owed, value |-> 0]
                 /\ SetClient(c, k)
    BY DEF TimeOut, Resolved
  <1>3. k.step = "done"
    BY <1>2
  <1> QED
    BY <1>1, <1>2, <1>3, SweptQuiet

\* Swept is kept: the call returns.
LEMMA SweptReturn ==
    ASSUME OneSecret, Formed, Swept, NEW c \in Clients, Return(c)
    PROVE  Swept'
  <1>1. UNCHANGED <<life, alive, bucket, up, inbox, task, disturbed>> /\ SetClient(c, Idle)
    BY DEF Return, Busy
  <1> QED
    BY <1>1, IdleFits, SweptQuiet

\* Swept is kept: a call begins, in a session that lives.
LEMMA SweptResolveVariable ==
    ASSUME OneSecret, Formed, Swept, NEW c \in Clients, NEW v \in Variables,
           ResolveVariable(c, v)
    PROVE  Swept'
  <1>1. UNCHANGED <<life, alive, bucket, up, inbox, task, disturbed>> /\ alive = TRUE
    BY DEF ResolveVariable, Formed, Typed
  <1>2. \E k : SetClient(c, k)
    BY DEF ResolveVariable
  <1> QED
    BY <1>1, <1>2, SweptQuiet

\* Swept is kept: the call of a hook.
LEMMA SweptCallHook ==
    ASSUME OneSecret, Formed, Swept, NEW c \in Clients, NEW args \in Args, CallHook(c, args)
    PROVE  Swept'
  <1>1. UNCHANGED <<life, alive, bucket, up, task, disturbed>>
    BY DEF CallHook, UseHook
  <1>2. PICK o : o = asks + hooks + 1
    OBVIOUS
  <1>3. o \in Nat /\ "call" \in Loops
    BY <1>2, NumbersAre, LoopsAre DEF Formed
  <1>4. CallMsg(c, o, args) \in Messages
    BY <1>3, CallMsgIs
  <1>5. PICK k : SetClient(c, k) /\ k.step \in {"called", "answered"}
    <2>1. PICK x, y : /\ x = [step |-> "called", op |-> asks + hooks + 1, args |-> args]
                      /\ y = [step |-> "answered", args |-> args, ok |-> FALSE]
      OBVIOUS
    <2>2. x.step = "called" /\ y.step = "answered"
      BY <2>1
    <2>3. SetClient(c, x) \/ SetClient(c, y)
      BY <2>1 DEF CallHook
    <2> QED
      BY <2>2, <2>3
  <1>6. client'[c] = k /\ \A d \in Clients : d # c => client'[d] = client[d]
    BY <1>5 DEF SetClient, Formed, Typed
  <1>7. \A w : ~Asking(c, w)'
    BY <1>5, <1>6 DEF Asking
  <1>8. UNCHANGED inbox \/ Deliver("call", CallMsg(c, o, args))
    BY <1>2 DEF CallHook, CallMsg
  <1> QED
    BY <1>1, <1>3, <1>4, <1>6, <1>7, <1>8, SweptClient

\* What is published, by the agent or by another bus.
LEMMA SweptPublish ==
    ASSUME OneSecret, Formed, Swept, NEW l \in {"call", "event"}, NEW m \in Messages,
           UNCHANGED <<life, alive, bucket, up, task, client, disturbed>>,
           UNCHANGED inbox \/ Deliver(l, m)
    PROVE  Swept'
  <1>1. l \in Loops /\ l # "lifecycle" /\ "lifecycle" \in Loops
    BY LoopsAre
  <1>2. inbox \in [Replicas -> [Loops -> Seq(Messages)]] /\ up \subseteq Replicas
    BY DEF Formed, Typed
  <1>3. \A q \in Replicas, k \in Loops : k # l => inbox'[q][k] = inbox[q][k]
    <2>1. CASE UNCHANGED inbox
      BY <2>1
    <2>2. CASE Deliver(l, m)
      <3>1. PICK r \in up : inbox' = [inbox EXCEPT ![r][l] = Append(@, m)]
        BY <2>2 DEF Deliver
      <3> QED
        BY <1>1, <1>2, <3>1, Queueing
    <2> QED
      BY <2>1, <2>2
  <1>4. \A v \in Scoped : v \in Loops /\ v # l
    BY LoopsAre
  <1>5. \A d \in Clients, v \in Scoped : Asking(d, v)' => Asking(d, v)
    BY DEF Asking
  <1> QED
    BY <1>1, <1>2, <1>3, <1>4, <1>5, SweptAgent

\* What is published of the session's life.
LEMMA Publishing ==
    ASSUME OneSecret, Formed, NEW kind \in {"created", "deleted"}, NEW p \in Nat,
           PublishLifecycleEvent(kind, p), UNCHANGED <<bucket, up, task, client>>
    PROVE  /\ \A r \in Replicas, l \in Loops : l # "lifecycle" => inbox'[r][l] = inbox[r][l]
           /\ \A n, v : \A r \in up : ToDelete(r, n, v) => ToDelete(r, n, v)'
           /\ \A r \in up, n \in Nat : ToCreate(r, n)' =>
                 ToCreate(r, n) \/ (kind = "created" /\ n = p)
           /\ \A v : \A r \in up, n \in Nat : ToDelete(r, n, v)' =>
                 ToDelete(r, n, v) \/ (kind = "deleted" /\ n = p)
           /\ disturbed \subseteq disturbed'
           /\ kind = "deleted" => \/ p \in disturbed'
                                 \/ \E r \in up : \A v : ToDelete(r, p, v)'
  <1>1. PICK m : m = LifeMsg(kind, p)
    OBVIOUS
  <1>2. m \in Messages /\ "lifecycle" \in Loops
    BY <1>1, LifeMsgIs, LoopsAre
  <1>3. inbox \in [Replicas -> [Loops -> Seq(Messages)]] /\ up \subseteq Replicas
    BY DEF Formed, Typed
  <1>4. CASE /\ up = {} /\ UNCHANGED inbox
             /\ disturbed' = IF kind = "deleted" THEN disturbed \cup {p} ELSE disturbed
    BY <1>4
  <1>5. CASE Deliver("lifecycle", m) /\ UNCHANGED disturbed
    <2>1. PICK s \in up : inbox' = [inbox EXCEPT ![s]["lifecycle"] = Append(@, m)]
      BY <1>5 DEF Deliver
    <2>2. /\ Range(inbox'[s]["lifecycle"]) = Range(inbox[s]["lifecycle"]) \cup {m}
          /\ \A q \in Replicas, k \in Loops :
                q # s \/ k # "lifecycle" => inbox'[q][k] = inbox[q][k]
      BY <1>2, <1>3, <2>1, Queueing
    <2>3. ASSUME NEW r \in up
          PROVE  /\ Range(inbox[r]["lifecycle"]) \subseteq Range(inbox'[r]["lifecycle"])
                 /\ Range(inbox'[r]["lifecycle"]) \subseteq Range(inbox[r]["lifecycle"]) \cup {m}
      <3>1. CASE r = s
        BY <2>2, <3>1
      <3>2. CASE r # s
        <4>1. inbox'[r]["lifecycle"] = inbox[r]["lifecycle"]
          BY <1>2, <1>3, <2>2, <3>2
        <4> QED
          BY <4>1
      <3> QED
        BY <3>1, <3>2
    <2>5. ASSUME NEW r \in up, NEW n, NEW v, ToDelete(r, n, v) PROVE ToDelete(r, n, v)'
      BY <1>5, <2>3, <2>5, ToDeleteNext DEF ToDelete
    <2>6. ASSUME NEW r \in up, NEW n \in Nat, ToCreate(r, n)'
          PROVE  ToCreate(r, n) \/ (kind = "created" /\ n = p)
      <3>1. LifeMsg("created", n) = m => kind = "created" /\ n = p
        BY <1>1, LivesDiffer
      <3> QED
        BY <2>3, <2>6, <3>1, ToCreateNext DEF ToCreate
    <2>8. ASSUME NEW r \in up, NEW n \in Nat, NEW v, ToDelete(r, n, v)'
          PROVE  ToDelete(r, n, v) \/ (kind = "deleted" /\ n = p)
      <3>1. LifeMsg("deleted", n) = m => kind = "deleted" /\ n = p
        BY <1>1, LivesDiffer
      <3> QED
        BY <2>3, <2>8, <3>1, ToDeleteNext DEF ToDelete
    <2>7. kind = "deleted" => \A v : ToDelete(s, p, v)'
      BY <1>1, <2>2, ToDeleteNext
    <2> QED
      BY <1>3, <1>5, <2>2, <2>5, <2>6, <2>7, <2>8
  <1> QED
    BY <1>1, <1>4, <1>5 DEF PublishLifecycleEvent, LifeMsg

\* A life that is clean remains so when the session's life changes.
LEMMA CleanAcrossLives ==
    ASSUME Formed, NEW n \in 1..life, NEW v \in Scoped, Clean(n, v), n # life',
           UNCHANGED <<bucket, up, task>>, \A r \in up : ToCreate(r, n)' => ToCreate(r, n)
    PROVE  Clean(n, v)'
  <1>1. \A r \in up' : ~ToCreate(r, n)' /\ ~ToStore(r, n, v)'
    BY DEF Clean, ToStore
  <1>2. bucket'[SessionVarKey(v)] # n
    BY DEF Clean
  <1> QED
    BY <1>1, <1>2, CleanNext

\* A number up to the next one, and not the next one.
LEMMA Before ==
    ASSUME NEW a \in Nat, NEW n \in 1..a + 1, n # a + 1
    PROVE  n \in 1..a
  OBVIOUS

\* A number up to a bound is not the next one.
LEMMA NotNext == ASSUME NEW a \in Nat, NEW n \in 1..a PROVE n # a + 1 /\ n \in Nat
  OBVIOUS

\* Swept is kept: a life begins; those before it are over for good.
LEMMA SweptCreate ==
    ASSUME OneSecret, Formed, Swept, Create
    PROVE  Swept'
  <1>1. /\ ~alive /\ life' = life + 1 /\ alive' = TRUE /\ life \in Nat /\ life + 1 \in Nat
        /\ PublishLifecycleEvent("created", life + 1) /\ UNCHANGED <<bucket, up, task, client>>
    BY NumbersAre DEF Formed, Create
  <1>2. /\ \A n, v : \A r \in up : ToDelete(r, n, v) => ToDelete(r, n, v)'
        /\ \A r \in up, n \in Nat : ToCreate(r, n)' => ToCreate(r, n) \/ n = life + 1
        /\ disturbed \subseteq disturbed'
    BY <1>1, Publishing
  <1> SUFFICES ASSUME NEW n \in 1..life', NEW v \in Scoped, n = life' => ~alive'
               PROVE  n \in disturbed' \/ (\E q \in up' : ToDelete(q, n, v)') \/ Clean(n, v)'
    BY DEF Swept
  <1>3. n # life + 1 /\ n \in 1..life /\ n \in Nat
    BY <1>1, Before, NotNext
  <1>4. n \in disturbed \/ (\E r \in up : ToDelete(r, n, v)) \/ Clean(n, v)
    BY <1>1, <1>3 DEF Swept
  <1>5. Clean(n, v) => Clean(n, v)'
    BY <1>1, <1>2, <1>3, CleanAcrossLives
  <1> QED
    BY <1>1, <1>2, <1>4, <1>5

\* Swept is kept: a life ends, and its deletion is to come or is disturbed.
LEMMA SweptDelete ==
    ASSUME OneSecret, Formed, Swept, Delete
    PROVE  Swept'
  <1>1. /\ life' = life /\ life \in Nat
        /\ PublishLifecycleEvent("deleted", life) /\ UNCHANGED <<bucket, up, task, client>>
    BY NumbersAre DEF Formed, Delete
  <1>2. /\ \A n, v : \A r \in up : ToDelete(r, n, v) => ToDelete(r, n, v)'
        /\ \A r \in up, n \in Nat : ToCreate(r, n)' => ToCreate(r, n)
        /\ disturbed \subseteq disturbed'
        /\ life \in disturbed' \/ \E r \in up : \A v : ToDelete(r, life, v)'
    BY <1>1, Publishing
  <1> SUFFICES ASSUME NEW n \in 1..life', NEW v \in Scoped
               PROVE  n \in disturbed' \/ (\E q \in up' : ToDelete(q, n, v)') \/ Clean(n, v)'
    BY DEF Swept
  <1>3. n \in 1..life /\ n \in Nat
    BY <1>1, NotNext
  <1>4. CASE n = life
    BY <1>1, <1>2, <1>4
  <1>5. CASE n # life
    <2>1. n \in disturbed \/ (\E r \in up : ToDelete(r, n, v)) \/ Clean(n, v)
      BY <1>3, <1>5 DEF Swept
    <2>2. Clean(n, v) => Clean(n, v)'
      BY <1>1, <1>2, <1>3, <1>5, CleanAcrossLives
    <2> QED
      BY <1>1, <1>2, <2>1, <2>2
  <1> QED
    BY <1>4, <1>5

\* Steps of the loops of the hooks.
LEMMA SweptHook ==
    ASSUME Formed, Swept, UNCHANGED <<life, alive, up, bucket, disturbed>>,
           \A q \in Replicas, k \in Loops : k \notin {"call", "event"} =>
               inbox'[q][k] = inbox[q][k] /\ task'[q][k] = task[q][k],
           \A c \in Clients, v \in Scoped : Asking(c, v)' => Asking(c, v)
    PROVE  Swept'
  <1>1. up \subseteq Replicas /\ "lifecycle" \in Loops
    BY LoopsAre DEF Formed, Typed
  <1>2. ASSUME NEW q \in up, NEW n, NEW v \in Scoped
        PROVE  /\ ToDelete(q, n, v)' <=> ToDelete(q, n, v)
               /\ ToCreate(q, n)' <=> ToCreate(q, n)
               /\ ToStore(q, n, v)' <=> ToStore(q, n, v)
               /\ Computing(q, v)' <=> Computing(q, v)
    <2>1. /\ inbox'[q]["lifecycle"] = inbox[q]["lifecycle"]
          /\ task'[q]["lifecycle"] = task[q]["lifecycle"]
      BY <1>1
    <2>2. inbox'[q][v] = inbox[q][v] /\ task'[q][v] = task[q][v]
      BY <1>1, LoopsAre
    <2>3. ToDelete(q, n, v)' <=> ToDelete(q, n, v)
      BY <2>1, ToDeleteNext DEF ToDelete
    <2>4. ToCreate(q, n)' <=> ToCreate(q, n)
      BY <2>1, ToCreateNext DEF ToCreate
    <2>5. /\ ToStore(q, n, v)' <=> ToStore(q, n, v)
          /\ Computing(q, v)' <=> Computing(q, v)
      BY <2>2 DEF ToStore, Computing
    <2> QED
      BY <2>3, <2>4, <2>5
  <1>3. ASSUME NEW n, NEW v \in Scoped, Clean(n, v) PROVE Clean(n, v)'
    BY <1>2, <1>3, CleanNext DEF Clean
  <1> QED
    BY <1>2, <1>3, SweptStill

\* Steps of the lifecycle loop.
LEMMA CleanLifecycle ==
    ASSUME Formed, NEW n, NEW v \in Scoped, Clean(n, v), UNCHANGED <<life, up, client>>,
           \A q \in Replicas, k \in Loops : k # "lifecycle" =>
               inbox'[q][k] = inbox[q][k] /\ task'[q][k] = task[q][k],
           \A q \in up : ToCreate(q, n)' => ToCreate(q, n), bucket'[SessionVarKey(v)] # n
    PROVE  Clean(n, v)'
  <1>1. up \subseteq Replicas /\ v \in Loops /\ v # "lifecycle"
    BY LoopsAre DEF Formed, Typed
  <1>2. ASSUME NEW q \in up
        PROVE  /\ ToStore(q, n, v)' <=> ToStore(q, n, v)
               /\ Computing(q, v)' <=> Computing(q, v)
    <2>1. inbox'[q][v] = inbox[q][v] /\ task'[q][v] = task[q][v]
      BY <1>1
    <2> QED
      BY <2>1 DEF ToStore, Computing
  <1>3. \A c \in Clients : Asking(c, v)' <=> Asking(c, v)
    BY DEF Asking
  <1> QED
    BY <1>2, <1>3, CleanNext DEF Clean

\* What is known of the other loops after a step of one.
LEMMA OthersStay ==
    ASSUME Formed, NEW r \in Replicas, NEW l \in Loops, NEW t \in Tasks, SetTask(r, l, t),
           \/ UNCHANGED inbox
           \/ inbox[r][l] # <<>> /\ inbox' = [inbox EXCEPT ![r][l] = Tail(@)]
    PROVE  /\ task'[r][l] = t
           /\ \A q \in Replicas, k \in Loops : q # r \/ k # l =>
                  inbox'[q][k] = inbox[q][k] /\ task'[q][k] = task[q][k]
  <1>1. /\ task'[r][l] = t
        /\ \A q \in Replicas, k \in Loops : q # r \/ k # l => task'[q][k] = task[q][k]
    BY Tasking DEF Formed, Typed
  <1>2. \A q \in Replicas, k \in Loops : q # r \/ k # l => inbox'[q][k] = inbox[q][k]
    <2>1. CASE UNCHANGED inbox
      BY <2>1
    <2>2. CASE inbox[r][l] # <<>> /\ inbox' = [inbox EXCEPT ![r][l] = Tail(@)]
      BY <2>2, Taking DEF Formed, Typed
    <2> QED
      BY <2>1, <2>2
  <1> QED
    BY <1>1, <1>2

\* What a loop takes.
LEMMA TakeIs ==
    ASSUME OneSecret, Formed, NEW r \in Replicas, NEW l \in Loops, Take(r, l)
    PROVE  /\ r \in up /\ task[r][l].step = "idle" /\ task'[r][l] \in Tasks
           /\ task'[r][l].step \notin {"store", "reply"}
           /\ UNCHANGED <<bounds, life, alive, up, asks, hooks, plain, bucket, client, disturbed>>
           /\ \A q \in Replicas, k \in Loops : q # r \/ k # l =>
                  inbox'[q][k] = inbox[q][k] /\ task'[q][k] = task[q][k]
           /\ \E m \in Range(inbox[r][l]) :
                 /\ Range(inbox[r][l]) = Range(inbox'[r][l]) \cup {m}
                 /\ Fits(l, m) \/ Foreign(l, m)
                 /\ task'[r][l] = Start(r, l, m)
  <1>1. /\ At(r, l, "idle") /\ inbox[r][l] # <<>> /\ inbox' = [inbox EXCEPT ![r][l] = Tail(@)]
        /\ UNCHANGED <<bucket, client, disturbed>>
    BY DEF Take
  <1>2. PICK m, t : m = Head(inbox[r][l]) /\ t = Start(r, l, m)
    OBVIOUS
  <1>3. inbox \in [Replicas -> [Loops -> Seq(Messages)]]
    BY DEF Formed, Typed
  <1>4. /\ m \in Messages /\ m \in Range(inbox[r][l])
        /\ Range(inbox[r][l]) = Range(inbox'[r][l]) \cup {m}
    <2>1. /\ Head(inbox[r][l]) \in Messages
          /\ Range(inbox[r][l]) = Range(inbox'[r][l]) \cup {Head(inbox[r][l])}
      BY <1>1, <1>3, Taking
    <2> QED
      BY <1>2, <2>1
  <1>5. Fits(l, m) \/ Foreign(l, m)
    BY <1>4 DEF Formed, Posted
  <1>6. life \in Nat /\ asks + hooks \in Nat
    BY NumbersAre DEF Formed
  <1>7. t \in Tasks /\ t.step \notin {"store", "reply"}
    BY <1>2, <1>4, <1>5, <1>6, StartIs DEF Started
  <1>8. SetTask(r, l, t)
    BY <1>2 DEF Take
  <1>9. /\ task'[r][l] = t
        /\ \A q \in Replicas, k \in Loops : q # r \/ k # l =>
                  inbox'[q][k] = inbox[q][k] /\ task'[q][k] = task[q][k]
    BY <1>1, <1>7, <1>8, OthersStay
  <1>10. /\ r \in up /\ task[r][l].step = "idle"
         /\ UNCHANGED <<bounds, life, alive, up, asks, hooks, plain>>
    BY <1>1 DEF At
  <1> QED
    BY <1>1, <1>2, <1>4, <1>5, <1>7, <1>9, <1>10

\* Swept is kept: a loop takes a lifecycle event, and is at what it says.
LEMMA SweptTakeLifecycle ==
    ASSUME OneSecret, Formed, Swept, NEW r \in Replicas, Take(r, "lifecycle")
    PROVE  Swept'
  <1>1. "lifecycle" \in Loops /\ up \subseteq Replicas /\ life \in Nat /\ asks + hooks \in Nat
    BY LoopsAre, NumbersAre DEF Formed, Typed
  <1>2. /\ r \in up /\ task[r]["lifecycle"].step = "idle"
        /\ UNCHANGED <<life, alive, up, bucket, client, disturbed>>
        /\ \A q \in Replicas, k \in Loops : q # r \/ k # "lifecycle" =>
                  inbox'[q][k] = inbox[q][k] /\ task'[q][k] = task[q][k]
    BY <1>1, TakeIs
  <1>3. PICK m \in Range(inbox[r]["lifecycle"]) :
           /\ Range(inbox[r]["lifecycle"]) = Range(inbox'[r]["lifecycle"]) \cup {m}
           /\ Fits("lifecycle", m) \/ Foreign("lifecycle", m)
           /\ task'[r]["lifecycle"] = Start(r, "lifecycle", m)
    BY <1>1, TakeIs
  <1>4. PICK t : t = task'[r]["lifecycle"]
    OBVIOUS
  <1>5. m \in Messages
    <2>1. inbox[r]["lifecycle"] \in Seq(Messages)
      BY <1>1 DEF Formed, Typed
    <2> QED
      BY <1>3, <2>1 DEF Range
  <1>6. PICK p \in 1..life :
           \/ m = LifeMsg("deleted", p) /\ t = [step |-> "delete", life |-> p, left |-> Scoped]
           \/ m = LifeMsg("created", p) /\ t = [step |-> "created", life |-> p]
    <2>1. \E n \in 1..life :
             \/ m = LifeMsg("deleted", n)
                /\ Start(r, "lifecycle", m) = [step |-> "delete", life |-> n, left |-> Scoped]
             \/ m = LifeMsg("created", n)
                /\ Start(r, "lifecycle", m) = [step |-> "created", life |-> n]
      <3>1. Started("lifecycle", m, Start(r, "lifecycle", m))
        BY <1>1, <1>3, <1>5, StartIs
      <3> QED
        BY <3>1 DEF Started
    <2> QED
      BY <1>3, <1>4, <2>1
  <1>7. p \in Nat
    BY <1>1, <1>6
  <1>8. \/ /\ m = LifeMsg("deleted", p) /\ t.step = "delete" /\ t.life = p /\ t.left = Scoped
        \/ m = LifeMsg("created", p) /\ t.step = "created" /\ t.life = p
    BY <1>6
  <1>9. ASSUME NEW q \in up, NEW n \in Nat, NEW v \in Scoped, ToDelete(q, n, v)
        PROVE  ToDelete(q, n, v)'
    <2>1. CASE q # r
      <3>1. /\ inbox'[q]["lifecycle"] = inbox[q]["lifecycle"]
            /\ task'[q]["lifecycle"] = task[q]["lifecycle"]
        BY <1>1, <1>2, <2>1
      <3> QED
        BY <1>9, <3>1, ToDeleteNext DEF ToDelete
    <2>2. CASE q = r
      <3>1. LifeMsg("deleted", n) \in Range(inbox[r]["lifecycle"])
        BY <1>2, <1>9, <2>2 DEF ToDelete
      <3>2. CASE LifeMsg("deleted", n) \in Range(inbox'[r]["lifecycle"])
        BY <2>2, <3>2, ToDeleteNext
      <3>3. CASE LifeMsg("deleted", n) = m
        <4>1. t.step = "delete" /\ t.life = n /\ t.left = Scoped
          BY <1>7, <1>8, <3>3, LivesDiffer
        <4> QED
          BY <1>4, <2>2, <4>1, ToDeleteNext
      <3> QED
        BY <1>3, <3>1, <3>2, <3>3
    <2> QED
      BY <2>1, <2>2
  <1>10. ASSUME NEW q \in up, NEW n \in Nat, ToCreate(q, n)' PROVE ToCreate(q, n)
    <2>1. CASE q # r
      <3>1. /\ inbox'[q]["lifecycle"] = inbox[q]["lifecycle"]
            /\ task'[q]["lifecycle"] = task[q]["lifecycle"]
        BY <1>1, <1>2, <2>1
      <3> QED
        BY <1>10, <3>1, ToCreateNext DEF ToCreate
    <2>2. CASE q = r
      <3>1. \/ LifeMsg("created", n) \in Range(inbox'[r]["lifecycle"])
            \/ t.step = "created" /\ t.life = n
        BY <1>4, <1>10, <2>2, ToCreateNext
      <3>2. LifeMsg("created", n) \in Range(inbox[r]["lifecycle"])
        BY <1>3, <1>8, <3>1
      <3> QED
        BY <2>2, <3>2 DEF ToCreate
    <2> QED
      BY <2>1, <2>2
  <1>11. ASSUME NEW n \in 1..life, NEW v \in Scoped, Clean(n, v) PROVE Clean(n, v)'
    <2>1. n \in Nat /\ bucket'[SessionVarKey(v)] # n
      BY <1>1, <1>2, <1>11 DEF Clean
    <2>2. \A q \in Replicas, k \in Loops : k # "lifecycle" =>
               inbox'[q][k] = inbox[q][k] /\ task'[q][k] = task[q][k]
      BY <1>2
    <2> QED
      BY <1>2, <1>10, <1>11, <2>1, <2>2, CleanLifecycle
  <1>12. \A n \in 1..life : n \in Nat
    BY <1>1
  <1> QED
    BY <1>2, <1>9, <1>11, <1>12, SweptStill

\* A deletion of a variable: the task of the loop before and after it.
LEMMA DeletionIs ==
    ASSUME Formed, NEW r \in Replicas, DeleteVariable(r)
    PROVE  \E t \in [step : {"delete"}, life : 1..life, left : SUBSET Scoped] :
              /\ t = task[r]["lifecycle"] /\ r \in up
              /\ UNCHANGED <<bounds, life, alive, up, asks, hooks, plain, inbox, client>>
              /\ \A q \in Replicas, k \in Loops : q # r \/ k # "lifecycle" => task'[q][k] = task[q][k]
              /\ \/ \E u \in t.left :
                       /\ bucket' = [bucket EXCEPT ![SessionVarKey(u)] = 0]
                       /\ disturbed' = IF UnderWay(t.life, u)
                                       THEN disturbed \cup {t.life} ELSE disturbed
                       /\ task'[r]["lifecycle"] =
                              IF t.left = {u} THEN Idle ELSE [t EXCEPT !.left = t.left \ {u}]
                 \/ /\ disturbed' = disturbed \cup {t.life} /\ UNCHANGED bucket
                    /\ task'[r]["lifecycle"] = Idle
  <1>1. PICK t : t = task[r]["lifecycle"]
    OBVIOUS
  <1>2. /\ r \in up /\ UNCHANGED <<bounds, life, alive, up, asks, hooks, plain, inbox, client>>
        /\ t.step = "delete"
    BY <1>1 DEF DeleteVariable, At
  <1>3. "lifecycle" \in Loops
    BY LoopsAre
  <1>4. t \in Tasks /\ FitsTask("lifecycle", t)
    BY <1>1, <1>3, TaskIs
  <1>5. t \in [step : {"delete"}, life : Nat, left : SUBSET Variables]
    BY <1>2, <1>4, TaskForms
  <1>6. /\ t.left \subseteq Scoped /\ t.life \in 1..life
    BY <1>2, <1>4 DEF FitsTask
  <1>7. t \in [step : {"delete"}, life : 1..life, left : SUBSET Scoped]
    BY <1>5, <1>6
  <1>8. \/ \E u \in t.left :
              /\ bucket' = [bucket EXCEPT ![SessionVarKey(u)] = 0]
              /\ disturbed' = IF UnderWay(t.life, u) THEN disturbed \cup {t.life} ELSE disturbed
              /\ SetTask(r, "lifecycle", IF t.left = {u} THEN Idle ELSE [t EXCEPT !.left = t.left \ {u}])
        \/ /\ disturbed' = disturbed \cup {t.life} /\ UNCHANGED bucket
           /\ SetTask(r, "lifecycle", Idle)
    BY <1>1 DEF DeleteVariable
  <1>9. ASSUME NEW u PROVE (IF t.left = {u} THEN Idle ELSE [t EXCEPT !.left = t.left \ {u}]) \in Tasks
    <2>1. [t EXCEPT !.left = t.left \ {u}] \in [step : {"delete"}, life : Nat, left : SUBSET Variables]
      BY <1>5
    <2> QED
      BY <2>1, IdleFits DEF Tasks
  <1>10. task \in [Replicas -> [Loops -> Tasks]]
    BY DEF Formed, Typed
  <1>11. ASSUME NEW x \in Tasks, SetTask(r, "lifecycle", x)
         PROVE  /\ task'[r]["lifecycle"] = x
                /\ \A q \in Replicas, k \in Loops :
                      q # r \/ k # "lifecycle" => task'[q][k] = task[q][k]
    BY <1>3, <1>10, <1>11, Tasking
  <1>12. CASE \E u \in t.left :
              /\ bucket' = [bucket EXCEPT ![SessionVarKey(u)] = 0]
              /\ disturbed' = IF UnderWay(t.life, u) THEN disturbed \cup {t.life} ELSE disturbed
              /\ SetTask(r, "lifecycle", IF t.left = {u} THEN Idle ELSE [t EXCEPT !.left = t.left \ {u}])
    <2>1. PICK u \in t.left :
              /\ bucket' = [bucket EXCEPT ![SessionVarKey(u)] = 0]
              /\ disturbed' = IF UnderWay(t.life, u) THEN disturbed \cup {t.life} ELSE disturbed
              /\ SetTask(r, "lifecycle", IF t.left = {u} THEN Idle ELSE [t EXCEPT !.left = t.left \ {u}])
      BY <1>12
    <2>2. /\ task'[r]["lifecycle"] = IF t.left = {u} THEN Idle ELSE [t EXCEPT !.left = t.left \ {u}]
          /\ \A q \in Replicas, k \in Loops :
                q # r \/ k # "lifecycle" => task'[q][k] = task[q][k]
      BY <1>9, <1>11, <2>1
    <2> QED
      BY <1>1, <1>2, <1>7, <2>1, <2>2
  <1>13. CASE /\ disturbed' = disturbed \cup {t.life} /\ UNCHANGED bucket
              /\ SetTask(r, "lifecycle", Idle)
    <2>1. /\ task'[r]["lifecycle"] = Idle
          /\ \A q \in Replicas, k \in Loops :
                q # r \/ k # "lifecycle" => task'[q][k] = task[q][k]
      BY <1>11, <1>13, IdleFits
    <2> QED
      BY <1>1, <1>2, <1>7, <1>13, <2>1
  <1> QED
    BY <1>8, <1>12, <1>13

\* Swept is kept: what is deleted is clean, or something under way disturbs it.
LEMMA SweptDeleteVariable ==
    ASSUME OneSecret, Formed, Swept, NEW r \in Replicas, DeleteVariable(r)
    PROVE  Swept'
  <1>1. PICK t \in [step : {"delete"}, life : 1..life, left : SUBSET Scoped] :
              /\ t = task[r]["lifecycle"] /\ r \in up
              /\ UNCHANGED <<bounds, life, alive, up, asks, hooks, plain, inbox, client>>
              /\ \A q \in Replicas, k \in Loops : q # r \/ k # "lifecycle" => task'[q][k] = task[q][k]
              /\ \/ \E u \in t.left :
                       /\ bucket' = [bucket EXCEPT ![SessionVarKey(u)] = 0]
                       /\ disturbed' = IF UnderWay(t.life, u)
                                       THEN disturbed \cup {t.life} ELSE disturbed
                       /\ task'[r]["lifecycle"] =
                              IF t.left = {u} THEN Idle ELSE [t EXCEPT !.left = t.left \ {u}]
                 \/ /\ disturbed' = disturbed \cup {t.life} /\ UNCHANGED bucket
                    /\ task'[r]["lifecycle"] = Idle
    BY DeletionIs
  <1>2. "lifecycle" \in Loops /\ up \subseteq Replicas /\ life \in Nat /\ bucket \in [Keys -> Nat]
    BY LoopsAre, NumbersAre DEF Formed, Typed
  <1>3. t.step = "delete" /\ t.life \in 1..life /\ t.left \subseteq Scoped /\ t.life \in Nat
    BY <1>1, <1>2
  <1>4. \A n, v : \A q \in up : q # r => (ToDelete(q, n, v) => ToDelete(q, n, v)')
    <2> SUFFICES ASSUME NEW q \in up, NEW n, NEW v, q # r, ToDelete(q, n, v) PROVE ToDelete(q, n, v)'
      OBVIOUS
    <2>1. /\ inbox'[q]["lifecycle"] = inbox[q]["lifecycle"]
          /\ task'[q]["lifecycle"] = task[q]["lifecycle"]
      BY <1>1, <1>2
    <2> QED
      BY <2>1, ToDeleteNext DEF ToDelete
  <1>5. PICK x : x = task'[r]["lifecycle"]
    OBVIOUS
  <1>6. x.step \in {"idle", "delete"}
    <2>1. CASE x = Idle
      BY <2>1, IdleFits
    <2>2. ASSUME NEW u \in t.left, x = [t EXCEPT !.left = t.left \ {u}] PROVE x.step \in {"idle", "delete"}
      BY <1>1, <1>3, <2>2
    <2> QED
      BY <1>1, <1>5, <2>1, <2>2
  <1>7. ASSUME NEW q \in up, NEW n, ToCreate(q, n)' PROVE ToCreate(q, n)
    <2>1. inbox'[q]["lifecycle"] = inbox[q]["lifecycle"]
      BY <1>1, <1>2
    <2>2. CASE q # r
      <3>1. task'[q]["lifecycle"] = task[q]["lifecycle"]
        BY <1>1, <1>2, <2>2
      <3> QED
        BY <1>7, <2>1, <3>1, ToCreateNext DEF ToCreate
    <2>3. CASE q = r
      BY <1>5, <1>6, <1>7, <2>1, <2>3, ToCreateNext DEF ToCreate
    <2> QED
      BY <2>2, <2>3
  <1>8. \A q \in Replicas, k \in Loops : k # "lifecycle" =>
               inbox'[q][k] = inbox[q][k] /\ task'[q][k] = task[q][k]
    BY <1>1
  <1>9. disturbed \subseteq disturbed'
    BY <1>1
  <1>10. ASSUME NEW n \in 1..life, NEW v \in Scoped, Clean(n, v) PROVE Clean(n, v)'
    <2>1. n \in Nat /\ n # 0
      BY <1>2
    <2>2. v \in Variables
      BY LoopsAre
    <2>3. bucket'[SessionVarKey(v)] \in {0, bucket[SessionVarKey(v)]}
      <3>1. CASE UNCHANGED bucket
        BY <3>1
      <3>2. ASSUME NEW u, bucket' = [bucket EXCEPT ![SessionVarKey(u)] = 0]
            PROVE  bucket'[SessionVarKey(v)] \in {0, bucket[SessionVarKey(v)]}
        BY <1>2, <2>2, <3>2, KeysAre
      <3> QED
        BY <1>1, <3>1, <3>2
    <2>4. bucket'[SessionVarKey(v)] # n
      BY <1>10, <2>1, <2>3 DEF Clean
    <2> QED
      BY <1>1, <1>7, <1>8, <1>10, <2>4, CleanLifecycle
  <1>11. ASSUME NEW n \in 1..life, NEW v \in Scoped, ToDelete(r, n, v)
         PROVE  n \in disturbed' \/ ToDelete(r, n, v)' \/ Clean(n, v)'
    <2>1. CASE LifeMsg("deleted", n) \in Range(inbox[r]["lifecycle"])
      BY <1>1, <2>1, ToDeleteNext
    <2>2. CASE n = t.life /\ v \in t.left
      <3>1. CASE disturbed' = disturbed \cup {t.life}
        BY <2>2, <3>1
      <3>2. ASSUME NEW u \in t.left,
                   bucket' = [bucket EXCEPT ![SessionVarKey(u)] = 0],
                   disturbed' = IF UnderWay(t.life, u) THEN disturbed \cup {t.life} ELSE disturbed,
                   x = IF t.left = {u} THEN Idle ELSE [t EXCEPT !.left = t.left \ {u}]
            PROVE  n \in disturbed' \/ ToDelete(r, n, v)' \/ Clean(n, v)'
        <4>1. CASE u # v
          <5>1. x = [t EXCEPT !.left = t.left \ {u}]
            BY <2>2, <3>2, <4>1
          <5>2. x.step = "delete" /\ x.life = n /\ v \in x.left
            BY <1>1, <1>3, <2>2, <4>1, <5>1
          <5> QED
            BY <1>5, <5>2, ToDeleteNext
        <4>2. CASE u = v /\ UnderWay(t.life, u)
          BY <2>2, <3>2, <4>2
        <4>3. CASE u = v /\ ~UnderWay(t.life, u)
          <5>1. /\ \A q \in up : ~ToCreate(q, n) /\ ~ToStore(q, n, v) /\ ~Computing(q, v)
                /\ \A c \in Clients : ~Asking(c, v)
            BY <2>2, <4>3, UnderWayIs
          <5>2. SessionVarKey(v) \in Keys /\ n # 0
            BY <1>2, KeysAre, LoopsAre
          <5>3. bucket'[SessionVarKey(v)] = 0
            BY <1>2, <3>2, <4>3, <5>2
          <5>4. ASSUME NEW q \in up
                PROVE  /\ ToStore(q, n, v)' <=> ToStore(q, n, v)
                       /\ Computing(q, v)' <=> Computing(q, v)
            <6>1. q \in Replicas /\ v \in Loops /\ v # "lifecycle"
              BY <1>2, LoopsAre
            <6>2. inbox'[q][v] = inbox[q][v] /\ task'[q][v] = task[q][v]
              BY <1>8, <6>1
            <6> QED
              BY <6>2 DEF ToStore, Computing
          <5>5. \A c \in Clients : ~Asking(c, v)'
            BY <1>1, <5>1 DEF Asking
          <5>6. up' = up
            BY <1>1
          <5>7. Clean(n, v)'
            BY <1>7, <5>1, <5>2, <5>3, <5>4, <5>5, <5>6, CleanNext
          <5> QED
            BY <5>7
        <4> QED
          BY <4>1, <4>2, <4>3
      <3> QED
        BY <1>1, <1>5, <3>1, <3>2
    <2> QED
      BY <1>1, <1>11, <2>1, <2>2 DEF ToDelete
  <1>12. up' = up /\ life' = life /\ alive' = alive /\ r \in up
    BY <1>1
  <1>13. ASSUME NEW n \in 1..life, NEW v \in Scoped, NEW q \in up, ToDelete(q, n, v)
         PROVE  n \in disturbed' \/ (\E s \in up' : ToDelete(s, n, v)') \/ Clean(n, v)'
    BY <1>4, <1>11, <1>12, <1>13
  <1> QED
    BY <1>9, <1>10, <1>12, <1>13, SweptStill

\* Swept is kept: a handler of "created" stores only where it was to be expected.
LEMMA SweptCreated ==
    ASSUME OneSecret, Formed, Swept, NEW r \in Replicas, Created(r)
    PROVE  Swept'
  <1>1. PICK p : p = task[r]["lifecycle"].life
    OBVIOUS
  <1>2. /\ r \in up /\ UNCHANGED <<life, alive, up, inbox, client, disturbed>>
        /\ SetTask(r, "lifecycle", Idle) /\ task[r]["lifecycle"].step = "created"
    BY DEF Created, At
  <1>3. "lifecycle" \in Loops /\ up \subseteq Replicas /\ life \in Nat /\ bucket \in [Keys -> Nat]
    BY LoopsAre, NumbersAre DEF Formed, Typed
  <1>4. /\ task'[r]["lifecycle"] = Idle
        /\ \A q \in Replicas, k \in Loops : q # r \/ k # "lifecycle" =>
                  inbox'[q][k] = inbox[q][k] /\ task'[q][k] = task[q][k]
    BY <1>2, <1>3, IdleFits, OthersStay
  <1>5. \A q \in Replicas : inbox'[q]["lifecycle"] = inbox[q]["lifecycle"]
    BY <1>2
  <1>6. ASSUME NEW q \in up, NEW n, NEW v
        PROVE  /\ ToDelete(q, n, v) => ToDelete(q, n, v)'
               /\ ToCreate(q, n)' => ToCreate(q, n)
    <2>1. CASE q # r
      <3>1. task'[q]["lifecycle"] = task[q]["lifecycle"]
        BY <1>3, <1>4, <2>1
      <3> QED
        BY <1>3, <1>5, <3>1, ToDeleteNext, ToCreateNext DEF ToDelete, ToCreate
    <2>2. CASE q = r
      BY <1>2, <1>3, <1>4, <1>5, <2>2, IdleFits, ToDeleteNext, ToCreateNext DEF ToDelete, ToCreate
    <2> QED
      BY <2>1, <2>2
  <1>7. ASSUME NEW n \in 1..life, NEW v \in Scoped, Clean(n, v) PROVE Clean(n, v)'
    <2>1. n # p
      <3>1. ToCreate(r, p)
        BY <1>1, <1>2 DEF ToCreate
      <3> QED
        BY <1>2, <1>7, <3>1 DEF Clean
    <2>2. v \in Variables
      BY LoopsAre
    <2>3. bucket'[SessionVarKey(v)] \in {p, bucket[SessionVarKey(v)]}
      <3>1. CASE UNCHANGED bucket
        BY <3>1
      <3>2. ASSUME NEW u, bucket' = [bucket EXCEPT ![SessionVarKey(u)] = p]
            PROVE  bucket'[SessionVarKey(v)] \in {p, bucket[SessionVarKey(v)]}
        BY <1>3, <2>2, <3>2, KeysAre
      <3> QED
        BY <1>1, <3>1, <3>2 DEF Created
    <2>4. bucket'[SessionVarKey(v)] # n
      BY <1>7, <2>1, <2>3 DEF Clean
    <2>5. \A q \in Replicas, k \in Loops : k # "lifecycle" =>
               inbox'[q][k] = inbox[q][k] /\ task'[q][k] = task[q][k]
      BY <1>4
    <2> QED
      BY <1>2, <1>6, <1>7, <2>4, <2>5, CleanLifecycle
  <1> QED
    BY <1>2, <1>6, <1>7, SweptStill

\* Steps of the loop of a variable.
LEMMA SweptVariable ==
    ASSUME Formed, Swept, NEW r \in Replicas, NEW w \in Variables,
           UNCHANGED <<life, alive, up, disturbed>>,
           \A q \in Replicas, k \in Loops : q # r \/ k # w =>
               inbox'[q][k] = inbox[q][k] /\ task'[q][k] = task[q][k],
           \A c \in Clients, v \in Scoped : Asking(c, v)' => Asking(c, v),
           \A v \in Scoped : v # w => bucket'[SessionVarKey(v)] = bucket[SessionVarKey(v)],
           w \in Scoped =>
               \A n \in 1..life : Clean(n, w) /\ (n = life => alive # TRUE) =>
                   /\ ~ToStore(r, n, w)' /\ bucket'[SessionVarKey(w)] # n
                   /\ n = life => ~Computing(r, w)'
    PROVE  Swept'
  <1>1. up \subseteq Replicas /\ "lifecycle" \in Loops /\ w # "lifecycle"
    BY LoopsAre DEF Formed, Typed
  <1>2. ASSUME NEW q \in up, NEW n, NEW v
        PROVE  /\ ToDelete(q, n, v)' <=> ToDelete(q, n, v)
               /\ ToCreate(q, n)' <=> ToCreate(q, n)
    <2>1. /\ inbox'[q]["lifecycle"] = inbox[q]["lifecycle"]
          /\ task'[q]["lifecycle"] = task[q]["lifecycle"]
      BY <1>1
    <2> QED
      BY <2>1, ToDeleteNext, ToCreateNext DEF ToDelete, ToCreate
  <1>3. ASSUME NEW q \in up, NEW n, NEW v \in Scoped, q # r \/ v # w
        PROVE  /\ ToStore(q, n, v)' <=> ToStore(q, n, v)
               /\ Computing(q, v)' <=> Computing(q, v)
    <2>1. inbox'[q][v] = inbox[q][v] /\ task'[q][v] = task[q][v]
      BY <1>1, <1>3, LoopsAre
    <2> QED
      BY <2>1 DEF ToStore, Computing
  <1>4. ASSUME NEW n \in 1..life, NEW v \in Scoped, n = life => alive # TRUE, Clean(n, v)
        PROVE  Clean(n, v)'
    <2>1. bucket'[SessionVarKey(v)] # n
      <3>1. CASE v = w
        BY <1>4, <3>1
      <3>2. CASE v # w
        BY <1>4, <3>2 DEF Clean
      <3> QED
        BY <3>1, <3>2
    <2>2. ASSUME NEW q \in up
          PROVE  ~ToCreate(q, n)' /\ ~ToStore(q, n, v)' /\ (n = life => ~Computing(q, v)')
      <3>1. CASE q = r /\ v = w
        BY <1>2, <1>4, <3>1 DEF Clean
      <3>2. CASE q # r \/ v # w
        BY <1>2, <1>3, <1>4, <3>2 DEF Clean
      <3> QED
        BY <3>1, <3>2
    <2>3. n = life => \A c \in Clients : ~Asking(c, v)'
      BY <1>4 DEF Clean
    <2>4. up' = up /\ life' = life
      OBVIOUS
    <2> QED
      BY <2>1, <2>2, <2>3, <2>4, CleanNext
  <1>5. up' = up /\ life' = life /\ alive' = alive /\ disturbed' = disturbed
    OBVIOUS
  <1> QED
    BY <1>2, <1>4, <1>5, SweptStill

\* Swept is kept: a loop takes the request for a variable.
LEMMA SweptTakeVariable ==
    ASSUME OneSecret, Formed, Swept, NEW r \in Replicas, NEW w \in Variables, Take(r, w)
    PROVE  Swept'
  <1>1. w \in Loops
    BY LoopsAre
  <1>2. /\ r \in up /\ UNCHANGED <<life, alive, up, bucket, client, disturbed>>
        /\ task'[r][w].step \notin {"store", "reply"}
        /\ \A q \in Replicas, k \in Loops : q # r \/ k # w =>
                  inbox'[q][k] = inbox[q][k] /\ task'[q][k] = task[q][k]
        /\ Range(inbox[r][w]) # {}
    BY <1>1, TakeIs
  <1>3. \A c \in Clients, v \in Scoped : Asking(c, v)' => Asking(c, v)
    BY <1>2 DEF Asking
  <1>4. Computing(r, w)
    BY <1>2 DEF Computing
  <1>5. ASSUME NEW n \in 1..life, Clean(n, w)
        PROVE  /\ ~ToStore(r, n, w)' /\ bucket'[SessionVarKey(w)] # n
               /\ n = life => ~Computing(r, w)'
    <2>1. bucket'[SessionVarKey(w)] # n /\ n # life
      BY <1>2, <1>4, <1>5 DEF Clean
    <2>2. ~ToStore(r, n, w)'
      BY <1>2 DEF ToStore
    <2> QED
      BY <2>1, <2>2
  <1>6. bucket' = bucket
    BY <1>2
  <1> QED
    BY <1>2, <1>3, <1>5, <1>6, SweptVariable

\* Swept is kept: a resolver computes a value.
LEMMA SweptResolve ==
    ASSUME OneSecret, Formed, Swept, NEW r \in Replicas, NEW w \in Variables, Resolve(r, w)
    PROVE  Swept'
  <1>1. w \in Loops
    BY LoopsAre
  <1>2. /\ r \in up /\ task[r][w].step = "resolve"
        /\ UNCHANGED <<life, alive, up, inbox, bucket, client, disturbed>>
    BY DEF Resolve, At
  <1>3. PICK t : /\ SetTask(r, w, t)
                 /\ t.step = "store" => t.value = IF w \in Scoped THEN life ELSE GlobalValue
    <2>1. PICK u : u = [step |-> "store", msg |-> task[r][w].msg,
                        value |-> IF w \in Scoped THEN life ELSE GlobalValue]
      OBVIOUS
    <2>2. u.value = IF w \in Scoped THEN life ELSE GlobalValue
      BY <2>1
    <2>3. SetTask(r, w, Idle) \/ SetTask(r, w, u)
      BY <2>1 DEF Resolve
    <2> QED
      BY <2>2, <2>3, IdleFits
  <1>4. /\ task'[r][w] = t
        /\ \A q \in Replicas, k \in Loops : q # r \/ k # w =>
                  inbox'[q][k] = inbox[q][k] /\ task'[q][k] = task[q][k]
    <2>1. task \in [Replicas -> [Loops -> Tasks]] /\ task' = [task EXCEPT ![r][w] = t]
      BY <1>3 DEF SetTask, Formed, Typed
    <2> QED
      BY <1>1, <1>2, <2>1
  <1>5. \A c \in Clients, v \in Scoped : Asking(c, v)' => Asking(c, v)
    BY <1>2 DEF Asking
  <1>6. Computing(r, w)
    BY <1>2 DEF Computing
  <1>7. ASSUME w \in Scoped, NEW n \in 1..life, Clean(n, w)
        PROVE  /\ ~ToStore(r, n, w)' /\ bucket'[SessionVarKey(w)] # n
               /\ n = life => ~Computing(r, w)'
    <2>1. bucket'[SessionVarKey(w)] # n /\ n # life
      BY <1>2, <1>6, <1>7 DEF Clean
    <2>2. ~ToStore(r, n, w)'
      BY <1>3, <1>4, <1>7, <2>1 DEF ToStore
    <2> QED
      BY <2>1, <2>2
  <1>8. bucket' = bucket
    BY <1>2
  <1> QED
    BY <1>2, <1>4, <1>5, <1>7, <1>8, SweptVariable

\* Swept is kept: a resolver stores only where it was to be expected.
LEMMA SweptStore ==
    ASSUME OneSecret, Formed, Swept, NEW r \in Replicas, NEW w \in Variables, Store(r, w)
    PROVE  Swept'
  <1>1. w \in Loops /\ bucket \in [Keys -> Nat]
    BY LoopsAre DEF Formed, Typed
  <1>2. PICK t : t = task[r][w]
    OBVIOUS
  <1>3. /\ r \in up /\ t.step = "store" /\ SetTask(r, w, [t EXCEPT !.step = "reply"])
        /\ UNCHANGED <<life, alive, up, inbox, client, disturbed>>
    BY <1>2 DEF Store, At
  <1>4. t \in [step : {"store", "reply"}, msg : Messages, value : Nat]
    BY <1>1, <1>2, <1>3, TaskIs, TaskForms
  <1>5. [t EXCEPT !.step = "reply"].step = "reply"
    BY <1>4
  <1>6. /\ task'[r][w].step = "reply"
        /\ \A q \in Replicas, k \in Loops : q # r \/ k # w =>
                  inbox'[q][k] = inbox[q][k] /\ task'[q][k] = task[q][k]
    BY <1>1, <1>3, <1>5 DEF SetTask, Formed, Typed
  <1>7. \A c \in Clients, v \in Scoped : Asking(c, v)' => Asking(c, v)
    BY <1>3 DEF Asking
  <1>8. /\ \A v \in Scoped : v # w => bucket'[SessionVarKey(v)] = bucket[SessionVarKey(v)]
        /\ bucket'[SessionVarKey(w)] \in {t.value, bucket[SessionVarKey(w)]}
    <2>1. CASE UNCHANGED bucket
      BY <2>1
    <2>2. CASE bucket' = [bucket EXCEPT ![SessionVarKey(w)] = t.value]
      BY <1>1, <2>2, KeysAre, LoopsAre
    <2>3. CASE bucket' = [bucket EXCEPT ![VarKey(w)] = t.value]
      BY <1>1, <2>3, KeysAre, LoopsAre
    <2> QED
      BY <1>2, <2>1, <2>2, <2>3 DEF Store
  <1>9. ToStore(r, t.value, w) /\ Computing(r, w)
    BY <1>2, <1>3 DEF ToStore, Computing
  <1>10. ASSUME NEW n \in 1..life, Clean(n, w)
         PROVE  /\ ~ToStore(r, n, w)' /\ bucket'[SessionVarKey(w)] # n
                /\ n = life => ~Computing(r, w)'
    <2>1. n # t.value /\ n # life /\ bucket[SessionVarKey(w)] # n
      BY <1>3, <1>9, <1>10 DEF Clean
    <2>2. ~ToStore(r, n, w)'
      BY <1>6 DEF ToStore
    <2> QED
      BY <1>8, <2>1, <2>2
  <1> QED
    BY <1>3, <1>6, <1>7, <1>8, <1>10, SweptVariable

\* Swept is kept: an answer.
LEMMA SweptAnswer ==
    ASSUME OneSecret, Formed, Swept, \A c \in Clients : CallInv(c),
           NEW r \in Replicas, NEW w \in Variables, Answer(r, w)
    PROVE  Swept'
  <1>1. w \in Loops
    BY LoopsAre
  <1>2. /\ r \in up /\ task[r][w].step = "reply" /\ SetTask(r, w, Idle)
        /\ UNCHANGED <<life, alive, up, inbox, bucket, disturbed>>
    BY DEF Answer, At
  <1>3. /\ task'[r][w] = Idle
        /\ \A q \in Replicas, k \in Loops : q # r \/ k # w =>
                  inbox'[q][k] = inbox[q][k] /\ task'[q][k] = task[q][k]
    BY <1>1, <1>2, IdleFits, OthersStay
  <1>4. ASSUME NEW d \in Clients, NEW v \in Scoped, Asking(d, v)' PROVE Asking(d, v)
    <2>1. PICK c \in Clients, n \in Nat :
             UNCHANGED client \/ (client[c].step = "wait" /\ Resolved(c, n))
      BY AnswerIs
    <2>2. CASE Resolved(c, n)
      <3>1. PICK k : /\ k = [step |-> "done", var |-> client[c].var, born |-> client[c].born,
                              owed |-> client[c].owed, value |-> n]
                     /\ SetClient(c, k)
        BY <2>2 DEF Resolved
      <3>2. k.step = "done"
        BY <3>1
      <3>3. client'[c] = k /\ \A e \in Clients : e # c => client'[e] = client[e]
        BY <3>1 DEF SetClient, Formed, Typed
      <3> QED
        BY <1>4, <3>2, <3>3 DEF Asking
    <2> QED
      BY <1>4, <2>1, <2>2 DEF Asking
  <1>5. ASSUME NEW n \in 1..life, Clean(n, w), n = life => alive # TRUE
        PROVE  /\ ~ToStore(r, n, w)' /\ bucket'[SessionVarKey(w)] # n
               /\ n = life => ~Computing(r, w)'
    <2>1. ~ToStore(r, n, w)' /\ bucket'[SessionVarKey(w)] # n
      BY <1>2, <1>3, <1>5, IdleFits DEF ToStore, Clean
    <2>2. ASSUME n = life PROVE ~Computing(r, w)'
      <3>1. Range(inbox[r][w]) = {}
        BY <1>2, <1>5, <2>2 DEF Clean, Computing
      <3>2. inbox' = inbox /\ task'[r][w].step = "idle"
        BY <1>2, <1>3, IdleFits
      <3> QED
        BY <3>1, <3>2 DEF Computing
    <2> QED
      BY <2>1, <2>2
  <1>6. bucket' = bucket
    BY <1>2
  <1> QED
    BY <1>2, <1>3, <1>4, <1>5, <1>6, SweptVariable

\* Swept is kept: a loop takes the call or the event of a hook.
LEMMA SweptTakeHook ==
    ASSUME OneSecret, Formed, Swept, NEW r \in Replicas, NEW l \in {"call", "event"}, Take(r, l)
    PROVE  Swept'
  <1>1. l \in Loops
    BY LoopsAre
  <1>2. /\ UNCHANGED <<life, alive, up, bucket, client, disturbed>>
        /\ \A q \in Replicas, k \in Loops : q # r \/ k # l =>
                  inbox'[q][k] = inbox[q][k] /\ task'[q][k] = task[q][k]
    BY <1>1, TakeIs
  <1>3. \A c \in Clients, v \in Scoped : Asking(c, v)' => Asking(c, v)
    BY <1>2 DEF Asking
  <1> QED
    BY <1>2, <1>3, SweptHook

\* Swept is kept: the reply of a hook.
LEMMA SweptCall ==
    ASSUME OneSecret, Formed, Swept, \A c \in Clients : CallInv(c), NEW r \in Replicas, Call(r)
    PROVE  Swept'
  <1>1. /\ UNCHANGED <<life, alive, up, bucket, inbox, disturbed>> /\ SetTask(r, "call", Idle)
    BY DEF Call, At
  <1>2. "call" \in Loops
    BY LoopsAre
  <1>3. \A q \in Replicas, k \in Loops : q # r \/ k # "call" =>
           inbox'[q][k] = inbox[q][k] /\ task'[q][k] = task[q][k]
    BY <1>1, <1>2, IdleFits, OthersStay
  <1>4. ASSUME NEW d \in Clients, NEW v \in Scoped, Asking(d, v)' PROVE Asking(d, v)
    <2>1. \E c \in Clients :
             \/ UNCHANGED client
             \/ \E k \in Ended(client[c]) : SetClient(c, k)
      BY CallIs
    <2>2. ASSUME NEW c \in Clients, NEW k \in Ended(client[c]), SetClient(c, k)
          PROVE  Asking(d, v)
      <3>1. k.step \in {"answered", "forsaken"}
        BY EndedIs
      <3>2. client'[c] = k /\ \A e \in Clients : e # c => client'[e] = client[e]
        BY <2>2 DEF SetClient, Formed, Typed
      <3> QED
        BY <1>4, <3>1, <3>2 DEF Asking
    <2> QED
      BY <1>4, <2>1, <2>2 DEF Asking
  <1> QED
    BY <1>1, <1>3, <1>4, SweptHook

\* Swept is kept: the event of a hook.
LEMMA SweptEvent ==
    ASSUME OneSecret, Formed, Swept, NEW r \in Replicas, Event(r)
    PROVE  Swept'
  <1>1. /\ UNCHANGED <<life, alive, up, bucket, inbox, client, disturbed>>
        /\ SetTask(r, "event", Idle)
    BY DEF Event, At
  <1>2. "event" \in Loops
    BY LoopsAre
  <1>3. \A q \in Replicas, k \in Loops : q # r \/ k # "event" =>
           inbox'[q][k] = inbox[q][k] /\ task'[q][k] = task[q][k]
    BY <1>1, <1>2, IdleFits, OthersStay
  <1>4. \A c \in Clients, v \in Scoped : Asking(c, v)' => Asking(c, v)
    BY <1>1 DEF Asking
  <1> QED
    BY <1>1, <1>3, <1>4, SweptHook

\* A crash: what the replica was going to delete is disturbed.
LEMMA CrashDisturbs ==
    ASSUME OneSecret, Formed, NEW r \in Replicas, Crash(r), NEW n \in 1..life, NEW v,
           ToDelete(r, n, v)
    PROVE  n \in disturbed'
  <1>1. PICK t : t = task[r]["lifecycle"]
    OBVIOUS
  <1>2. PICK lost : lost = {m \in Range(inbox[r]["lifecycle"]) :
                              m.data.ch = ChLifecycle(Tenant, "deleted")}
    OBVIOUS
  <1>3. disturbed' = disturbed \cup {m.data.payload : m \in lost}
                              \cup (IF t.step = "delete" THEN {t.life} ELSE {})
    BY <1>1, <1>2 DEF Crash
  <1>4. CASE LifeMsg("deleted", n) \in Range(inbox[r]["lifecycle"])
    <2>1. n \in Nat
      BY NumbersAre DEF Formed
    <2>2. /\ LifeMsg("deleted", n).data.payload = n
          /\ LifeMsg("deleted", n).data.ch = ChLifecycle(Tenant, "deleted")
      BY <2>1, LifeMsgIs
    <2>3. LifeMsg("deleted", n) \in lost
      BY <1>2, <1>4, <2>2
    <2>4. n \in {m.data.payload : m \in lost}
      BY <2>2, <2>3
    <2> QED
      BY <1>3, <2>4
  <1>5. CASE t.step = "delete" /\ t.life = n
    BY <1>3, <1>5
  <1> QED
    BY <1>1, <1>4, <1>5 DEF ToDelete

\* Swept is kept: a crash disturbs what it loses.
LEMMA SweptCrash ==
    ASSUME OneSecret, Formed, Swept, NEW r \in Replicas, Crash(r)
    PROVE  Swept'
  <1>1. /\ \A q \in Replicas, l \in Loops :
              q # r => inbox'[q][l] = inbox[q][l] /\ task'[q][l] = task[q][l]
        /\ up' = up \ {r}
        /\ UNCHANGED <<bounds, life, alive, bucket, client, asks, hooks, plain>>
    BY CrashIs DEF Formed
  <1>2. disturbed \subseteq disturbed'
    BY DEF Crash
  <1>3. up \subseteq Replicas /\ "lifecycle" \in Loops
    BY LoopsAre DEF Formed, Typed
  <1>4. ASSUME NEW q \in up, q # r, NEW n, NEW v \in Scoped
        PROVE  /\ ToDelete(q, n, v)' <=> ToDelete(q, n, v)
               /\ ToCreate(q, n)' <=> ToCreate(q, n)
               /\ ToStore(q, n, v)' <=> ToStore(q, n, v)
               /\ Computing(q, v)' <=> Computing(q, v)
    <2>1. /\ inbox'[q]["lifecycle"] = inbox[q]["lifecycle"]
          /\ task'[q]["lifecycle"] = task[q]["lifecycle"]
      BY <1>1, <1>3, <1>4
    <2>2. inbox'[q][v] = inbox[q][v] /\ task'[q][v] = task[q][v]
      BY <1>1, <1>3, <1>4, LoopsAre
    <2>3. ToDelete(q, n, v)' <=> ToDelete(q, n, v)
      BY <2>1, ToDeleteNext DEF ToDelete
    <2>4. ToCreate(q, n)' <=> ToCreate(q, n)
      BY <2>1, ToCreateNext DEF ToCreate
    <2>5. /\ ToStore(q, n, v)' <=> ToStore(q, n, v)
          /\ Computing(q, v)' <=> Computing(q, v)
      BY <2>2 DEF ToStore, Computing
    <2> QED
      BY <2>3, <2>4, <2>5
  <1>5. ASSUME NEW n, NEW v \in Scoped, Clean(n, v) PROVE Clean(n, v)'
    <2>1. \A q \in up' : q \in up /\ q # r
      BY <1>1
    <2>2. \A c \in Clients : Asking(c, v)' <=> Asking(c, v)
      BY <1>1 DEF Asking
    <2>3. bucket' = bucket /\ life' = life
      BY <1>1
    <2> QED
      BY <1>4, <1>5, <2>1, <2>2, <2>3, CleanNext DEF Clean
  <1>6. ASSUME NEW n \in 1..life, NEW v \in Scoped, NEW q \in up, ToDelete(q, n, v)
        PROVE  n \in disturbed' \/ \E s \in up' : ToDelete(s, n, v)'
    <2>1. CASE q = r
      BY <1>6, <2>1, CrashDisturbs
    <2>2. CASE q # r
      BY <1>1, <1>4, <1>6, <2>2
    <2> QED
      BY <2>1, <2>2
  <1>7. life' = life /\ alive' = alive
    BY <1>1
  <1> QED
    BY <1>2, <1>5, <1>6, <1>7, SweptStill

\* Swept is kept by every step.
LEMMA SweptStep ==
    ASSUME OneSecret, Formed, Swept, \A c \in Clients : CallInv(c), [Next]_vars
    PROVE  Swept'
  <1>1. Numbered
    BY DEF Numbered, CallInv, Open
  <1>2. CASE Create
    BY <1>2, SweptCreate
  <1>3. CASE Delete
    BY <1>3, SweptDelete
  <1>4. ASSUME NEW c \in Clients, Resolution(c) PROVE Swept'
    <2>1. CASE Lookup(c, "session", SessionVarKey(client[c].var), "global")
      BY <2>1, SweptLookup DEF Open
    <2>2. CASE Lookup(c, "global", VarKey(client[c].var), "ask")
      BY <2>2, SweptLookup DEF Open
    <2> QED
      BY <1>1, <1>4, <2>1, <2>2, SweptAsk, SweptTimeOut DEF Resolution
  <1>5. ASSUME NEW c \in Clients,
               \/ \E v \in Variables : ResolveVariable(c, v)
               \/ \E args \in Args : CallHook(c, args)
               \/ Return(c)
        PROVE  Swept'
    BY <1>5, SweptResolveVariable, SweptCallHook, SweptReturn
  <1>6. ASSUME NEW args \in Args, PublishEventHook(args) PROVE Swept'
    <2>1. /\ UNCHANGED <<life, alive, bucket, up, task, client, disturbed>>
          /\ UNCHANGED inbox \/ Deliver("event", EventMsg(args))
      BY <1>6 DEF PublishEventHook, UseHook, EventMsg
    <2>2. EventMsg(args) \in Messages
      BY DEF Messages
    <2> QED
      BY <2>1, <2>2, SweptPublish
  <1>7. ASSUME NEW l \in {"call", "event"}, Plain(l) PROVE Swept'
    <2>1. PICK args \in Args : Deliver(l, PlainMsg(l, args))
      BY <1>7 DEF Plain, PlainMsg
    <2>2. PlainMsg(l, args) \in Messages
      <3>1. <<l, args>> \in {"call", "event"} \X Args
        OBVIOUS
      <3> QED
        BY <3>1 DEF Messages
    <2>3. UNCHANGED <<life, alive, bucket, up, task, client, disturbed>>
      BY <1>7 DEF Plain
    <2> QED
      BY <2>1, <2>2, <2>3, SweptPublish
  <1>8. ASSUME NEW r \in Replicas, Crash(r) PROVE Swept'
    BY <1>8, SweptCrash
  <1>9. ASSUME NEW r \in Replicas, NEW l \in Loops, Loop(r, l) PROVE Swept'
    <2>1. CASE Take(r, l)
      BY <2>1, LoopsAre, SweptTakeLifecycle, SweptTakeVariable, SweptTakeHook
    <2>2. CASE DeleteVariable(r) \/ Created(r)
      BY <2>2, SweptDeleteVariable, SweptCreated
    <2>3. CASE l \in Variables /\ (Resolve(r, l) \/ Store(r, l) \/ Answer(r, l))
      BY <2>3, SweptResolve, SweptStore, SweptAnswer
    <2>4. CASE Call(r) \/ Event(r)
      BY <2>4, SweptCall, SweptEvent
    <2> QED
      BY <1>9, <2>1, <2>2, <2>3, <2>4 DEF Loop
  <1>10. CASE UNCHANGED vars
    <2>1. /\ UNCHANGED <<life, alive, up, bucket, disturbed, client>>
          /\ inbox' = inbox /\ task' = task
      BY <1>10 DEF vars
    <2>2. \A c \in Clients, v \in Scoped : Asking(c, v)' => Asking(c, v)
      BY <2>1 DEF Asking
    <2> QED
      BY <2>1, <2>2, SweptHook
  <1> QED
    BY <1>2, <1>3, <1>4, <1>5, <1>6, <1>7, <1>8, <1>9, <1>10 DEF Next

\* Swept holds at first: there was no life yet.
LEMMA SweptInit == Init => Swept
  <1> SUFFICES ASSUME Init, NEW n \in 1..life PROVE FALSE
    BY DEF Swept
  <1>1. life = 0
    BY DEF Init
  <1> QED
    BY <1>1

-----------------------------------------------------------------------------
(* The calls of the agent.                                                 *)

\* Two requests are one only if they have one client and one number; the call of another
\* bus is none of them.
LEMMA RequestsDiffer ==
    ASSUME OneSecret, NEW c \in Clients, NEW d \in Clients, NEW o \in Nat, NEW p \in Nat
    PROVE  /\ \A v \in Variables : AskMsg(v, c, o) = AskMsg(v, d, p) => c = d /\ o = p
           /\ \A a \in Args, b \in Args : CallMsg(c, o, a) = CallMsg(d, p, b) => c = d /\ o = p
           /\ Replicas # {} => \A a \in Args, b \in Args : CallMsg(c, o, a) # PlainMsg("call", b)
  <1>1. ASSUME NEW v \in Variables, AskMsg(v, c, o) = AskMsg(v, d, p) PROVE c = d /\ o = p
    <2>1. /\ AskMsg(v, c, o).data.payload.client = c /\ AskMsg(v, c, o).data.payload.op = o
          /\ AskMsg(v, d, p).data.payload.client = d /\ AskMsg(v, d, p).data.payload.op = p
      BY AskMsgIs
    <2> QED
      BY <1>1, <2>1
  <1>2. ASSUME NEW a \in Args, NEW b \in Args, CallMsg(c, o, a) = CallMsg(d, p, b)
        PROVE  c = d /\ o = p
    <2>1. /\ CallMsg(c, o, a).data.payload.client = c /\ CallMsg(c, o, a).data.payload.op = o
          /\ CallMsg(d, p, b).data.payload.client = d /\ CallMsg(d, p, b).data.payload.op = p
      BY CallMsgIs
    <2> QED
      BY <1>2, <2>1
  <1>3. ASSUME NEW r \in Replicas, NEW a \in Args, NEW b \in Args
        PROVE  CallMsg(c, o, a) # PlainMsg("call", b)
    <2>1. Received(Identity[r], CallMsg(c, o, a)) # NoEnvelope
      BY CallMsgIs
    <2>2. Received(Identity[r], PlainMsg("call", b)) = NoEnvelope
      BY PlainIsRefused
    <2> QED
      BY <2>1, <2>2
  <1> QED
    BY <1>1, <1>2, <1>3

\* Asked, after a step.
LEMMA AskedNext ==
    ASSUME NEW r, NEW v, NEW c, NEW o
    PROVE  Asked(r, v, c, o)' <=>
              \/ AskMsg(v, c, o) \in Range(inbox'[r][v])
              \/ /\ task'[r][v].step \in {"resolve", "store", "reply"}
                 /\ task'[r][v].msg = AskMsg(v, c, o)
  BY DEF Asked, AskMsg

\* Called, after a step.
LEMMA CalledNext ==
    ASSUME NEW r, NEW c, NEW o
    PROVE  Called(r, c, o)' <=>
              \E a \in Args :
                  \/ CallMsg(c, o, a) \in Range(inbox'[r]["call"])
                  \/ task'[r]["call"].step = "check" /\ task'[r]["call"].msg = CallMsg(c, o, a)
  BY DEF Called, CallMsg

\* A number that has not been given is in no loop.
LEMMA FreshIs ==
    ASSUME OneSecret, Formed, NEW r \in Replicas, NEW c \in Clients, NEW o \in Nat,
           o \notin 1..asks + hooks
    PROVE  ~Called(r, c, o) /\ \A v \in Variables : ~Asked(r, v, c, o)
  <1>0. \A x \in 1..asks + hooks : x \in Nat
    BY NumbersAre DEF Formed
  <1>1. ASSUME NEW v \in Variables PROVE ~Fits(v, AskMsg(v, c, o))
    <2> SUFFICES ASSUME Fits(v, AskMsg(v, c, o)) PROVE FALSE
      OBVIOUS
    <2>1. PICK d \in Clients, p \in 1..asks + hooks : AskMsg(v, c, o) = AskMsg(v, d, p)
      BY DEF Fits
    <2> QED
      BY <1>0, <2>1, RequestsDiffer
  <1>2. ASSUME NEW a \in Args PROVE ~Fits("call", CallMsg(c, o, a)) /\ ~Foreign("call", CallMsg(c, o, a))
    <2>1. ASSUME Fits("call", CallMsg(c, o, a)) PROVE FALSE
      <3>1. PICK d \in Clients, p \in 1..asks + hooks, b \in Args : CallMsg(c, o, a) = CallMsg(d, p, b)
        BY <2>1 DEF Fits
      <3> QED
        BY <1>0, <3>1, RequestsDiffer
    <2>2. ~Foreign("call", CallMsg(c, o, a))
      BY RequestsDiffer DEF Foreign
    <2> QED
      BY <2>1, <2>2
  <1>3. ASSUME NEW v \in Variables, Asked(r, v, c, o) PROVE FALSE
    <2>1. v \in Loops /\ v # "call"
      BY LoopsAre
    <2>2. AskMsg(v, c, o) \notin Range(inbox[r][v])
      BY <1>1, <2>1 DEF Formed, Posted, Foreign
    <2>3. FitsTask(v, task[r][v])
      BY <2>1, TaskIs
    <2> QED
      BY <1>1, <1>3, <2>2, <2>3 DEF Asked, FitsTask
  <1>4. ASSUME NEW a \in Args,
               \/ CallMsg(c, o, a) \in Range(inbox[r]["call"])
               \/ task[r]["call"].step = "check" /\ task[r]["call"].msg = CallMsg(c, o, a)
        PROVE  FALSE
    <2>1. "call" \in Loops
      BY LoopsAre
    <2>2. CallMsg(c, o, a) \notin Range(inbox[r]["call"])
      BY <1>2, <2>1 DEF Formed, Posted
    <2>3. FitsTask("call", task[r]["call"])
      BY <2>1, TaskIs
    <2> QED
      BY <1>2, <1>4, <2>2, <2>3 DEF FitsTask
  <1> QED
    BY <1>3, <1>4 DEF Called

\* What a step leaves of what the invariant says of a call.
Kept(c) ==
    /\ disturbed \subseteq disturbed' /\ (up # Replicas => up' # Replicas)
    /\ plain = TRUE => plain' = TRUE
    /\ \A r \in Replicas, o \in 1..asks + hooks : Called(r, c, o)' => Called(r, c, o)
    /\ \A r \in Replicas, v \in Variables, o \in 1..asks + hooks :
          Asked(r, v, c, o)' => Asked(r, v, c, o)
    /\ \A r \in Replicas, v \in Variables : task'[r][v].step \in {"store", "reply"} =>
          \/ /\ task[r][v].step \in {"store", "reply"} /\ task'[r][v].msg = task[r][v].msg
             /\ task'[r][v].value = task[r][v].value
          \/ task'[r][v].value \in Nat /\ life <= task'[r][v].value
    /\ \A n \in 1..life - 1, v \in Variables :
          (\E r \in up' : ToDelete(r, n, v)') => \E r \in up : ToDelete(r, n, v)
    /\ client[c].step = "called" =>
          \A r \in Replicas : Called(r, c, client[c].op) =>
              \/ up' # Replicas \/ plain' = TRUE
              \/ \E q \in Replicas, o \in {client[c].op} : Called(q, c, o)'

\* From one bound to another.
LEMMA Between ==
    ASSUME NEW a \in Nat, NEW b \in Nat, NEW d \in Nat, a <= b, b <= d PROVE d >= a
  OBVIOUS

\* Intervals that grow.
LEMMA Longer ==
    ASSUME NEW a \in Nat, NEW b \in Nat, a <= b, NEW x \in 1..a
    PROVE  x \in 1..b /\ x \in Nat /\ x <= a /\ \A n \in 1..x - 1 : n \in 1..a - 1
  OBVIOUS

\* The numbers only grow.
Growing ==
    /\ life' \in Nat /\ life <= life' /\ asks' + hooks' \in Nat /\ asks + hooks <= asks' + hooks'

\* A step that leaves a call alone, and what the invariant says of it.
LEMMA CallStays ==
    ASSUME Formed, NEW c \in Clients, CallInv(c), Kept(c), Growing, client'[c] = client[c]
    PROVE  CallInv(c)'
  <1>1. PICK k : k = client[c]
    OBVIOUS
  <1>2. k \in Calls
    BY <1>1 DEF Formed, Typed
  <1>3. /\ k.step \in Open => k \in OpenCalls
        /\ k.step = "done" => k \in DoneCalls
        /\ k.step = "called" => k \in CalledCalls
    BY <1>2, CallForms
  <1>4. life \in Nat /\ asks + hooks \in Nat
    BY NumbersAre DEF Formed
  <1>5. /\ \A n \in 1..life : n \in 1..life' /\ n <= life /\ n \in Nat /\ \A x \in 1..n - 1 : x \in 1..life - 1
        /\ \A o \in 1..asks + hooks : o \in 1..asks' + hooks'
    BY <1>4, Longer DEF Growing
  <1>6. client'[c] = k
    BY <1>1
  <1>7. k.step \in Open \cup {"called"} => k.op \in 1..asks + hooks
    BY <1>1 DEF CallInv, Open
  <1>8. k.step \in Open \cup {"called"} => k.op \in 1..asks' + hooks'
    BY <1>5, <1>7
  <1>9. k.step \in Open => \A r \in Replicas : ~Called(r, c, k.op)'
    BY <1>1, <1>7 DEF CallInv, Kept, Open
  <1>10. k.step \in {"session", "global", "ask", "called"} =>
            \A r \in Replicas, v \in Variables : ~Asked(r, v, c, k.op)'
    BY <1>1, <1>7 DEF CallInv, Kept, Open
  <1>11. k.step \in Open \cup {"done"} => k.born \in 1..life
    BY <1>1 DEF CallInv, Open
  <1>12. k.step = "wait" =>
            \A r \in Replicas, v \in Variables :
               task'[r][v].step \in {"store", "reply"} /\ task'[r][v].msg = AskMsg(v, c, k.op)
                   => task'[r][v].value >= k.born
    <2> SUFFICES ASSUME k.step = "wait", NEW r \in Replicas, NEW v \in Variables,
                        task'[r][v].step \in {"store", "reply"},
                        task'[r][v].msg = AskMsg(v, c, k.op)
                 PROVE  task'[r][v].value >= k.born
      OBVIOUS
    <2>1. k.born \in Nat /\ k.born <= life
      BY <1>5, <1>11 DEF Open
    <2>2. CASE /\ task[r][v].step \in {"store", "reply"} /\ task'[r][v].msg = task[r][v].msg
               /\ task'[r][v].value = task[r][v].value
      BY <1>1, <2>2 DEF CallInv
    <2>3. CASE task'[r][v].value \in Nat /\ life <= task'[r][v].value
      <3>1. PICK w : w = task'[r][v].value
        OBVIOUS
      <3>2. w >= k.born
        BY <1>4, <2>1, <2>3, <3>1, Between
      <3> QED
        BY <3>1, <3>2
    <2> QED
      BY <2>2, <2>3 DEF Kept
  <1>13. k.step = "session" =>
            \A n \in 1..k.born - 1 : (\E r \in up' : ToDelete(r, n, k.var)') => n \in k.owed
    <2> SUFFICES ASSUME k.step = "session", NEW n \in 1..k.born - 1, NEW r \in up', ToDelete(r, n, k.var)'
                 PROVE  n \in k.owed
      OBVIOUS
    <2>1. k.var \in Variables
      BY <1>3 DEF OpenCalls, Open
    <2>2. n \in 1..life - 1
      BY <1>5, <1>11 DEF Open
    <2>3. \E q \in up : ToDelete(q, n, k.var)
      BY <2>1, <2>2 DEF Kept
    <2> QED
      BY <1>1, <2>3 DEF CallInv
  <1>14. k.step = "done" => (k.value \in 1..k.born - 1 => k.value \in k.owed \cup disturbed')
    BY <1>1 DEF CallInv, Kept
  <1>15. k.step = "called" => up' # Replicas \/ plain' \/ \E r \in Replicas : Called(r, c, k.op)'
    <2> SUFFICES ASSUME k.step = "called"
                 PROVE  up' # Replicas \/ plain' \/ \E r \in Replicas : Called(r, c, k.op)'
      OBVIOUS
    <2>1. up # Replicas \/ plain = TRUE \/ \E r \in Replicas : Called(r, c, k.op)
      BY <1>1 DEF CallInv, Formed, Typed
    <2> QED
      BY <1>1, <2>1 DEF Kept
  <1> QED
    BY <1>6, <1>8, <1>9, <1>10, <1>11, <1>5, <1>12, <1>13, <1>14, <1>15, AskedNext, CalledNext
       DEF CallInv, Open

\* Steps of one loop.
LEMMA KeptLoop ==
    ASSUME Formed, NEW c \in Clients, NEW r \in Replicas, NEW l \in Loops,
           up' = up, plain' = plain, disturbed \subseteq disturbed',
           \A q \in Replicas, k \in Loops : q # r \/ k # l =>
               inbox'[q][k] = inbox[q][k] /\ task'[q][k] = task[q][k],
           l = "lifecycle" =>
               \A n \in 1..life - 1, v \in Variables : ToDelete(r, n, v)' => ToDelete(r, n, v),
           l \in Variables =>
               \A o \in 1..asks + hooks : Asked(r, l, c, o)' => Asked(r, l, c, o),
           l \in Variables => (task'[r][l].step \in {"store", "reply"} =>
               \/ /\ task[r][l].step \in {"store", "reply"} /\ task'[r][l].msg = task[r][l].msg
                  /\ task'[r][l].value = task[r][l].value
               \/ task'[r][l].value \in Nat /\ life <= task'[r][l].value),
           l = "call" => \A o \in 1..asks + hooks : Called(r, c, o)' => Called(r, c, o),
           l = "call" /\ client[c].step = "called" =>
               \A o \in {client[c].op} : Called(r, c, o) => plain = TRUE \/ Called(r, c, o)'
    PROVE  Kept(c)
  <1>1. up \subseteq Replicas /\ {"lifecycle", "call"} \subseteq Loops
    BY LoopsAre DEF Formed, Typed
  <1>2. ASSUME NEW q \in Replicas, NEW o, q # r \/ l # "call"
        PROVE  Called(q, c, o)' <=> Called(q, c, o)
    <2>1. inbox'[q]["call"] = inbox[q]["call"] /\ task'[q]["call"] = task[q]["call"]
      BY <1>1, <1>2
    <2> QED
      BY <2>1, CalledNext DEF Called
  <1>3. ASSUME NEW q \in Replicas, NEW v \in Variables, q # r \/ l # v
        PROVE  /\ task'[q][v] = task[q][v]
               /\ \A o : Asked(q, v, c, o)' <=> Asked(q, v, c, o)
    <2>1. inbox'[q][v] = inbox[q][v] /\ task'[q][v] = task[q][v]
      BY <1>3, LoopsAre
    <2> QED
      BY <2>1, AskedNext DEF Asked
  <1>4. ASSUME NEW q \in Replicas, NEW n, NEW v, q # r \/ l # "lifecycle"
        PROVE  ToDelete(q, n, v)' <=> ToDelete(q, n, v)
    <2>1. /\ inbox'[q]["lifecycle"] = inbox[q]["lifecycle"]
          /\ task'[q]["lifecycle"] = task[q]["lifecycle"]
      BY <1>1, <1>4
    <2> QED
      BY <2>1, ToDeleteNext DEF ToDelete
  <1>5. \A q \in Replicas, o \in 1..asks + hooks : Called(q, c, o)' => Called(q, c, o)
    BY <1>2
  <1>6. \A q \in Replicas, v \in Variables, o \in 1..asks + hooks :
          Asked(q, v, c, o)' => Asked(q, v, c, o)
    BY <1>3
  <1>7. \A q \in Replicas, v \in Variables : task'[q][v].step \in {"store", "reply"} =>
          \/ /\ task[q][v].step \in {"store", "reply"} /\ task'[q][v].msg = task[q][v].msg
             /\ task'[q][v].value = task[q][v].value
          \/ task'[q][v].value \in Nat /\ life <= task'[q][v].value
    BY <1>3
  <1>8. \A n \in 1..life - 1, v \in Variables :
          (\E q \in up' : ToDelete(q, n, v)') => \E q \in up : ToDelete(q, n, v)
    BY <1>1, <1>4
  <1>9. client[c].step = "called" =>
          \A q \in Replicas : Called(q, c, client[c].op) =>
              \/ up' # Replicas \/ plain' = TRUE
              \/ \E s \in Replicas, o \in {client[c].op} : Called(s, c, o)'
    <2> SUFFICES ASSUME client[c].step = "called", NEW q \in Replicas, NEW o, o = client[c].op,
                        Called(q, c, o)
                 PROVE  plain' = TRUE \/ Called(q, c, o)'
      OBVIOUS
    <2>1. CASE q # r \/ l # "call"
      BY <1>2, <2>1
    <2>2. CASE q = r /\ l = "call"
      BY <2>2
    <2> QED
      BY <2>1, <2>2
  <1> QED
    BY <1>5, <1>6, <1>7, <1>8, <1>9 DEF Kept

\* Steps that leave the loops alone.
LEMMA KeptQuiet ==
    ASSUME Formed, NEW c \in Clients, UNCHANGED <<up, inbox, task, disturbed>>,
           plain = TRUE => plain' = TRUE
    PROVE  Kept(c)
  <1>1. inbox' = inbox /\ task' = task /\ up' = up /\ disturbed' = disturbed
    OBVIOUS
  <1>2. \A r, o : Called(r, c, o)' <=> Called(r, c, o)
    BY <1>1, CalledNext DEF Called
  <1>3. \A r, v, o : Asked(r, v, c, o)' <=> Asked(r, v, c, o)
    BY <1>1, AskedNext DEF Asked
  <1>4. \A r, n, v : ToDelete(r, n, v)' <=> ToDelete(r, n, v)
    BY <1>1, ToDeleteNext DEF ToDelete
  <1> QED
    BY <1>1, <1>2, <1>3, <1>4 DEF Kept

\* Steps that send something else than a request of this call.
LEMMA KeptSend ==
    ASSUME Formed, NEW c \in Clients, NEW l \in Loops, l # "lifecycle", NEW m \in Messages,
           Deliver(l, m), UNCHANGED <<up, task, disturbed>>, plain = TRUE => plain' = TRUE,
           l = "call" => \A o \in 1..asks + hooks, a \in Args : m # CallMsg(c, o, a),
           l \in Variables => \A o \in 1..asks + hooks : m # AskMsg(l, c, o)
    PROVE  Kept(c)
  <1>1. task' = task /\ up' = up /\ disturbed' = disturbed
    OBVIOUS
  <1>2. inbox \in [Replicas -> [Loops -> Seq(Messages)]] /\ up \subseteq Replicas
        /\ {"lifecycle", "call"} \subseteq Loops
    BY LoopsAre DEF Formed, Typed
  <1>3. PICK r \in Replicas : inbox' = [inbox EXCEPT ![r][l] = Append(@, m)]
    BY <1>2 DEF Deliver
  <1>4. /\ Range(inbox'[r][l]) = Range(inbox[r][l]) \cup {m}
        /\ \A q \in Replicas, k \in Loops : q # r \/ k # l => inbox'[q][k] = inbox[q][k]
    BY <1>2, <1>3, Queueing
  <1>5. ASSUME NEW q \in Replicas, NEW k \in Loops
        PROVE  \/ inbox'[q][k] = inbox[q][k]
               \/ k = l /\ Range(inbox'[q][k]) = Range(inbox[q][k]) \cup {m}
    BY <1>4
  <1>6. ASSUME NEW q \in Replicas, NEW o
        PROVE  /\ Called(q, c, o) => Called(q, c, o)'
               /\ o \in 1..asks + hooks => (Called(q, c, o)' => Called(q, c, o))
    <2>1. \/ inbox'[q]["call"] = inbox[q]["call"]
          \/ l = "call" /\ Range(inbox'[q]["call"]) = Range(inbox[q]["call"]) \cup {m}
      BY <1>2, <1>5
    <2> QED
      BY <1>1, <2>1, CalledNext DEF Called
  <1>7. ASSUME NEW q \in Replicas, NEW v \in Variables, NEW o \in 1..asks + hooks, Asked(q, v, c, o)'
        PROVE  Asked(q, v, c, o)
    <2>1. \/ inbox'[q][v] = inbox[q][v]
          \/ v = l /\ Range(inbox'[q][v]) = Range(inbox[q][v]) \cup {m}
      BY <1>5, LoopsAre
    <2> QED
      BY <1>1, <1>7, <2>1, AskedNext DEF Asked
  <1>8. ASSUME NEW q \in up, NEW n, NEW v, ToDelete(q, n, v)' PROVE ToDelete(q, n, v)
    <2>1. inbox'[q]["lifecycle"] = inbox[q]["lifecycle"]
      BY <1>2, <1>5
    <2> QED
      BY <1>1, <1>8, <2>1, ToDeleteNext DEF ToDelete
  <1> QED
    BY <1>1, <1>6, <1>7, <1>8 DEF Kept

\* A lifecycle event is published: it is of no life that was over before.
LEMMA KeptPublishing ==
    ASSUME OneSecret, Formed, NEW c \in Clients, NEW kind \in {"created", "deleted"},
           NEW p \in Nat, p >= life, PublishLifecycleEvent(kind, p),
           UNCHANGED <<bucket, up, task, client>>, plain' = plain
    PROVE  Kept(c)
  <1>1. /\ \A r \in Replicas, l \in Loops : l # "lifecycle" => inbox'[r][l] = inbox[r][l]
        /\ \A v : \A r \in up, n \in Nat : ToDelete(r, n, v)' => ToDelete(r, n, v) \/ n = p
        /\ disturbed \subseteq disturbed'
    BY Publishing
  <1>2. task' = task /\ up' = up
    OBVIOUS
  <1>3. ASSUME NEW q \in Replicas, NEW o PROVE Called(q, c, o)' <=> Called(q, c, o)
    <2>1. inbox'[q]["call"] = inbox[q]["call"]
      BY <1>1, LoopsAre
    <2> QED
      BY <1>2, <2>1, CalledNext DEF Called
  <1>4. ASSUME NEW q \in Replicas, NEW v \in Variables, NEW o
        PROVE  Asked(q, v, c, o)' <=> Asked(q, v, c, o)
    <2>1. inbox'[q][v] = inbox[q][v]
      BY <1>1, LoopsAre
    <2> QED
      BY <1>2, <2>1, AskedNext DEF Asked
  <1>5. ASSUME NEW n \in 1..life - 1 PROVE n \in Nat /\ n # p
    BY NumbersAre DEF Formed
  <1> QED
    BY <1>1, <1>2, <1>3, <1>4, <1>5 DEF Kept

\* A call that is over, and a client that is at rest.
LEMMA DoneInv ==
    ASSUME NEW c, NEW k, client'[c] = k, k.step = "done", k.born \in 1..life',
           k.value \in 1..k.born - 1 => k.value \in k.owed \cup disturbed'
    PROVE  CallInv(c)'
  BY DEF CallInv

\* A client at rest, or with the reply of a hook.
LEMMA RestInv ==
    ASSUME NEW c, NEW k, client'[c] = k, k.step \in {"idle", "answered", "forsaken"}
    PROVE  CallInv(c)'
  BY DEF CallInv

\* A call is of a life, and those before it are over.
LEMMA BornIs ==
    ASSUME Formed, NEW c \in Clients, CallInv(c), client[c].step \in Open
    PROVE  /\ client[c].born \in 1..life /\ client[c].born \in Nat /\ client[c].born <= life
           /\ \A n \in 1..client[c].born - 1 : n \in 1..life /\ n # life /\ n \in Nat /\ n # 0
           /\ \A n \in 1..client[c].born - 1 : n < client[c].born
  <1>1. PICK b : b = client[c].born
    OBVIOUS
  <1>2. b \in 1..life /\ life \in Nat
    BY <1>1, NumbersAre DEF Formed, CallInv, Open
  <1>3. /\ b \in Nat /\ b <= life
        /\ \A n \in 1..b - 1 : n \in 1..life /\ n # life /\ n \in Nat /\ n # 0 /\ n < b
    BY <1>2
  <1> QED
    BY <1>1, <1>2, <1>3

\* What a call finds in the bucket of an earlier life is excused.
LEMMA FoundIs ==
    ASSUME OneSecret, Formed, Swept, NEW c \in Clients, CallInv(c), client[c].step = "session",
           NEW n, n = bucket[SessionVarKey(client[c].var)], n \in 1..client[c].born - 1
    PROVE  n \in client[c].owed \cup disturbed
  <1>1. PICK v : v = client[c].var
    OBVIOUS
  <1>2. v \in Variables
    BY <1>1, OpenIs DEF Open
  <1>3. n \in 1..life /\ n # life /\ n # 0
    BY BornIs DEF Open
  <1>4. v \in Scoped
    BY <1>1, <1>2, <1>3 DEF Formed, Valued
  <1>5. n \in disturbed \/ (\E r \in up : ToDelete(r, n, v)) \/ Clean(n, v)
    BY <1>3, <1>4 DEF Swept
  <1>6. ~Clean(n, v)
    BY <1>1 DEF Clean
  <1>7. (\E r \in up : ToDelete(r, n, v)) => n \in client[c].owed
    BY <1>1 DEF CallInv
  <1> QED
    BY <1>5, <1>6, <1>7

\* What a call ends with.
LEMMA ResolvedInv ==
    ASSUME Formed, NEW c \in Clients, CallInv(c), client[c].step \in Open, NEW n, Resolved(c, n),
           life' = life, disturbed' = disturbed,
           n \in 1..client[c].born - 1 => n \in client[c].owed \cup disturbed
    PROVE  CallInv(c)'
  <1>1. PICK k : /\ k = [step |-> "done", var |-> client[c].var, born |-> client[c].born,
                         owed |-> client[c].owed, value |-> n]
                 /\ SetClient(c, k)
    BY DEF Resolved
  <1>2. k.step = "done" /\ k.born = client[c].born /\ k.owed = client[c].owed /\ k.value = n
    BY <1>1
  <1>3. client'[c] = k
    BY <1>1 DEF SetClient, Formed, Typed
  <1>4. k.born \in 1..life'
    BY <1>2, BornIs
  <1>5. k.value \in 1..k.born - 1 => k.value \in k.owed \cup disturbed'
    BY <1>2
  <1> QED
    BY <1>2, <1>3, <1>4, <1>5, DoneInv

\* A call goes on to its next step.
LEMMA AdvanceInv ==
    ASSUME OneSecret, Formed, NEW c \in Clients, CallInv(c), client[c].step \in {"session", "global"},
           NEW missed \in {"global", "ask"}, SetClient(c, [client[c] EXCEPT !.step = missed]),
           UNCHANGED <<life, asks, hooks, inbox, task>>
    PROVE  CallInv(c)'
  <1>1. PICK k, o : k = [client[c] EXCEPT !.step = missed] /\ o = client[c].op
    OBVIOUS
  <1>2. client[c] \in OpenCalls
    BY OpenIs DEF Open
  <1>3. k.step = missed /\ k.op = o /\ k.born = client[c].born
    BY <1>1, <1>2 DEF OpenCalls
  <1>4. client'[c] = k
    BY <1>1 DEF SetClient, Formed, Typed
  <1>5. inbox' = inbox /\ task' = task /\ asks' + hooks' = asks + hooks /\ life' = life
    OBVIOUS
  <1>6. o \in 1..asks + hooks /\ k.born \in 1..life
    BY <1>1, <1>3, BornIs DEF CallInv, Open
  <1>7. \A r \in Replicas : ~Called(r, c, o)'
    BY <1>1, <1>5, CalledNext DEF CallInv, Called
  <1>8. \A r \in Replicas, v \in Variables : ~Asked(r, v, c, o)'
    BY <1>1, <1>5, AskedNext DEF CallInv, Asked
  <1> QED
    BY <1>3, <1>4, <1>5, <1>6, <1>7, <1>8, AskedNext, CalledNext DEF CallInv

\* The numbers grow if each of them does.
LEMMA GrowingAlways ==
    ASSUME Formed, life' \in Nat, life <= life', asks' \in Nat, hooks' \in Nat, asks' >= asks,
           hooks' >= hooks
    PROVE  Growing
  <1>1. asks \in Nat /\ hooks \in Nat
    BY NumbersAre DEF Formed
  <1>2. asks' + hooks' \in Nat /\ asks' + hooks' >= asks + hooks /\ asks + hooks \in Nat
    BY <1>1, SumIsNat, SumGrows
  <1> QED
    BY <1>2 DEF Growing

\* The calls of the other clients.
LEMMA OthersKept ==
    ASSUME Formed, \A c \in Clients : CallInv(c), Growing, NEW d,
           \A c \in Clients : c # d => client'[c] = client[c] /\ Kept(c),
           d \in Clients => CallInv(d)'
    PROVE  \A c \in Clients : CallInv(c)'
  <1> SUFFICES ASSUME NEW c \in Clients PROVE CallInv(c)'
    OBVIOUS
  <1>1. CASE c = d
    BY <1>1
  <1>2. CASE c # d
    BY <1>2, CallStays
  <1> QED
    BY <1>1, <1>2

\* A step that leaves all calls alone.
LEMMA AllKept ==
    ASSUME Formed, \A c \in Clients : CallInv(c), Growing, client' = client,
           \A c \in Clients : Kept(c)
    PROVE  \A c \in Clients : CallInv(c)'
  BY CallStays

\* CallInv is kept: a life begins.
LEMMA CallsCreate ==
    ASSUME OneSecret, Formed, \A c \in Clients : CallInv(c), Create
    PROVE  \A c \in Clients : CallInv(c)'
  <1>1. /\ life' = life + 1 /\ life \in Nat /\ asks \in Nat /\ hooks \in Nat
        /\ PublishLifecycleEvent("created", life + 1)
        /\ UNCHANGED <<bucket, up, task, client, asks, hooks, plain>>
    BY NumbersAre DEF Formed, Create
  <1>2. life + 1 \in Nat /\ life + 1 >= life /\ life <= life + 1 /\ asks >= asks /\ hooks >= hooks
    BY <1>1
  <1>3. Growing
    BY <1>1, <1>2, GrowingAlways
  <1>4. \A c \in Clients : Kept(c)
    BY <1>1, <1>2, KeptPublishing
  <1> QED
    BY <1>1, <1>3, <1>4, AllKept

\* CallInv is kept: a life ends.
LEMMA CallsDelete ==
    ASSUME OneSecret, Formed, \A c \in Clients : CallInv(c), Delete
    PROVE  \A c \in Clients : CallInv(c)'
  <1>1. /\ life' = life /\ life \in Nat /\ asks \in Nat /\ hooks \in Nat
        /\ PublishLifecycleEvent("deleted", life)
        /\ UNCHANGED <<bucket, up, task, client, asks, hooks, plain>>
    BY NumbersAre DEF Formed, Delete
  <1>2. life >= life /\ life <= life /\ asks >= asks /\ hooks >= hooks
    BY <1>1
  <1>3. Growing
    BY <1>1, <1>2, GrowingAlways
  <1>4. \A c \in Clients : Kept(c)
    BY <1>1, <1>2, KeptPublishing
  <1> QED
    BY <1>1, <1>3, <1>4, AllKept

\* A client's step that sends nothing.
LEMMA CallsQuiet ==
    ASSUME Formed, \A c \in Clients : CallInv(c), NEW d \in Clients, NEW k, SetClient(d, k),
           UNCHANGED <<life, up, inbox, task, disturbed, hooks, plain>>,
           asks' \in Nat, asks' >= asks, CallInv(d)'
    PROVE  \A c \in Clients : CallInv(c)'
  <1>1. life \in Nat /\ life' = life /\ hooks \in Nat /\ hooks' = hooks
        /\ life <= life /\ hooks >= hooks
    BY NumbersAre DEF Formed
  <1>2. Growing
    BY <1>1, GrowingAlways
  <1>3. \A c \in Clients : c # d => client'[c] = client[c]
    BY DEF SetClient, Formed, Typed
  <1>4. \A c \in Clients : Kept(c)
    BY KeptQuiet
  <1> QED
    BY <1>2, <1>3, <1>4, OthersKept

\* CallInv is kept: a value of an earlier life is one that a deletion still owes.
LEMMA CallsLookupSession ==
    ASSUME OneSecret, Formed, Swept, \A c \in Clients : CallInv(c), NEW d \in Clients,
           Lookup(d, "session", SessionVarKey(client[d].var), "global")
    PROVE  \A c \in Clients : CallInv(c)'
  <1>1. PICK n : n = bucket[SessionVarKey(client[d].var)]
    OBVIOUS
  <1>2. /\ client[d].step = "session"
        /\ UNCHANGED <<life, up, inbox, task, disturbed, asks, hooks, plain>>
        /\ Resolved(d, n) \/ SetClient(d, [client[d] EXCEPT !.step = "global"])
    BY <1>1 DEF Lookup, Busy
  <1>3. asks \in Nat /\ asks' = asks /\ asks >= asks
    BY <1>2, NumbersAre DEF Formed
  <1>4. CASE Resolved(d, n)
    <2>1. n \in 1..client[d].born - 1 => n \in client[d].owed \cup disturbed
      BY <1>1, <1>2, FoundIs
    <2>2. CallInv(d)'
      BY <1>2, <1>4, <2>1, ResolvedInv DEF Open
    <2>3. \E k : SetClient(d, k)
      BY <1>4 DEF Resolved
    <2> QED
      BY <1>2, <1>3, <2>2, <2>3, CallsQuiet
  <1>5. CASE SetClient(d, [client[d] EXCEPT !.step = "global"])
    <2>1. CallInv(d)'
      BY <1>2, <1>5, AdvanceInv
    <2> QED
      BY <1>2, <1>3, <1>5, <2>1, CallsQuiet
  <1> QED
    BY <1>2, <1>4, <1>5

\* CallInv is kept: a global value is of no life.
LEMMA CallsLookupGlobal ==
    ASSUME OneSecret, Formed, \A c \in Clients : CallInv(c), NEW d \in Clients,
           Lookup(d, "global", VarKey(client[d].var), "ask")
    PROVE  \A c \in Clients : CallInv(c)'
  <1>1. PICK n : n = bucket[VarKey(client[d].var)]
    OBVIOUS
  <1>2. /\ client[d].step = "global"
        /\ UNCHANGED <<life, up, inbox, task, disturbed, asks, hooks, plain>>
        /\ Resolved(d, n) \/ SetClient(d, [client[d] EXCEPT !.step = "ask"])
    BY <1>1 DEF Lookup, Busy
  <1>3. asks \in Nat /\ asks' = asks /\ asks >= asks
    BY <1>2, NumbersAre DEF Formed
  <1>4. CASE Resolved(d, n)
    <2>1. n \notin 1..client[d].born - 1
      <3>1. client[d].var \in Variables
        BY <1>2, OpenIs DEF Open
      <3>2. n \in {0, GlobalValue}
        BY <1>1, <3>1 DEF Formed, Valued
      <3>3. \A x \in 1..client[d].born - 1 : x \in 1..life /\ x # 0
        BY <1>2, BornIs DEF Open
      <3>4. GlobalValue \notin 1..life
        BY GlobalIs, NumbersAre DEF Formed
      <3> QED
        BY <3>2, <3>3, <3>4
    <2>2. CallInv(d)'
      BY <1>2, <1>4, <2>1, ResolvedInv DEF Open
    <2>3. \E k : SetClient(d, k)
      BY <1>4 DEF Resolved
    <2> QED
      BY <1>2, <1>3, <2>2, <2>3, CallsQuiet
  <1>5. CASE SetClient(d, [client[d] EXCEPT !.step = "ask"])
    <2>1. CallInv(d)'
      BY <1>2, <1>5, AdvanceInv
    <2> QED
      BY <1>2, <1>3, <1>5, <2>1, CallsQuiet
  <1> QED
    BY <1>2, <1>4, <1>5

\* A call that ends without a value.
LEMMA CallsNothing ==
    ASSUME Formed, \A c \in Clients : CallInv(c), NEW d \in Clients, client[d].step \in Open,
           Resolved(d, 0), UNCHANGED <<life, up, inbox, task, disturbed, asks, hooks, plain>>
    PROVE  \A c \in Clients : CallInv(c)'
  <1>1. asks \in Nat /\ asks' = asks /\ asks >= asks
    BY NumbersAre DEF Formed
  <1>2. 0 \notin 1..client[d].born - 1
    BY BornIs
  <1>3. CallInv(d)'
    BY <1>2, ResolvedInv
  <1>4. \E k : SetClient(d, k)
    BY DEF Resolved
  <1> QED
    BY <1>1, <1>3, <1>4, CallsQuiet

\* CallInv is kept: the call returns.
LEMMA CallsReturn ==
    ASSUME Formed, \A c \in Clients : CallInv(c), NEW d \in Clients, Return(d)
    PROVE  \A c \in Clients : CallInv(c)'
  <1>1. /\ SetClient(d, Idle) /\ UNCHANGED <<life, up, inbox, task, disturbed, asks, hooks, plain>>
    BY DEF Return, Busy
  <1>2. asks \in Nat /\ asks' = asks /\ asks >= asks
    BY <1>1, NumbersAre DEF Formed
  <1>3. client'[d] = Idle
    BY <1>1 DEF SetClient, Formed, Typed
  <1>4. CallInv(d)'
    BY <1>3, IdleFits, RestInv
  <1> QED
    BY <1>1, <1>2, <1>4, CallsQuiet

\* The request of a call that was made before.
LEMMA CallsAskSent ==
    ASSUME OneSecret, Formed, \A c \in Clients : CallInv(c), NEW d \in Clients,
           client[d].step = "ask", NEW v, v = client[d].var, NEW o, o = client[d].op,
           Deliver(v, AskMsg(v, d, o)), SetClient(d, [client[d] EXCEPT !.step = "wait"]),
           UNCHANGED <<life, up, task, disturbed, asks, hooks, plain>>
    PROVE  \A c \in Clients : CallInv(c)'
  <1>1. client[d] \in OpenCalls /\ v \in Variables /\ o \in Nat
    BY OpenIs DEF Open
  <1>2. PICK m : m = AskMsg(v, d, o)
    OBVIOUS
  <1>3. m \in Messages /\ v \in Loops /\ v # "lifecycle" /\ v # "call" /\ "call" \in Loops
    BY <1>1, <1>2, AskMsgIs, LoopsAre
  <1>4. /\ asks \in Nat /\ hooks \in Nat /\ life \in Nat /\ asks >= asks /\ hooks >= hooks
        /\ life <= life /\ \A p \in 1..asks + hooks : p \in Nat
    BY NumbersAre DEF Formed
  <1>5. Growing
    BY <1>4, GrowingAlways
  <1>6. ASSUME NEW c \in Clients, c # d PROVE client'[c] = client[c] /\ Kept(c)
    <2>1. \A p \in 1..asks + hooks : m # AskMsg(v, c, p)
      BY <1>1, <1>2, <1>4, <1>6, RequestsDiffer
    <2>2. Kept(c)
      BY <1>2, <1>3, <2>1, KeptSend
    <2> QED
      BY <1>6, <2>2 DEF SetClient, Formed, Typed
  <1>7. PICK k : k = [client[d] EXCEPT !.step = "wait"]
    OBVIOUS
  <1>8. k.step = "wait" /\ k.op = o /\ k.born = client[d].born
    BY <1>1, <1>7 DEF OpenCalls
  <1>9. client'[d] = k /\ task' = task /\ asks' + hooks' = asks + hooks /\ life' = life
    BY <1>7 DEF SetClient, Formed, Typed
  <1>10. o \in 1..asks + hooks /\ k.born \in 1..life
    BY <1>8, BornIs DEF CallInv, Open
  <1>11. ASSUME NEW r \in Replicas PROVE ~Called(r, d, o)'
    <2>1. inbox'[r]["call"] = inbox[r]["call"]
      <3>1. PICK s \in Replicas : inbox' = [inbox EXCEPT ![s][v] = Append(@, m)]
        BY <1>2 DEF Deliver, Formed, Typed
      <3>2. inbox \in [Replicas -> [Loops -> Seq(Messages)]]
        BY DEF Formed, Typed
      <3> QED
        BY <1>3, <3>1, <3>2, Queueing
    <2>2. ~Called(r, d, o)
      BY DEF CallInv
    <2> QED
      BY <1>9, <2>1, <2>2, CalledNext DEF Called
  <1>12. ASSUME NEW r \in Replicas, NEW w \in Variables
         PROVE  ~(task'[r][w].step \in {"store", "reply"} /\ task'[r][w].msg = AskMsg(w, d, o))
    <2>1. ~Asked(r, w, d, o)
      BY DEF CallInv
    <2> QED
      BY <1>9, <2>1 DEF Asked
  <1>13. CallInv(d)'
    <2>1. \A w : AskMsg(w, d, o)' = AskMsg(w, d, o)
      BY DEF AskMsg
    <2> QED
      BY <1>8, <1>9, <1>10, <1>11, <1>12, CalledNext DEF CallInv, AskMsg
  <1> QED
    BY <1>5, <1>6, <1>13, OthersKept

\* CallInv is kept: the request is sent, or nobody is there.
LEMMA CallsAsk ==
    ASSUME OneSecret, Formed, \A c \in Clients : CallInv(c), NEW d \in Clients, Ask(d)
    PROVE  \A c \in Clients : CallInv(c)'
  <1>1. /\ UNCHANGED <<life, up, task, disturbed, asks, hooks, plain>> /\ client[d].step = "ask"
    BY DEF Ask, Busy
  <1>2. \/ Deliver(client[d].var, AskMsg(client[d].var, d, client[d].op))
           /\ SetClient(d, [client[d] EXCEPT !.step = "wait"])
        \/ Resolved(d, 0) /\ UNCHANGED inbox
    BY DEF Ask, AskMsg
  <1> QED
    BY <1>1, <1>2, CallsAskSent, CallsNothing DEF Open

\* A new number is not among the old ones.
LEMMA NewNumber ==
    ASSUME NEW a \in Nat, NEW b \in Nat
    PROVE  /\ a + b + 1 \in Nat /\ a + b + 1 \notin 1..a + b
           /\ a + b + 1 \in 1..(a + 1) + b /\ a + b + 1 \in 1..a + (b + 1)
           /\ a + 1 \in Nat /\ a + 1 >= a /\ a >= a /\ a <= a
  OBVIOUS

\* CallInv is kept: a call begins, and remembers the deletions that are to come.
LEMMA CallsResolveVariable ==
    ASSUME OneSecret, Formed, \A c \in Clients : CallInv(c), NEW d \in Clients,
           NEW v \in Variables, ResolveVariable(d, v)
    PROVE  \A c \in Clients : CallInv(c)'
  <1>1. PICK w, o : w = {n \in Lives : Pending(n, v)} /\ o = asks + hooks + 1
    OBVIOUS
  <1>2. PICK k : k = [step |-> "session", var |-> v, op |-> o, born |-> life, owed |-> w]
    OBVIOUS
  <1>3. k.step = "session" /\ k.var = v /\ k.op = o /\ k.born = life /\ k.owed = w
    BY <1>2
  <1>4. /\ alive = TRUE /\ asks' = asks + 1 /\ SetClient(d, k)
        /\ UNCHANGED <<life, up, inbox, task, disturbed, hooks, plain>>
    BY <1>1, <1>2 DEF ResolveVariable, Formed, Typed
  <1>5. /\ asks \in Nat /\ hooks \in Nat /\ life \in Nat /\ bounds.lives \in Nat
        /\ life <= bounds.lives
    BY NumbersAre DEF Formed
  <1>6. /\ asks' \in Nat /\ asks' >= asks /\ o \in Nat /\ o \notin 1..asks + hooks
        /\ o \in 1..asks' + hooks'
    BY <1>1, <1>4, <1>5, NewNumber
  <1>7. client'[d] = k /\ inbox' = inbox /\ task' = task /\ up' = up /\ life' = life
    BY <1>4 DEF SetClient, Formed, Typed
  <1>8. k.born \in 1..life
    <2>1. life # 0
      BY <1>4 DEF Formed, Typed
    <2> QED
      BY <1>3, <1>5, <2>1
  <1>9. ASSUME NEW r \in Replicas
        PROVE  ~Called(r, d, o)' /\ \A u \in Variables : ~Asked(r, u, d, o)'
    <2>1. ~Called(r, d, o) /\ \A u \in Variables : ~Asked(r, u, d, o)
      BY <1>6, FreshIs
    <2> QED
      BY <1>7, <2>1, CalledNext, AskedNext DEF Called, Asked
  <1>10. ASSUME NEW n \in 1..life - 1, NEW r \in up, ToDelete(r, n, v)' PROVE n \in w
    <2>1. n \in 1..life /\ n \in Lives
      BY <1>5 DEF Lives
    <2>2. ToDelete(r, n, v)
      BY <1>7, <1>10, ToDeleteNext DEF ToDelete
    <2> QED
      BY <1>1, <2>1, <2>2, PendingIs
  <1>11. CallInv(d)'
    BY <1>3, <1>6, <1>7, <1>8, <1>9, <1>10, CalledNext, AskedNext DEF CallInv
  <1> QED
    BY <1>4, <1>6, <1>11, CallsQuiet

\* CallInv is kept: the call of a hook is in the loop that it was delivered to.
LEMMA CallsCallHook ==
    ASSUME OneSecret, Formed, \A c \in Clients : CallInv(c), NEW d \in Clients,
           NEW args \in Args, CallHook(d, args)
    PROVE  \A c \in Clients : CallInv(c)'
  <1>1. PICK o : o = asks + hooks + 1
    OBVIOUS
  <1>2. /\ hooks' = hooks + 1 /\ UNCHANGED <<life, up, task, disturbed, asks, plain>>
    BY DEF CallHook, UseHook
  <1>3. asks \in Nat /\ hooks \in Nat /\ life \in Nat
    BY NumbersAre DEF Formed
  <1>4. /\ hooks' \in Nat /\ hooks' >= hooks /\ o \in Nat /\ o \notin 1..asks + hooks
        /\ o \in 1..asks' + hooks' /\ asks' = asks /\ life' = life /\ life <= life /\ asks >= asks
    BY <1>1, <1>2, <1>3, NewNumber
  <1>5. Growing
    BY <1>3, <1>4, GrowingAlways
  <1>6. \A p \in 1..asks + hooks : p \in Nat
    BY <1>3, NumbersAre DEF Formed
  <1>7. CASE /\ Deliver("call", CallMsg(d, o, args))
             /\ SetClient(d, [step |-> "called", op |-> o, args |-> args])
    <2>1. PICK m, k : m = CallMsg(d, o, args) /\ k = [step |-> "called", op |-> o, args |-> args]
      OBVIOUS
    <2>2. k.step = "called" /\ k.op = o
      BY <2>1
    <2>3. /\ client'[d] = k /\ \A c \in Clients : c # d => client'[c] = client[c]
      BY <1>7, <2>1 DEF SetClient, Formed, Typed
    <2>4. m \in Messages /\ {"call", "lifecycle"} \subseteq Loops /\ "call" # "lifecycle"
          /\ "call" \notin Variables
      BY <1>4, <2>1, CallMsgIs, LoopsAre
    <2>5. ASSUME NEW c \in Clients, c # d PROVE client'[c] = client[c] /\ Kept(c)
      <3>1. \A p \in 1..asks + hooks, a \in Args : m # CallMsg(c, p, a)
        BY <1>4, <1>6, <2>1, <2>5, RequestsDiffer
      <3> QED
        BY <1>2, <1>7, <2>1, <2>3, <2>4, <2>5, <3>1, KeptSend
    <2>6. PICK s \in Replicas : inbox' = [inbox EXCEPT ![s]["call"] = Append(@, m)]
      BY <1>7, <2>1 DEF Deliver, Formed, Typed
    <2>7. /\ Range(inbox'[s]["call"]) = Range(inbox[s]["call"]) \cup {m}
          /\ \A q \in Replicas, l \in Loops : q # s \/ l # "call" => inbox'[q][l] = inbox[q][l]
      <3>1. inbox \in [Replicas -> [Loops -> Seq(Messages)]]
        BY DEF Formed, Typed
      <3> QED
        BY <2>4, <2>6, <3>1, Queueing
    <2>8. Called(s, d, o)'
      BY <2>1, <2>7, CalledNext
    <2>9. ASSUME NEW r \in Replicas, NEW v \in Variables PROVE ~Asked(r, v, d, o)'
      <3>1. ~Asked(r, v, d, o)
        BY <1>4, FreshIs
      <3>2. inbox'[r][v] = inbox[r][v] /\ task' = task
        BY <1>2, <2>4, <2>7, LoopsAre
      <3> QED
        BY <3>1, <3>2, AskedNext DEF Asked
    <2>10. CallInv(d)'
      BY <1>4, <2>2, <2>3, <2>8, <2>9, CalledNext, AskedNext DEF CallInv
    <2> QED
      BY <1>5, <2>5, <2>10, OthersKept
  <1>8. CASE /\ UNCHANGED inbox
             /\ SetClient(d, [step |-> "answered", args |-> args, ok |-> FALSE])
    <2>1. PICK k : /\ k = [step |-> "answered", args |-> args, ok |-> FALSE] /\ SetClient(d, k)
      BY <1>8
    <2>2. k.step = "answered"
      BY <2>1
    <2>3. /\ client'[d] = k /\ \A c \in Clients : c # d => client'[c] = client[c]
      BY <2>1 DEF SetClient, Formed, Typed
    <2>4. CallInv(d)'
      BY <2>2, <2>3, RestInv
    <2>5. \A c \in Clients : Kept(c)
      BY <1>2, <1>8, KeptQuiet
    <2> QED
      BY <1>5, <2>3, <2>4, <2>5, OthersKept
  <1> QED
    BY <1>1, <1>7, <1>8 DEF CallHook, CallMsg

\* What is published is no request of a call.
LEMMA CallsPublish ==
    ASSUME OneSecret, Formed, \A c \in Clients : CallInv(c), NEW l \in {"call", "event"},
           NEW m \in Messages, l = "call" => \E a \in Args : m = PlainMsg("call", a),
           UNCHANGED <<life, up, task, client, disturbed, asks>>, hooks' = hooks + 1,
           plain = TRUE => plain' = TRUE, UNCHANGED inbox \/ Deliver(l, m)
    PROVE  \A c \in Clients : CallInv(c)'
  <1>1. asks \in Nat /\ hooks \in Nat /\ life \in Nat
    BY NumbersAre DEF Formed
  <1>2. /\ hooks' \in Nat /\ hooks' >= hooks /\ asks' = asks /\ life' = life
        /\ life <= life /\ asks >= asks /\ client' = client
    BY <1>1, NewNumber
  <1>3. Growing
    BY <1>1, <1>2, GrowingAlways
  <1>4. l \in Loops /\ l # "lifecycle" /\ l \notin Variables
    BY LoopsAre
  <1>5. \A p \in 1..asks + hooks : p \in Nat
    BY <1>1, NumbersAre DEF Formed
  <1>6. ASSUME NEW c \in Clients PROVE Kept(c)
    <2>1. CASE UNCHANGED inbox
      BY <2>1, KeptQuiet
    <2>2. CASE Deliver(l, m)
      <3>1. Replicas # {}
        BY <2>2 DEF Deliver, Formed, Typed
      <3>2. l = "call" => \A o \in 1..asks + hooks, a \in Args : m # CallMsg(c, o, a)
        BY <1>5, <3>1, RequestsDiffer
      <3> QED
        BY <1>4, <2>2, <3>2, KeptSend
    <2> QED
      BY <2>1, <2>2
  <1> QED
    BY <1>2, <1>3, <1>6, AllKept

\* Steps of the loops leave the numbers as they are.
LEMMA Steady ==
    ASSUME Formed, UNCHANGED <<life, asks, hooks>>
    PROVE  Growing
  <1>1. /\ life \in Nat /\ asks \in Nat /\ hooks \in Nat
        /\ life' = life /\ asks' = asks /\ hooks' = hooks
    BY NumbersAre DEF Formed
  <1>2. life <= life /\ asks >= asks /\ hooks >= hooks
    BY <1>1
  <1> QED
    BY <1>1, <1>2, GrowingAlways

\* A loop that takes a message goes on with it: nothing new is asked or called, nothing is
\* forgotten.
LEMMA CallsTake ==
    ASSUME OneSecret, Formed, \A c \in Clients : CallInv(c),
           NEW r \in Replicas, NEW l \in Loops, Take(r, l)
    PROVE  \A c \in Clients : CallInv(c)'
  <1>1. /\ task[r][l].step = "idle" /\ task'[r][l].step \notin {"store", "reply"}
        /\ up' = up /\ plain' = plain /\ disturbed' = disturbed /\ client' = client
        /\ UNCHANGED <<life, asks, hooks>>
        /\ \A q \in Replicas, k \in Loops : q # r \/ k # l =>
                  inbox'[q][k] = inbox[q][k] /\ task'[q][k] = task[q][k]
    BY TakeIs
  <1>2. PICK m \in Range(inbox[r][l]) :
           /\ Range(inbox[r][l]) = Range(inbox'[r][l]) \cup {m}
           /\ Fits(l, m) \/ Foreign(l, m)
           /\ task'[r][l] = Start(r, l, m)
    BY TakeIs
  <1>3. PICK t : t = task'[r][l]
    OBVIOUS
  <1>4. m \in Messages /\ life \in Nat /\ asks + hooks \in Nat
    <2>1. inbox[r][l] \in Seq(Messages)
      BY DEF Formed, Typed
    <2>2. m \in Messages
      BY <1>2, <2>1 DEF Range
    <2> QED
      BY <2>2, NumbersAre DEF Formed
  <1>5. Started(l, m, t)
    BY <1>2, <1>3, <1>4, StartIs
  <1>6. ASSUME l = "lifecycle", NEW n, NEW v, ToDelete(r, n, v)' PROVE ToDelete(r, n, v)
    <2>1. PICK p \in 1..life :
             \/ m = LifeMsg("deleted", p) /\ t = [step |-> "delete", life |-> p, left |-> Scoped]
             \/ m = LifeMsg("created", p) /\ t = [step |-> "created", life |-> p]
      BY <1>5, <1>6 DEF Started
    <2>2. \/ m = LifeMsg("deleted", p) /\ t.step = "delete" /\ t.life = p
          \/ t.step = "created"
      BY <2>1
    <2>3. LifeMsg("deleted", n) \in Range(inbox[r]["lifecycle"])
      BY <1>2, <1>3, <1>6, <2>2, ToDeleteNext
    <2> QED
      BY <2>3 DEF ToDelete
  <1>7. ASSUME l \in Variables, NEW c, NEW o, Asked(r, l, c, o)' PROVE Asked(r, l, c, o)
    <2>1. t = [step |-> "resolve", msg |-> m]
      BY <1>5, <1>7 DEF Started
    <2>2. t.msg = m
      BY <2>1
    <2>3. AskMsg(l, c, o) \in Range(inbox[r][l])
      BY <1>2, <1>3, <1>7, <2>2, AskedNext
    <2> QED
      BY <2>3 DEF Asked
  <1>8. ASSUME l = "call", NEW c, NEW o, Called(r, c, o)' PROVE Called(r, c, o)
    <2>1. t = Dead \/ t = [step |-> "check", msg |-> m]
      BY <1>2, <1>3, <1>8, LoopsAre DEF Start
    <2>2. t.step = "check" => t.msg = m
      BY <2>1 DEF Dead
    <2>3. PICK a \in Args : \/ CallMsg(c, o, a) \in Range(inbox'[r]["call"])
                            \/ t.step = "check" /\ t.msg = CallMsg(c, o, a)
      BY <1>3, <1>8, CalledNext
    <2>4. CallMsg(c, o, a) \in Range(inbox[r]["call"])
      BY <1>2, <1>8, <2>2, <2>3
    <2> QED
      BY <2>4 DEF Called
  <1>9. ASSUME l = "call", NEW c, NEW o, Called(r, c, o), plain # TRUE PROVE Called(r, c, o)'
    <2>1. t = [step |-> "check", msg |-> m]
      BY <1>5, <1>9 DEF Started
    <2>2. t.step = "check" /\ t.msg = m
      BY <2>1
    <2>3. PICK a \in Args : CallMsg(c, o, a) \in Range(inbox[r]["call"])
      BY <1>1, <1>9 DEF Called
    <2>4. CallMsg(c, o, a) \in Range(inbox'[r]["call"]) \/ CallMsg(c, o, a) = m
      BY <1>2, <1>9, <2>3
    <2> QED
      BY <1>3, <1>9, <2>2, <2>4, CalledNext
  <1>10. \A c \in Clients : Kept(c)
    BY <1>1, <1>6, <1>7, <1>8, <1>9, KeptLoop
  <1> QED
    BY <1>1, <1>10, Steady, AllKept

\* Steps of the loop of lifecycle events, which only delete what was to be deleted.
LEMMA CallsLifecycle ==
    ASSUME Formed, \A c \in Clients : CallInv(c), NEW r \in Replicas,
           UNCHANGED <<life, up, inbox, client, asks, hooks, plain>>, disturbed \subseteq disturbed',
           \A q \in Replicas, k \in Loops : q # r \/ k # "lifecycle" => task'[q][k] = task[q][k],
           \A n, v : ToDelete(r, n, v)' => ToDelete(r, n, v)
    PROVE  \A c \in Clients : CallInv(c)'
  <1>1. "lifecycle" \in Loops /\ "lifecycle" \notin Variables
    BY LoopsAre
  <1>2. up' = up /\ plain' = plain /\ inbox' = inbox /\ client' = client
    OBVIOUS
  <1>3. \A q \in Replicas, k \in Loops : q # r \/ k # "lifecycle" =>
           inbox'[q][k] = inbox[q][k] /\ task'[q][k] = task[q][k]
    BY <1>2
  <1>4. \A c \in Clients : Kept(c)
    BY <1>1, <1>2, <1>3, KeptLoop
  <1> QED
    BY <1>2, <1>4, Steady, AllKept

\* CallInv is kept: a variable is deleted.
LEMMA CallsDeleteVariable ==
    ASSUME Formed, \A c \in Clients : CallInv(c), NEW r \in Replicas, DeleteVariable(r)
    PROVE  \A c \in Clients : CallInv(c)'
  <1>0. PICK t \in [step : {"delete"}, life : 1..life, left : SUBSET Scoped] :
              /\ t = task[r]["lifecycle"] /\ r \in up
              /\ UNCHANGED <<bounds, life, alive, up, asks, hooks, plain, inbox, client>>
              /\ \A q \in Replicas, k \in Loops : q # r \/ k # "lifecycle" => task'[q][k] = task[q][k]
              /\ \/ \E u \in t.left :
                       /\ bucket' = [bucket EXCEPT ![SessionVarKey(u)] = 0]
                       /\ disturbed' = IF UnderWay(t.life, u)
                                       THEN disturbed \cup {t.life} ELSE disturbed
                       /\ task'[r]["lifecycle"] =
                              IF t.left = {u} THEN Idle ELSE [t EXCEPT !.left = t.left \ {u}]
                 \/ /\ disturbed' = disturbed \cup {t.life} /\ UNCHANGED bucket
                    /\ task'[r]["lifecycle"] = Idle
    BY DeletionIs
  <1>1. /\ t = task[r]["lifecycle"]
        /\ UNCHANGED <<life, up, asks, hooks, plain, inbox, client>>
        /\ \A q \in Replicas, k \in Loops : q # r \/ k # "lifecycle" => task'[q][k] = task[q][k]
        /\ disturbed \subseteq disturbed'
        /\ \/ task'[r]["lifecycle"] = Idle
           \/ \E u : task'[r]["lifecycle"] = [t EXCEPT !.left = t.left \ {u}]
    BY <1>0
  <1>2. inbox' = inbox
    BY <1>1
  <1>3. \/ task'[r]["lifecycle"].step = "idle"
        \/ /\ t.step = "delete" /\ task'[r]["lifecycle"].life = t.life
           /\ task'[r]["lifecycle"].left \subseteq t.left
    <2>1. ASSUME NEW u, NEW s, s = [t EXCEPT !.left = t.left \ {u}]
          PROVE  t.step = "delete" /\ s.life = t.life /\ s.left \subseteq t.left
      BY <2>1
    <2> QED
      BY <1>1, <2>1, IdleFits
  <1>4. \A n, v : ToDelete(r, n, v)' => ToDelete(r, n, v)
    BY <1>1, <1>2, <1>3, ToDeleteNext DEF ToDelete
  <1> QED
    BY <1>1, <1>4, CallsLifecycle

\* CallInv is kept: the handler of "created".
LEMMA CallsCreated ==
    ASSUME Formed, \A c \in Clients : CallInv(c), NEW r \in Replicas, Created(r)
    PROVE  \A c \in Clients : CallInv(c)'
  <1>1. /\ UNCHANGED <<life, up, inbox, client, asks, hooks, plain, disturbed>>
        /\ SetTask(r, "lifecycle", Idle)
    BY DEF Created, At
  <1>2. /\ task'[r]["lifecycle"] = Idle
        /\ \A q \in Replicas, k \in Loops : q # r \/ k # "lifecycle" => task'[q][k] = task[q][k]
    BY <1>1, IdleFits, LoopsAre, OthersStay
  <1>3. inbox' = inbox /\ disturbed' = disturbed
    BY <1>1
  <1>4. \A n, v : ToDelete(r, n, v)' => ToDelete(r, n, v)
    BY <1>2, <1>3, IdleFits, ToDeleteNext DEF ToDelete
  <1> QED
    BY <1>1, <1>2, <1>3, <1>4, CallsLifecycle

\* What is above a number.
LEMMA Above == \A a \in Nat, b \in Nat : ~(b <= a) => a <= a /\ a <= b
  OBVIOUS

\* Steps of the loop of a variable, which go on with the message they are at, and with a
\* value that is of the present life unless it was there before.
LEMMA KeptVariable ==
    ASSUME Formed, NEW c \in Clients, NEW r \in Replicas, NEW v \in Variables,
           UNCHANGED <<up, inbox, plain, disturbed>>,
           \A q \in Replicas, k \in Loops : q # r \/ k # v => task'[q][k] = task[q][k],
           task[r][v].step \in {"resolve", "store", "reply"},
           task'[r][v].step \in {"resolve", "store", "reply"} => task'[r][v].msg = task[r][v].msg,
           task'[r][v].step \in {"store", "reply"} =>
               \/ task[r][v].step \in {"store", "reply"} /\ task'[r][v].value = task[r][v].value
               \/ task'[r][v].value \in Nat /\ life <= task'[r][v].value
    PROVE  Kept(c)
  <1>1. v \in Loops /\ v # "lifecycle" /\ v # "call"
    BY LoopsAre
  <1>2. up' = up /\ plain' = plain /\ inbox' = inbox /\ disturbed' = disturbed
    OBVIOUS
  <1>3. \A q \in Replicas, k \in Loops : q # r \/ k # v =>
           inbox'[q][k] = inbox[q][k] /\ task'[q][k] = task[q][k]
    BY <1>2
  <1>4. \A o : Asked(r, v, c, o)' => Asked(r, v, c, o)
    BY <1>2, AskedNext DEF Asked
  <1>5. task'[r][v].step \in {"store", "reply"} =>
           \/ /\ task[r][v].step \in {"store", "reply"} /\ task'[r][v].msg = task[r][v].msg
              /\ task'[r][v].value = task[r][v].value
           \/ task'[r][v].value \in Nat /\ life <= task'[r][v].value
    OBVIOUS
  <1> QED
    BY <1>1, <1>2, <1>3, <1>4, <1>5, KeptLoop

\* CallInv is kept: a resolver computes a value of the present life.
LEMMA CallsResolve ==
    ASSUME Formed, \A c \in Clients : CallInv(c), NEW r \in Replicas, NEW v \in Variables,
           Resolve(r, v)
    PROVE  \A c \in Clients : CallInv(c)'
  <1>1. /\ task[r][v].step = "resolve" /\ client' = client
        /\ UNCHANGED <<life, asks, hooks, up, inbox, plain, disturbed>>
    BY DEF Resolve, At
  <1>2. PICK m, w : m = task[r][v].msg /\ w = IF v \in Scoped THEN life ELSE GlobalValue
    OBVIOUS
  <1>3. w \in Nat /\ life <= w
    <2>1. life \in Nat /\ GlobalValue \in Nat /\ life <= life /\ life <= GlobalValue
      BY NumbersAre, GlobalIs, Above DEF Formed, GlobalValue
    <2> QED
      BY <1>2, <2>1
  <1>4. PICK u : u = [step |-> "store", msg |-> m, value |-> w]
    OBVIOUS
  <1>5. u.step = "store" /\ u.msg = m /\ u.value = w
    BY <1>4
  <1>6. SetTask(r, v, Idle) \/ SetTask(r, v, u)
    BY <1>2, <1>4 DEF Resolve
  <1>7. /\ \A q \in Replicas, k \in Loops : q # r \/ k # v => task'[q][k] = task[q][k]
        /\ task'[r][v] = Idle \/ task'[r][v] = u
    <2>1. v \in Loops /\ task \in [Replicas -> [Loops -> Tasks]]
      BY LoopsAre DEF Formed, Typed
    <2> QED
      BY <1>6, <2>1 DEF SetTask
  <1>8. task'[r][v].step \in {"resolve", "store", "reply"} =>
           task'[r][v].msg = task[r][v].msg /\ task'[r][v].value \in Nat /\ life <= task'[r][v].value
    BY <1>2, <1>3, <1>5, <1>7, IdleFits
  <1>9. \A c \in Clients : Kept(c)
    BY <1>1, <1>7, <1>8, KeptVariable
  <1> QED
    BY <1>1, <1>9, Steady, AllKept

\* CallInv is kept: a resolver stores what it has computed.
LEMMA CallsStore ==
    ASSUME Formed, \A c \in Clients : CallInv(c), NEW r \in Replicas, NEW v \in Variables,
           Store(r, v)
    PROVE  \A c \in Clients : CallInv(c)'
  <1>1. PICK t : t = task[r][v]
    OBVIOUS
  <1>2. /\ t.step = "store" /\ client' = client /\ SetTask(r, v, [t EXCEPT !.step = "reply"])
        /\ UNCHANGED <<life, asks, hooks, up, inbox, plain, disturbed>>
    BY <1>1 DEF Store, At
  <1>3. v \in Loops
    BY LoopsAre
  <1>4. t \in [step : {"store", "reply"}, msg : Messages, value : Nat]
    BY <1>1, <1>2, <1>3, TaskIs, TaskForms
  <1>5. PICK u : u = [t EXCEPT !.step = "reply"]
    OBVIOUS
  <1>6. u.msg = t.msg /\ u.value = t.value
    BY <1>4, <1>5
  <1>7. /\ task'[r][v] = u
        /\ \A q \in Replicas, k \in Loops : q # r \/ k # v => task'[q][k] = task[q][k]
    BY <1>2, <1>3, <1>5 DEF SetTask, Formed, Typed
  <1>8. task[r][v].step \in {"store", "reply"} /\ task'[r][v].msg = task[r][v].msg
        /\ task'[r][v].value = task[r][v].value
    BY <1>1, <1>2, <1>6, <1>7
  <1>9. \A c \in Clients : Kept(c)
    BY <1>2, <1>7, <1>8, KeptVariable
  <1> QED
    BY <1>2, <1>9, Steady, AllKept

\* The answer was computed in a life that is not before the call's own.
LEMMA CallsAnswer ==
    ASSUME OneSecret, Formed, \A c \in Clients : CallInv(c),
           NEW r \in Replicas, NEW v \in Variables, Answer(r, v)
    PROVE  \A c \in Clients : CallInv(c)'
  <1>1. /\ UNCHANGED <<life, asks, hooks, up, inbox, plain, disturbed>> /\ SetTask(r, v, Idle)
    BY DEF Answer, At
  <1>2. PICK d \in Clients, o \in 1..asks + hooks :
           /\ task[r][v].step = "reply" /\ task[r][v].msg = AskMsg(v, d, o)
           /\ task[r][v].value \in Nat
           /\ \/ UNCHANGED client
              \/ /\ client[d].step = "wait" /\ client[d].op = o
                 /\ Resolved(d, task[r][v].value)
    BY AnswerIs
  <1>3. /\ task'[r][v] = Idle
        /\ \A q \in Replicas, k \in Loops : q # r \/ k # v => task'[q][k] = task[q][k]
    BY <1>1, IdleFits, LoopsAre, OthersStay
  <1>4. task'[r][v].step = "idle"
    BY <1>3, IdleFits
  <1>5. \A c \in Clients : Kept(c)
    BY <1>1, <1>2, <1>3, <1>4, KeptVariable
  <1>6. CASE UNCHANGED client
    BY <1>1, <1>5, <1>6, Steady, AllKept
  <1>7. CASE /\ client[d].step = "wait" /\ client[d].op = o
             /\ Resolved(d, task[r][v].value)
    <2>1. PICK n \in Nat : n = task[r][v].value
      BY <1>2
    <2>2. n >= client[d].born
      BY <1>2, <1>7, <2>1 DEF CallInv
    <2>3. n \notin 1..client[d].born - 1
      BY <1>7, <2>1, <2>2, BornIs DEF Open
    <2>4. CallInv(d)'
      BY <1>1, <1>7, <2>1, <2>3, ResolvedInv DEF Open
    <2>5. \A c \in Clients : c # d => client'[c] = client[c]
      BY <1>7 DEF Resolved, SetClient, Formed, Typed
    <2> QED
      BY <1>1, <1>5, <2>4, <2>5, Steady, OthersKept
  <1> QED
    BY <1>2, <1>6, <1>7

\* The reply of the hook ends the call it belongs to; the other calls stay where they are.
LEMMA CallsCall ==
    ASSUME OneSecret, Formed, \A c \in Clients : CallInv(c), NEW r \in Replicas, Call(r)
    PROVE  \A c \in Clients : CallInv(c)'
  <1>1. /\ UNCHANGED <<life, asks, hooks, up, inbox, plain, disturbed>> /\ SetTask(r, "call", Idle)
    BY DEF Call, At
  <1>2. PICK d \in Clients, o \in 1..asks + hooks, a \in Args :
           /\ task[r]["call"].step = "check" /\ task[r]["call"].msg = CallMsg(d, o, a)
           /\ \/ UNCHANGED client /\ ~(client[d].step = "called" /\ client[d].op = o)
              \/ /\ client[d].step = "called" /\ client[d].op = o
                 /\ \E k \in Ended(client[d]) : SetClient(d, k)
    BY CallIs
  <1>3. "call" \in Loops /\ "call" \notin Variables /\ "call" # "lifecycle"
    BY LoopsAre
  <1>4. /\ task'[r]["call"] = Idle
        /\ \A q \in Replicas, k \in Loops : q # r \/ k # "call" =>
              inbox'[q][k] = inbox[q][k] /\ task'[q][k] = task[q][k]
    BY <1>1, <1>3, IdleFits, OthersStay
  <1>5. task'[r]["call"].step = "idle" /\ inbox' = inbox /\ up' = up /\ plain' = plain
        /\ disturbed' = disturbed
    BY <1>1, <1>4, IdleFits
  <1>6. \A p \in 1..asks + hooks : p \in Nat
    BY NumbersAre DEF Formed
  <1>7. ASSUME NEW c \in Clients, ~(client[c].step = "called" /\ c = d /\ client[c].op = o)
        PROVE  Kept(c)
    <2>1. \A p : Called(r, c, p)' => Called(r, c, p)
      BY <1>5, CalledNext DEF Called
    <2>2. ASSUME client[c].step = "called", NEW p, p = client[c].op, Called(r, c, p)
          PROVE  Called(r, c, p)'
      <3>1. p \in 1..asks + hooks
        BY <2>2 DEF CallInv
      <3>2. \A b \in Args : CallMsg(c, p, b) # CallMsg(d, o, a)
        BY <1>6, <1>7, <2>2, <3>1, RequestsDiffer
      <3>3. PICK b \in Args : CallMsg(c, p, b) \in Range(inbox[r]["call"])
        BY <1>2, <2>2, <3>2 DEF Called
      <3> QED
        BY <1>5, <3>3, CalledNext
    <2> QED
      BY <1>3, <1>4, <1>5, <2>1, <2>2, KeptLoop
  <1>8. CASE UNCHANGED client /\ ~(client[d].step = "called" /\ client[d].op = o)
    <2>1. \A c \in Clients : Kept(c)
      BY <1>7, <1>8
    <2> QED
      BY <1>1, <1>8, <2>1, Steady, AllKept
  <1>9. ASSUME NEW k \in Ended(client[d]), SetClient(d, k)
        PROVE  \A c \in Clients : CallInv(c)'
    <2>2. k.step \in {"answered", "forsaken"}
      BY EndedIs
    <2>3. client'[d] = k /\ \A c \in Clients : c # d => client'[c] = client[c]
      BY <1>9 DEF SetClient, Formed, Typed
    <2>4. CallInv(d)'
      BY <2>2, <2>3, RestInv
    <2>5. \A c \in Clients : c # d => Kept(c)
      BY <1>7
    <2> QED
      BY <1>1, <2>3, <2>4, <2>5, Steady, OthersKept
  <1> QED
    BY <1>2, <1>8, <1>9

\* CallInv is kept: the event of a hook.
LEMMA CallsEvent ==
    ASSUME Formed, \A c \in Clients : CallInv(c), NEW r \in Replicas, Event(r)
    PROVE  \A c \in Clients : CallInv(c)'
  <1>1. /\ UNCHANGED <<life, asks, hooks, up, inbox, client, plain, disturbed>>
        /\ SetTask(r, "event", Idle)
    BY DEF Event, At
  <1>2. "event" \in Loops /\ "event" \notin Variables
    BY LoopsAre
  <1>3. \A q \in Replicas, k \in Loops : q # r \/ k # "event" =>
           inbox'[q][k] = inbox[q][k] /\ task'[q][k] = task[q][k]
    BY <1>1, <1>2, IdleFits, OthersStay
  <1>4. \A c \in Clients : Kept(c)
    BY <1>1, <1>2, <1>3, KeptLoop
  <1> QED
    BY <1>1, <1>4, Steady, AllKept

\* A crash loses what a replica has; it asks and calls nothing.
LEMMA CallsCrash ==
    ASSUME Formed, \A c \in Clients : CallInv(c), NEW r \in Replicas, Crash(r)
    PROVE  \A c \in Clients : CallInv(c)'
  <1>1. /\ \A l \in Loops : inbox'[r][l] = <<>> /\ task'[r][l] = Idle
        /\ \A q \in Replicas, l \in Loops :
              q # r => inbox'[q][l] = inbox[q][l] /\ task'[q][l] = task[q][l]
        /\ up' = up \ {r}
        /\ UNCHANGED <<life, client, asks, hooks, plain>>
    BY CrashIs DEF Formed
  <1>2. disturbed \subseteq disturbed' /\ up' # Replicas /\ plain' = plain /\ client' = client
    BY <1>1 DEF Crash
  <1>3. up \subseteq Replicas /\ {"lifecycle", "call"} \subseteq Loops
    BY LoopsAre DEF Formed, Typed
  <1>4. \A l \in Loops : Range(inbox'[r][l]) = {} /\ task'[r][l].step = "idle"
    BY <1>1, EmptyRange, IdleFits
  <1>5. ASSUME NEW q \in Replicas, NEW c, NEW o, Called(q, c, o)' PROVE Called(q, c, o)
    <2>1. CASE q = r
      <3>1. Range(inbox'[q]["call"]) = {} /\ task'[q]["call"].step = "idle"
        BY <1>3, <1>4, <2>1
      <3> QED
        BY <1>5, <3>1, CalledNext
    <2>2. CASE q # r
      <3>1. inbox'[q]["call"] = inbox[q]["call"] /\ task'[q]["call"] = task[q]["call"]
        BY <1>1, <1>3, <2>2
      <3> QED
        BY <1>5, <3>1, CalledNext DEF Called
    <2> QED
      BY <2>1, <2>2
  <1>6. ASSUME NEW q \in Replicas, NEW v \in Variables
        PROVE  /\ task'[q][v] = task[q][v] \/ task'[q][v].step = "idle"
               /\ \A c, o : Asked(q, v, c, o)' => Asked(q, v, c, o)
    <2>1. v \in Loops
      BY LoopsAre
    <2>2. CASE q = r
      <3>1. Range(inbox'[q][v]) = {} /\ task'[q][v].step = "idle"
        BY <1>4, <2>1, <2>2
      <3> QED
        BY <3>1, AskedNext
    <2>3. CASE q # r
      <3>1. inbox'[q][v] = inbox[q][v] /\ task'[q][v] = task[q][v]
        BY <1>1, <2>1, <2>3
      <3> QED
        BY <3>1, AskedNext DEF Asked
    <2> QED
      BY <2>2, <2>3
  <1>7. ASSUME NEW q \in up', NEW n, NEW v, ToDelete(q, n, v)' PROVE q \in up /\ ToDelete(q, n, v)
    <2>1. q \in up /\ q # r
      BY <1>1
    <2>2. /\ inbox'[q]["lifecycle"] = inbox[q]["lifecycle"]
          /\ task'[q]["lifecycle"] = task[q]["lifecycle"]
      BY <1>1, <1>3, <2>1
    <2> QED
      BY <1>7, <2>1, <2>2, ToDeleteNext DEF ToDelete
  <1>8. ASSUME NEW c \in Clients PROVE Kept(c)
    BY <1>2, <1>5, <1>6, <1>7 DEF Kept
  <1> QED
    BY <1>1, <1>2, <1>8, Steady, AllKept

\* CallInv is kept by every step.
LEMMA CallsStep ==
    ASSUME OneSecret, Formed, Swept, \A c \in Clients : CallInv(c), [Next]_vars
    PROVE  \A c \in Clients : CallInv(c)'
  <1>1. CASE Create
    BY <1>1, CallsCreate
  <1>2. CASE Delete
    BY <1>2, CallsDelete
  <1>3. ASSUME NEW c \in Clients, Resolution(c) PROVE \A d \in Clients : CallInv(d)'
    <2>1. CASE Lookup(c, "session", SessionVarKey(client[c].var), "global")
      BY <2>1, CallsLookupSession
    <2>2. CASE Lookup(c, "global", VarKey(client[c].var), "ask")
      BY <2>2, CallsLookupGlobal
    <2>3. CASE TimeOut(c)
      <3>1. /\ client[c].step \in Open /\ Resolved(c, 0)
            /\ UNCHANGED <<life, up, inbox, task, disturbed, asks, hooks, plain>>
        BY <2>3 DEF TimeOut, Busy, Open
      <3> QED
        BY <3>1, CallsNothing
    <2> QED
      BY <1>3, <2>1, <2>2, <2>3, CallsAsk DEF Resolution
  <1>4. ASSUME NEW c \in Clients,
               \/ \E v \in Variables : ResolveVariable(c, v)
               \/ \E args \in Args : CallHook(c, args)
               \/ Return(c)
        PROVE  \A d \in Clients : CallInv(d)'
    BY <1>4, CallsResolveVariable, CallsCallHook, CallsReturn
  <1>5. ASSUME NEW args \in Args, PublishEventHook(args) PROVE \A c \in Clients : CallInv(c)'
    <2>1. PICK m : m = EventMsg(args)
      OBVIOUS
    <2>2. /\ UNCHANGED <<life, up, task, client, disturbed, asks, plain>> /\ hooks' = hooks + 1
          /\ UNCHANGED inbox \/ Deliver("event", m)
      BY <1>5, <2>1 DEF PublishEventHook, UseHook, EventMsg
    <2>3. m \in Messages
      BY <2>1 DEF Messages
    <2>4. "event" \in {"call", "event"} /\ "event" # "call" /\ plain' = plain
      BY <2>2
    <2> QED
      BY <2>2, <2>3, <2>4, CallsPublish
  <1>6. ASSUME NEW l \in {"call", "event"}, Plain(l) PROVE \A c \in Clients : CallInv(c)'
    <2>1. PICK args \in Args : Deliver(l, PlainMsg(l, args))
      BY <1>6 DEF Plain, PlainMsg
    <2>2. PICK m : m = PlainMsg(l, args)
      OBVIOUS
    <2>3. m \in Messages
      <3>1. <<l, args>> \in {"call", "event"} \X Args
        OBVIOUS
      <3> QED
        BY <2>2, <3>1 DEF Messages
    <2>4. UNCHANGED <<life, up, task, client, disturbed, asks>> /\ hooks' = hooks + 1 /\ plain' = TRUE
      BY <1>6 DEF Plain
    <2>5. l = "call" => \E a \in Args : m = PlainMsg("call", a)
      BY <2>2
    <2> QED
      BY <2>1, <2>2, <2>3, <2>4, <2>5, CallsPublish
  <1>7. ASSUME NEW r \in Replicas, Crash(r) PROVE \A c \in Clients : CallInv(c)'
    BY <1>7, CallsCrash
  <1>8. ASSUME NEW r \in Replicas, NEW l \in Loops, Loop(r, l) PROVE \A c \in Clients : CallInv(c)'
    <2>1. CASE Take(r, l)
      BY <2>1, CallsTake
    <2>2. CASE DeleteVariable(r) \/ Created(r)
      BY <2>2, CallsDeleteVariable, CallsCreated
    <2>3. CASE l \in Variables /\ (Resolve(r, l) \/ Store(r, l) \/ Answer(r, l))
      BY <2>3, CallsResolve, CallsStore, CallsAnswer
    <2>4. CASE Call(r) \/ Event(r)
      BY <2>4, CallsCall, CallsEvent
    <2> QED
      BY <1>8, <2>1, <2>2, <2>3, <2>4 DEF Loop
  <1>9. CASE UNCHANGED vars
    <2>1. UNCHANGED <<life, up, inbox, task, client, disturbed, asks, hooks>> /\ plain' = plain
      BY <1>9 DEF vars
    <2>2. \A c \in Clients : Kept(c)
      BY <2>1, KeptQuiet
    <2> QED
      BY <2>1, <2>2, Steady, AllKept
  <1> QED
    BY <1>1, <1>2, <1>3, <1>4, <1>5, <1>6, <1>7, <1>8, <1>9 DEF Next

\* CallInv holds at first.
LEMMA CallsInit == Init => \A c \in Clients : CallInv(c)
  <1> SUFFICES ASSUME Init, NEW c \in Clients PROVE CallInv(c)
    OBVIOUS
  <1>1. client[c].step = "idle"
    BY IdleFits DEF Init
  <1> QED
    BY <1>1 DEF CallInv

-----------------------------------------------------------------------------
(* The theorems.                                                           *)

\* The inductive invariant: types and places, the lives that are over, and the calls.  None
\* of them is inductive alone: what a call finds in the bucket is excused by the second,
\* and that a reply ends only the call it belongs to, which the other two rest on, is of
\* the third.
SessionsInv == Formed /\ Swept /\ \A c \in Clients : CallInv(c)

\* The three are inductive together.
LEMMA SessionsAlways == ASSUME OneSecret PROVE Spec => []SessionsInv
  <1>1. Init => SessionsInv
    BY FormedInit, SweptInit, CallsInit DEF SessionsInv
  <1>2. SessionsInv /\ [Next]_vars => SessionsInv'
    <2> SUFFICES ASSUME SessionsInv, [Next]_vars PROVE SessionsInv'
      OBVIOUS
    <2>1. Formed /\ Swept /\ \A c \in Clients : CallInv(c)
      BY DEF SessionsInv
    <2>2. Formed' /\ Swept' /\ \A c \in Clients : CallInv(c)'
      BY <2>1, FormedStep, SweptStep, CallsStep
    <2> QED
      BY <2>2 DEF SessionsInv
  <1> QED
    BY <1>1, <1>2, PTL DEF Spec

\* What a session stored outlives it only as long as its deletion is to come, or where
\* something disturbed that: whatever order the replicas' loops, the agent, crashes and
\* failed requests take.
THEOREM CleanedUpHolds == ASSUME OneSecret PROVE Spec => []CleanedUp
  <1>1. SessionsInv => CleanedUp
    <2> SUFFICES ASSUME SessionsInv, NEW v \in Variables, NEW n, n = bucket[SessionVarKey(v)],
                        n \in Lives, n = life => ~alive
                 PROVE  Pending(n, v) \/ n \in disturbed
      BY DEF CleanedUp
    <2>1. Formed /\ Swept
      BY DEF SessionsInv
    <2>2. n \in 1..life
      <3>1. n \in 0..life /\ n # 0 /\ life \in Nat
        BY <2>1, NumbersAre DEF Formed, Valued, Lives
      <3> QED
        BY <3>1
    <2>3. v \in Scoped
      <3>1. n # 0
        BY DEF Lives
      <3> QED
        BY <2>1, <3>1 DEF Formed, Valued
    <2>4. n \in disturbed \/ (\E r \in up : ToDelete(r, n, v)) \/ Clean(n, v)
      BY <2>1, <2>2, <2>3 DEF Swept
    <2> QED
      BY <2>1, <2>2, <2>4, PendingIs DEF Clean
  <1> QED
    BY <1>1, SessionsAlways, PTL

\* A call that began in one life of a session does not get a value of an earlier life,
\* unless that life's deletion was still to come when the call began, or was disturbed.
THEOREM NoInheritanceHolds == ASSUME OneSecret PROVE Spec => []NoInheritance
  <1>1. SessionsInv => NoInheritance
    BY DEF SessionsInv, CallInv, NoInheritance
  <1> QED
    BY <1>1, SessionsAlways, PTL

\* A call of a hook, which has no time-out, is in the queue or in the hands of a replica as
\* long as it waits, unless a replica died, or a loop was ended by a message of a bus without
\* identity, or the answer could not be sent.
THEOREM CallsAreHeldHolds == ASSUME OneSecret PROVE Spec => []CallsAreHeld
  <1>1. SessionsInv => CallsAreHeld
    <2> SUFFICES ASSUME SessionsInv, NEW c \in Clients, client[c].step = "called",
                        up = Replicas, plain # TRUE
                 PROVE  \E m \in Queued("call") \cup
                                 {t.msg : t \in {u \in Running("call") : u.step = "check"}} :
                            m.data.payload.client = c /\ m.data.payload.op = client[c].op
      BY DEF CallsAreHeld, SessionsInv, Formed, Typed
    <2>1. PICK o : o = client[c].op
      OBVIOUS
    <2>2. o \in Nat
      <3>1. o \in 1..asks + hooks
        BY <2>1 DEF SessionsInv, CallInv
      <3> QED
        BY <3>1
    <2>3. PICK r \in Replicas : Called(r, c, o)
      BY <2>1 DEF SessionsInv, CallInv, Formed, Typed
    <2>4. PICK a \in Args : \/ CallMsg(c, o, a) \in Range(inbox[r]["call"])
                            \/ /\ task[r]["call"].step = "check"
                               /\ task[r]["call"].msg = CallMsg(c, o, a)
      BY <2>3 DEF Called
    <2>5. PICK m : m = CallMsg(c, o, a)
      OBVIOUS
    <2>6. m.data.payload.client = c /\ m.data.payload.op = o
      BY <2>2, <2>5, CallMsgIs
    <2>7. CASE m \in Range(inbox[r]["call"])
      <3>1. m \in Queued("call")
        BY <2>7 DEF Queued
      <3> QED
        BY <2>1, <2>6, <3>1
    <2>8. CASE task[r]["call"].step = "check" /\ task[r]["call"].msg = m
      <3>1. PICK u : u = task[r]["call"]
        OBVIOUS
      <3>2. u \in Running("call") /\ u.step = "check" /\ u.msg = m
        BY <2>8, <3>1 DEF Running
      <3> QED
        BY <2>1, <2>6, <3>2
    <2> QED
      BY <2>4, <2>5, <2>7, <2>8
  <1> QED
    BY <1>1, SessionsAlways, PTL

-----------------------------------------------------------------------------
(* What the handlers of hooks see.                                         *)

\* The channels of the two hooks are two.
LEMMA ChannelsDiffer == Channel("call") # Channel("event")
  <1>1. PICK T : T = {"hook", "call", "event", ExtId}
    OBVIOUS
  <1>2. PICK s, t : s = <<"hook", "call", ExtId, "hook">> /\ t = <<"hook", "event", "hook">>
    OBVIOUS
  <1>3. s \in Seq(T) /\ t \in Seq(T) /\ Len(s) = 4 /\ Len(t) = 3
    BY <1>1, <1>2
  <1>4. s # <<>> /\ t # <<>>
    <2>1. Len(<<>>) = 0 /\ Len(s) # 0 /\ Len(t) # 0
      BY <1>3
    <2> QED
      BY <2>1, Zenon
  <1>5. PICK ch, d : ch = TenantPrefix(Tenant) \o s /\ d = TenantPrefix(Tenant) \o t
    OBVIOUS
  <1>6. Len(ch) = 2 + Len(s) /\ Len(d) = 2 + Len(t)
    BY <1>3, <1>4, <1>5, UnderTenant
  <1>7. ch # d
    <2>1. Len(ch) # Len(d)
      <3>1. Len(s) = 4 /\ Len(t) = 3 => 2 + Len(s) # 2 + Len(t)
        OBVIOUS
      <3> QED
        BY <1>3, <1>6, <3>1
    <2> QED
      BY <2>1, Zenon
  <1> QED
    BY <1>2, <1>5, <1>7 DEF Channel, ChHookCall, ChHookEvent

\* What a message has that a handler may get.
Signed(m, ch, a) == m.header # NoHeader /\ m.data.ch = ch /\ m.data.payload.args = a

\* The agent signs what it uses hooks with.
LEMMA HookMsgsAre ==
    ASSUME OneSecret, NEW a \in Args
    PROVE  /\ Signed(EventMsg(a), Channel("event"), a)
           /\ \A c \in Clients, o \in Nat : Signed(CallMsg(c, o, a), Channel("call"), a)
  <1>0. /\ Agent \in Replicas \cup {Agent}
        /\ Domestic(Channel("event")) /\ Domestic(Channel("call"))
    BY ChannelsUnderTenant DEF Domestic
  <1>1. Signed(EventMsg(a), Channel("event"), a)
    <2>1. PICK p : p = [args |-> a]
      OBVIOUS
    <2>2. p \in [args : Args]
      BY <2>1
    <2>3. p # NilPayload /\ p.args = a
      BY <2>1, <2>2, ConstantsAssumption
    <2>4. EventMsg(a) = Sent(Identity[Agent], "pub", Channel("event"), p, Tenant, "")
      BY <2>1 DEF EventMsg
    <2>5. Carries(EventMsg(a), Channel("event"), p)
      BY <1>0, <2>3, <2>4, SentIsReceived
    <2> QED
      BY <2>3, <2>5 DEF Carries, Signed
  <1>2. ASSUME NEW c \in Clients, NEW o \in Nat
        PROVE  Signed(CallMsg(c, o, a), Channel("call"), a)
    <2>1. PICK p : p = [client |-> c, op |-> o, args |-> a]
      OBVIOUS
    <2>2. p \in [client : Clients, op : Nat, args : Args]
      BY <2>1
    <2>3. p # NilPayload /\ p.args = a
      BY <2>1, <2>2, ConstantsAssumption
    <2>4. CallMsg(c, o, a) = Sent(Identity[Agent], "req", Channel("call"), p, Tenant, "")
      BY <2>1 DEF CallMsg
    <2>5. Carries(CallMsg(c, o, a), Channel("call"), p)
      BY <1>0, <2>3, <2>4, SentIsReceived
    <2> QED
      BY <2>3, <2>5 DEF Carries, Signed
  <1> QED
    BY <1>1, <1>2

\* The queue of the event hook has events of the agent and of the bus without identity; what
\* its loop has taken is the agent's, and what a handler was called for was validated.
FromHook(m) == \E a \in Args : m = EventMsg(a) \/ m = PlainMsg("event", a)
Checked(t) == t.step = "check" => \E a \in Args : t.msg = EventMsg(a)
Validated(m) ==
    \E a \in Args :
        \/ Signed(m, Channel("event"), a) /\ validateHookSchema(EventSchema, a)
        \/ Signed(m, Channel("call"), a) /\ validateHookSchema(CallSchema, a)
Handling ==
    /\ \A r \in Replicas :
          /\ \A m \in Range(inbox[r]["event"]) : FromHook(m)
          /\ Checked(task[r]["event"])
    /\ \A m \in handled : Validated(m)

\* The three, after a step: they say nothing of the state.
LEMMA HandlingNext ==
    Handling' <=>
        /\ \A r \in Replicas :
              /\ \A m \in Range(inbox'[r]["event"]) : FromHook(m)
              /\ Checked(task'[r]["event"])
        /\ \A m \in handled' : Validated(m)
  BY DEF Handling, FromHook, Checked, Validated, EventMsg, PlainMsg, Signed, validateHookSchema

\* A step that leaves the loops of the event hook alone, and calls no handler.
LEMMA HandlingStill ==
    ASSUME Handling, handled' = handled,
           \A r \in Replicas : /\ inbox'[r]["event"] = inbox[r]["event"]
                               /\ task'[r]["event"] = task[r]["event"]
    PROVE  Handling'
  BY HandlingNext DEF Handling

\* A message is sent to another loop, or to nobody.
LEMMA HandlingSending ==
    ASSUME Formed, Handling, NEW l, NEW m, Deliver(l, m) \/ UNCHANGED inbox, l # "event",
           task' = task, handled' = handled
    PROVE  Handling'
  <1>1. inbox \in [Replicas -> [Loops -> Seq(Messages)]] /\ "event" \in Loops
    BY LoopsAre DEF Formed, Typed
  <1>2. \A r \in Replicas : inbox'[r]["event"] = inbox[r]["event"]
    <2>1. CASE inbox' = inbox
      BY <2>1
    <2>2. CASE Deliver(l, m)
      <3>1. PICK q \in up : inbox' = [inbox EXCEPT ![q][l] = Append(@, m)]
        BY <2>2 DEF Deliver
      <3> QED
        BY <1>1, <3>1
    <2> QED
      BY <2>1, <2>2
  <1> QED
    BY <1>2, HandlingStill

\* A message is sent to the loop of the event hook, or to nobody.
LEMMA HandlingPosting ==
    ASSUME Formed, Handling, NEW m \in Messages, FromHook(m),
           Deliver("event", m) \/ UNCHANGED inbox, task' = task, handled' = handled
    PROVE  Handling'
  <1>1. ASSUME NEW r \in Replicas, NEW x \in Range(inbox'[r]["event"]) PROVE FromHook(x)
    <2>0. \A y \in Range(inbox[r]["event"]) : FromHook(y)
      BY DEF Handling
    <2>1. CASE inbox' = inbox
      BY <1>1, <2>0, <2>1
    <2>2. CASE Deliver("event", m)
      <3>1. PICK q \in up : inbox' = [inbox EXCEPT ![q]["event"] = Append(@, m)]
        BY <2>2 DEF Deliver
      <3>2. /\ q \in Replicas /\ inbox \in [Replicas -> [Loops -> Seq(Messages)]]
            /\ "event" \in Loops
        BY <3>1, LoopsAre DEF Formed, Typed
      <3>3. /\ Range(inbox'[q]["event"]) = Range(inbox[q]["event"]) \cup {m}
            /\ r # q => inbox'[r]["event"] = inbox[r]["event"]
        BY <3>1, <3>2, Queueing
      <3> QED
        BY <1>1, <2>0, <3>3
    <2> QED
      BY <2>1, <2>2
  <1>2. \A r \in Replicas : Checked(task[r]["event"])
    BY DEF Handling
  <1>3. \A x \in handled : Validated(x)
    BY DEF Handling
  <1> QED
    BY <1>1, <1>2, <1>3, HandlingNext

\* A step of another loop, which may call the handler with what was validated.
LEMMA HandlingElsewhere ==
    ASSUME Formed, Handling, NEW r, NEW l, l # "event", NEW t, SetTask(r, l, t),
           inbox' = inbox, \A m \in handled' : m \in handled \/ Validated(m)
    PROVE  Handling'
  <1>1. "event" \in Loops /\ task \in [Replicas -> [Loops -> Tasks]]
    BY LoopsAre DEF Formed, Typed
  <1>2. \A q \in Replicas : task'[q]["event"] = task[q]["event"]
    BY <1>1 DEF SetTask
  <1>3. \A q \in Replicas : /\ \A x \in Range(inbox[q]["event"]) : FromHook(x)
                            /\ Checked(task[q]["event"])
    BY DEF Handling
  <1>4. \A m \in handled' : Validated(m)
    BY DEF Handling
  <1> QED
    BY <1>2, <1>3, <1>4, HandlingNext

\* Handling is kept: a loop takes a message; that of the event hook drops out on the message
\* of the bus without identity.
LEMMA HandlingTake ==
    ASSUME OneSecret, Formed, Handling, NEW r \in Replicas, NEW l \in Loops, Take(r, l)
    PROVE  Handling'
  <1>1. /\ \A q \in Replicas, k \in Loops : q # r \/ k # l =>
               inbox'[q][k] = inbox[q][k] /\ task'[q][k] = task[q][k]
        /\ \E m \in Range(inbox[r][l]) :
              /\ Range(inbox[r][l]) = Range(inbox'[r][l]) \cup {m}
              /\ task'[r][l] = Start(r, l, m)
    BY TakeIs
  <1>2. "event" \in Loops /\ handled' = handled /\ "event" # "lifecycle" /\ "event" \notin Variables
    BY LoopsAre DEF Take
  <1>3. CASE l # "event"
    BY <1>1, <1>2, <1>3, HandlingStill
  <1>4. CASE l = "event"
    <2>1. PICK m \in Range(inbox[r]["event"]) :
              /\ Range(inbox[r]["event"]) = Range(inbox'[r]["event"]) \cup {m}
              /\ task'[r]["event"] = Start(r, "event", m)
      BY <1>1, <1>4
    <2>2. \A x \in Range(inbox[r]["event"]) : FromHook(x)
      BY DEF Handling
    <2>3. PICK a \in Args : m = EventMsg(a) \/ m = PlainMsg("event", a)
      BY <2>2 DEF FromHook
    <2>4. Checked(task'[r]["event"])
      <3>1. CASE Received(Identity[r], m) = NoEnvelope
        <4>1. task'[r]["event"] = Dead
          BY <2>1, <3>1 DEF Start
        <4> QED
          BY <4>1 DEF Checked, Dead
      <3>2. CASE Received(Identity[r], m) # NoEnvelope
        <4>1. m = EventMsg(a)
          BY <2>3, <3>2, PlainIsRefused
        <4>2. task'[r]["event"] = [step |-> "check", msg |-> m]
          BY <1>2, <2>1, <3>2 DEF Start
        <4>3. task'[r]["event"].msg = EventMsg(a)
          BY <4>1, <4>2
        <4> QED
          BY <4>3 DEF Checked
      <3> QED
        BY <3>1, <3>2
    <2>5. ASSUME NEW q \in Replicas, q # r
          PROVE  inbox'[q]["event"] = inbox[q]["event"] /\ task'[q]["event"] = task[q]["event"]
      BY <1>1, <1>2, <2>5
    <2>6. \A q \in Replicas : /\ \A x \in Range(inbox'[q]["event"]) : FromHook(x)
                              /\ Checked(task'[q]["event"])
      <3>1. \A q \in Replicas : /\ \A x \in Range(inbox[q]["event"]) : FromHook(x)
                                /\ Checked(task[q]["event"])
        BY DEF Handling
      <3>2. \A x \in Range(inbox'[r]["event"]) : FromHook(x)
        BY <2>1, <2>2
      <3> QED
        BY <2>4, <2>5, <3>1, <3>2
    <2>7. \A x \in handled' : Validated(x)
      BY <1>2 DEF Handling
    <2> QED
      BY <2>6, <2>7, HandlingNext
  <1> QED
    BY <1>3, <1>4

\* Handling is kept: the handler of the call hook gets what is validated, and the agent's.
LEMMA HandlingCall ==
    ASSUME OneSecret, Formed, \A c \in Clients : CallInv(c), Handling,
           NEW r \in Replicas, Call(r)
    PROVE  Handling'
  <1>1. PICK msg : msg = task[r]["call"].msg
    OBVIOUS
  <1>2. /\ SetTask(r, "call", Idle) /\ inbox' = inbox
        /\ \/ handled' = handled
           \/ /\ validateHookSchema(CallSchema, msg.data.payload.args)
              /\ handled' = handled \cup {msg}
    BY <1>1 DEF Call
  <1>3. PICK c \in Clients, o \in 1..asks + hooks, a \in Args : msg = CallMsg(c, o, a)
    BY <1>1, CallIs
  <1>4. o \in Nat
    BY <1>3
  <1>5. Signed(msg, Channel("call"), a) /\ msg.data.payload.args = a
    BY <1>3, <1>4, HookMsgsAre DEF Signed
  <1>6. \A m \in handled' : m \in handled \/ Validated(m)
    BY <1>2, <1>5 DEF Validated
  <1> QED
    BY <1>2, <1>6, HandlingElsewhere

\* Handling is kept: and so does that of the event hook.
LEMMA HandlingEvent ==
    ASSUME OneSecret, Formed, Handling, NEW r \in Replicas, Event(r)
    PROVE  Handling'
  <1>1. PICK t, msg : t = task[r]["event"] /\ msg = t.msg
    OBVIOUS
  <1>2. /\ t.step = "check" /\ SetTask(r, "event", Idle) /\ inbox' = inbox
        /\ \/ handled' = handled
           \/ /\ validateHookSchema(EventSchema, msg.data.payload.args)
              /\ handled' = handled \cup {msg}
    BY <1>1 DEF Event, At
  <1>3. PICK a \in Args : msg = EventMsg(a)
    BY <1>1, <1>2 DEF Handling, Checked
  <1>4. Signed(msg, Channel("event"), a) /\ msg.data.payload.args = a
    BY <1>3, HookMsgsAre DEF Signed
  <1>5. \A m \in handled' : Validated(m)
    <2>1. \A m \in handled : Validated(m)
      BY DEF Handling
    <2> QED
      BY <1>2, <1>4, <2>1 DEF Validated
  <1>6. \A q \in Replicas : Checked(task'[q]["event"])
    <2>1. "event" \in Loops /\ task \in [Replicas -> [Loops -> Tasks]] /\ Idle \in Tasks
      BY LoopsAre, IdleFits DEF Formed, Typed
    <2>2. /\ task'[r]["event"] = Idle
          /\ \A q \in Replicas : q # r => task'[q]["event"] = task[q]["event"]
      BY <1>2, <2>1, Tasking
    <2>3. Checked(Idle)
      BY IdleFits DEF Checked
    <2>4. \A q \in Replicas : Checked(task[q]["event"])
      BY DEF Handling
    <2> QED
      BY <2>2, <2>3, <2>4
  <1>7. \A q \in Replicas : \A x \in Range(inbox'[q]["event"]) : FromHook(x)
    BY <1>2 DEF Handling
  <1> QED
    BY <1>5, <1>6, <1>7, HandlingNext

\* Handling is kept by every step.
LEMMA HandlingStep ==
    ASSUME OneSecret, Formed, \A c \in Clients : CallInv(c), Handling, [Next]_vars
    PROVE  Handling'
  <1>1. ASSUME NEW kind, NEW n, PublishLifecycleEvent(kind, n), task' = task, handled' = handled
        PROVE  Handling'
    <2>1. PICK m : Deliver("lifecycle", m) \/ UNCHANGED inbox
      BY <1>1 DEF PublishLifecycleEvent
    <2> QED
      BY <1>1, <2>1, HandlingSending
  <1>2. CASE Create
    BY <1>1, <1>2 DEF Create
  <1>3. CASE Delete
    BY <1>1, <1>3 DEF Delete
  <1>4. ASSUME NEW c \in Clients, Resolution(c) PROVE Handling'
    <2>1. task' = task /\ handled' = handled
      BY <1>4 DEF Resolution, Lookup, Ask, TimeOut, Busy
    <2>2. CASE inbox' = inbox
      BY <2>1, <2>2, HandlingStill
    <2>3. CASE inbox' # inbox
      <3>1. Ask(c)
        BY <1>4, <2>3 DEF Resolution, Lookup, TimeOut
      <3>2. client[c].var \in Variables
        BY <3>1, OpenIs DEF Ask, Busy, Open
      <3>3. client[c].var # "event"
        BY <3>2, LoopsAre
      <3>4. PICK m : Deliver(client[c].var, m) \/ UNCHANGED inbox
        BY <3>1 DEF Ask
      <3> QED
        BY <2>1, <3>3, <3>4, HandlingSending
    <2> QED
      BY <2>2, <2>3
  <1>5. ASSUME NEW c \in Clients,
               (\E v \in Variables : ResolveVariable(c, v)) \/ Return(c)
        PROVE  Handling'
    <2>1. task' = task /\ handled' = handled /\ inbox' = inbox
      BY <1>5 DEF ResolveVariable, Return, Busy
    <2> QED
      BY <2>1, HandlingStill
  <1>6. ASSUME NEW c \in Clients, NEW args \in Args, CallHook(c, args) PROVE Handling'
    <2>1. PICK m : Deliver("call", m) \/ UNCHANGED inbox
      BY <1>6 DEF CallHook
    <2>2. task' = task /\ handled' = handled
      BY <1>6 DEF CallHook, UseHook
    <2> QED
      BY <2>1, <2>2, HandlingSending
  <1>7. ASSUME NEW args \in Args, PublishEventHook(args) PROVE Handling'
    <2>1. Deliver("event", EventMsg(args)) \/ UNCHANGED inbox
      BY <1>7 DEF PublishEventHook, EventMsg
    <2>2. task' = task /\ handled' = handled
      BY <1>7 DEF PublishEventHook, UseHook
    <2>3. EventMsg(args) \in Messages /\ FromHook(EventMsg(args))
      BY DEF Messages, FromHook
    <2> QED
      BY <2>1, <2>2, <2>3, HandlingPosting
  <1>8. ASSUME NEW l \in {"call", "event"}, Plain(l) PROVE Handling'
    <2>1. PICK args \in Args : Deliver(l, PlainMsg(l, args))
      BY <1>8 DEF Plain, PlainMsg
    <2>2. task' = task /\ handled' = handled
      BY <1>8 DEF Plain
    <2>3. CASE l = "call"
      BY <2>1, <2>2, <2>3, HandlingSending
    <2>4. CASE l = "event"
      <3>1. PlainMsg("event", args) \in Messages
        <4>1. <<"event", args>> \in {"call", "event"} \X Args
          OBVIOUS
        <4> QED
          BY <4>1 DEF Messages
      <3>2. FromHook(PlainMsg("event", args))
        BY DEF FromHook
      <3> QED
        BY <2>1, <2>2, <2>4, <3>1, <3>2, HandlingPosting
    <2> QED
      BY <2>3, <2>4
  <1>9. ASSUME NEW r \in Replicas, Crash(r) PROVE Handling'
    <2>1. /\ \A l \in Loops : inbox'[r][l] = <<>> /\ task'[r][l] = Idle
          /\ \A q \in Replicas, l \in Loops :
                q # r => inbox'[q][l] = inbox[q][l] /\ task'[q][l] = task[q][l]
      BY <1>9, CrashIs DEF Formed
    <2>2. "event" \in Loops /\ handled' = handled
      BY <1>9, LoopsAre DEF Crash
    <2>3. Range(inbox'[r]["event"]) = {} /\ Checked(task'[r]["event"])
      <3>1. Checked(Idle)
        BY IdleFits DEF Checked
      <3> QED
        BY <2>1, <2>2, <3>1, EmptyRange
    <2>4. \A q \in Replicas : /\ \A x \in Range(inbox[q]["event"]) : FromHook(x)
                              /\ Checked(task[q]["event"])
      BY DEF Handling
    <2>5. \A x \in handled' : Validated(x)
      BY <2>2 DEF Handling
    <2> QED
      BY <2>1, <2>2, <2>3, <2>4, <2>5, HandlingNext
  <1>10. ASSUME NEW r \in Replicas, NEW l \in Loops, Loop(r, l) PROVE Handling'
    <2>1. CASE Take(r, l)
      BY <2>1, HandlingTake
    <2>2. CASE DeleteVariable(r) \/ Created(r)
      <3>1. PICK t : SetTask(r, "lifecycle", t)
        BY <2>2 DEF DeleteVariable, Created
      <3>2. inbox' = inbox /\ handled' = handled
        BY <2>2 DEF DeleteVariable, Created
      <3> QED
        BY <3>1, <3>2, HandlingElsewhere
    <2>3. CASE l \in Variables /\ (Resolve(r, l) \/ Store(r, l) \/ Answer(r, l))
      <3>1. PICK t : SetTask(r, l, t)
        BY <2>3 DEF Resolve, Store, Answer
      <3>2. inbox' = inbox /\ handled' = handled /\ l # "event"
        BY <2>3, LoopsAre DEF Resolve, Store, Answer
      <3> QED
        BY <3>1, <3>2, HandlingElsewhere
    <2>4. CASE Call(r) \/ Event(r)
      BY <2>4, HandlingCall, HandlingEvent
    <2> QED
      BY <1>10, <2>1, <2>2, <2>3, <2>4 DEF Loop
  <1>11. CASE UNCHANGED vars
    <2>1. task' = task /\ handled' = handled /\ inbox' = inbox
      BY <1>11 DEF vars
    <2> QED
      BY <2>1, HandlingStill
  <1> QED
    BY <1>2, <1>3, <1>4, <1>5, <1>6, <1>7, <1>8, <1>9, <1>10, <1>11 DEF Next

\* Handling holds at first.
LEMMA HandlingInit == Init => Handling
  <1> SUFFICES ASSUME Init PROVE Handling
    OBVIOUS
  <1>1. "event" \in Loops /\ handled = {}
    BY LoopsAre DEF Init
  <1>2. \A r \in Replicas : inbox[r]["event"] = <<>> /\ task[r]["event"] = Idle
    BY <1>1 DEF Init
  <1>3. \A r \in Replicas : Range(inbox[r]["event"]) = {} /\ Checked(task[r]["event"])
    <2>1. Checked(Idle)
      BY IdleFits DEF Checked
    <2> QED
      BY <1>2, <2>1, EmptyRange
  <1> QED
    BY <1>1, <1>3 DEF Handling

\* No handler is called with what a bus without the secret sent, nor with arguments that the
\* hook's schema does not describe, if that schema is one that validateHookSchema enforces:
\* whatever order calls, events, foreign messages and crashes come in.
THEOREM HandledConformsHolds ==
    ASSUME OneSecret, Enforced(CallSchema), Enforced(EventSchema)
    PROVE  Spec => []HandledConforms
  <1>1. Init => Handling
    BY HandlingInit
  <1>2. SessionsInv /\ Handling /\ [Next]_vars => Handling'
    BY HandlingStep DEF SessionsInv
  <1>3. Handling => HandledConforms
    <2> SUFFICES ASSUME Handling, NEW m \in handled
                 PROVE  /\ m.header # NoHeader
                        /\ Conforms(IF m.data.ch = Channel("event") THEN EventSchema ELSE CallSchema,
                                    m.data.payload.args)
      BY DEF HandledConforms
    <2>1. Validated(m)
      BY DEF Handling
    <2>2. PICK a \in Args :
              \/ Signed(m, Channel("event"), a) /\ validateHookSchema(EventSchema, a)
              \/ Signed(m, Channel("call"), a) /\ validateHookSchema(CallSchema, a)
      BY <2>1 DEF Validated
    <2>3. CASE Signed(m, Channel("event"), a) /\ validateHookSchema(EventSchema, a)
      <3>1. Conforms(EventSchema, a)
        BY <2>3 DEF Enforced
      <3> QED
        BY <2>3, <3>1 DEF Signed
    <2>4. CASE Signed(m, Channel("call"), a) /\ validateHookSchema(CallSchema, a)
      <3>1. Conforms(CallSchema, a)
        BY <2>4 DEF Enforced
      <3> QED
        BY <2>4, <3>1, ChannelsDiffer DEF Signed
    <2> QED
      BY <2>2, <2>3, <2>4
  <1> QED
    BY <1>1, <1>2, <1>3, SessionsAlways, PTL DEF Spec
-----------------------------------------------------------------------------
(* Which schemas are enforced.                                             *)

\* Induction over the naturals, said of a set and not of a predicate.
LEMMA SetInduction ==
    ASSUME NEW S, 0 \in S, \A n \in Nat : n \in S => n + 1 \in S
    PROVE  \A n \in Nat : n \in S
  <1> DEFINE D == Nat \ S
  <1>1. SUFFICES ASSUME D # {} PROVE FALSE
    OBVIOUS
  <1>2. PICK x \in D : \A y \in D : ~(<<y, x>> \in OpToRel(<, Nat))
    <2>1. D \subseteq Nat
      OBVIOUS
    <2> QED
      BY <1>1, <2>1, WFMin, NatLessThanWellFounded
  <1>3. x \in Nat /\ x - 1 \in Nat /\ x - 1 < x
    <2>1. x \in Nat /\ x # 0
      OBVIOUS
    <2> QED
      BY <2>1
  <1>4. x - 1 \in S
    <2>1. <<x - 1, x>> \in OpToRel(<, Nat)
      BY <1>3 DEF OpToRel
    <2> QED
      BY <1>2, <1>3, <2>1
  <1>5. x - 1 + 1 \in S /\ x - 1 + 1 = x
    BY <1>3, <1>4
  <1> QED
    BY <1>2, <1>5


\* Fields are nested less deep than the value that has them, as in any finite text.
Nested(depth) ==
    \A v \in Values : v.type = "object" =>
        \A name \in DOMAIN v.fields : v.fields[name] \in Values /\ depth[v.fields[name]] < depth[v]

\* One step of validateHookSchema, with f for what it makes of the fields.
Accepts(f, s, v) ==
    \/ s = Absent
    \/ /\ s.type \in {"string", "number", "boolean", "object"} => v.type = s.type
       /\ s.type = "object" =>
             /\ RequiredFields(s, v)
             /\ s.properties # Absent /\ "properties" \notin s.foreign =>
                   \A name \in DOMAIN s.properties \cap DOMAIN v.fields :
                       s.properties[name] \in f[v.fields[name]]
       /\ InEnum(s, v)
Under(f, v) == {s \in Schemas \cup {Absent} : Accepts(f, s, v)}

\* It looks at nothing but the fields.
LEMMA FieldsDecide ==
    ASSUME NEW f, NEW g, NEW v,
           v.type = "object" => \A name \in DOMAIN v.fields : f[v.fields[name]] = g[v.fields[name]]
    PROVE  Under(f, v) = Under(g, v)
  <1>1. ASSUME NEW s \in Schemas \cup {Absent} PROVE Accepts(f, s, v) <=> Accepts(g, s, v)
    <2>1. CASE s.type = "object" /\ v.type = "object"
      <3>1. \A name \in DOMAIN s.properties \cap DOMAIN v.fields :
               s.properties[name] \in f[v.fields[name]] <=> s.properties[name] \in g[v.fields[name]]
        BY <2>1
      <3> QED
        BY <3>1, Zenon DEF Accepts
    <2>2. CASE s.type = "object" /\ v.type # "object"
      <3>1. ~(s.type \in {"string", "number", "boolean", "object"} => v.type = s.type)
        BY <2>2
      <3> QED
        BY <3>1, Zenon DEF Accepts
    <2>3. CASE s.type # "object"
      BY <2>3, Zenon DEF Accepts
    <2> QED
      BY <2>1, <2>2, <2>3
  <1> QED
    BY <1>1, Zenon DEF Under

\* validateHookSchema comes to an end, and computes what it says.
LEMMA ValidUnderIs ==
    ASSUME NEW height \in Nat, NEW depth \in [Values -> 0..height], Nested(depth)
    PROVE  \A v \in Values : ValidUnder[v] = Under(ValidUnder, v)
  <1> DEFINE Low(k) == {v \in Values : depth[v] < k}
             S == {k \in Nat : \E f : f = [v \in Low(k) |-> Under(f, v)]}
  <1> HIDE DEF Low
  <1>1. 0 \in S
    <2> DEFINE g == [v \in {} |-> {}]
    <2>1. Low(0) = {}
      BY DEF Low
    <2>2. g = [v \in Low(0) |-> Under(g, v)]
      BY <2>1
    <2> HIDE DEF g
    <2>3. \E f : f = [v \in Low(0) |-> Under(f, v)]
      <3> WITNESS g
      <3> QED
        BY <2>2
    <2>4. 0 \in Nat
      OBVIOUS
    <2> QED
      BY <2>3, <2>4, Zenon
  <1>2. ASSUME NEW k \in Nat, k \in S PROVE k + 1 \in S
    <2>1. PICK h : h = [v \in Low(k) |-> Under(h, v)]
      BY <1>2
    <2> DEFINE g == [v \in Low(k + 1) |-> Under(h, v)]
    <2>2. Low(k) \subseteq Low(k + 1)
      BY DEF Low
    <2>3. \A v \in Low(k) : g[v] = h[v]
      BY <2>1, <2>2
    <2>4. ASSUME NEW v \in Low(k + 1) PROVE g[v] = Under(g, v)
      <3>1. v.type = "object" =>
               \A name \in DOMAIN v.fields : g[v.fields[name]] = h[v.fields[name]]
        <4>1. SUFFICES ASSUME v.type = "object", NEW name \in DOMAIN v.fields
                       PROVE  v.fields[name] \in Low(k)
          BY <2>3
        <4>2. v \in Values /\ depth[v] < k + 1
          BY DEF Low
        <4>3. v.fields[name] \in Values /\ depth[v.fields[name]] < depth[v]
          BY <4>1, <4>2 DEF Nested
        <4>4. depth[v.fields[name]] \in Nat /\ depth[v] \in Nat
          BY <4>2, <4>3
        <4>5. depth[v.fields[name]] < k
          BY <4>2, <4>3, <4>4
        <4> QED
          BY <4>3, <4>5 DEF Low
      <3>2. Under(g, v) = Under(h, v)
        <4> HIDE DEF g
        <4> QED
          BY <3>1, FieldsDecide
      <3> QED
        BY <3>2
    <2>5. g = [v \in Low(k + 1) |-> Under(g, v)]
      BY <2>4
    <2> HIDE DEF g
    <2>6. \E f : f = [v \in Low(k + 1) |-> Under(f, v)]
      <3> WITNESS g
      <3> QED
        BY <2>5
    <2>7. k + 1 \in Nat
      OBVIOUS
    <2> QED
      BY <2>6, <2>7, Zenon
  <1> HIDE DEF S
  <1>3. height + 1 \in S
    BY <1>1, <1>2, SetInduction
  <1>4. Low(height + 1) = Values
    <2>1. \A v \in Values : depth[v] < height + 1
      OBVIOUS
    <2> QED
      BY <2>1 DEF Low
  <1>5. \E f : f = [v \in Values |-> Under(f, v)]
    BY <1>3, <1>4 DEF S
  <1>6. ValidUnder = [v \in Values |-> Under(ValidUnder, v)]
    BY <1>5 DEF ValidUnder, Under, Accepts
  <1> QED
    BY <1>6

\* A pair of a schema, or none, and a value that is valid under it.
Valid(p) == p[2] \in Values /\ p[1] \in ValidUnder[p[2]]

\* What a well-formed schema says of a value that is valid under it, and of the fields.
LEMMA ValidNode ==
    ASSUME NEW height \in Nat, NEW depth \in [Values -> 0..height], Nested(depth),
           \A s \in Schemas : WellFormed(s),
           NEW s, NEW v, s # Absent, v \in Values, s \in ValidUnder[v]
    PROVE  /\ s.type # Absent => v.type = s.type
           /\ s.required # Absent => v.type = "object" /\ \A n \in s.required : n \in DOMAIN v.fields
           /\ s.enum # Absent => Prints(v) \in {Prints(e) : e \in s.enum}
           /\ s.properties # Absent =>
                 \A n \in DOMAIN s.properties \cap DOMAIN v.fields :
                     Valid(<<s.properties[n], v.fields[n]>>)
  <1>1. s \in Schemas /\ Accepts(ValidUnder, s, v)
    <2>1. s \in Under(ValidUnder, v)
      BY ValidUnderIs
    <2> QED
      BY <2>1, Zenon DEF Under
  <1>2. WellFormed(s)
    BY <1>1
  <1>3. /\ s.type \in {"string", "number", "boolean", "object"} => v.type = s.type
        /\ s.type = "object" =>
              /\ RequiredFields(s, v)
              /\ s.properties # Absent /\ "properties" \notin s.foreign =>
                    \A n \in DOMAIN s.properties \cap DOMAIN v.fields :
                        s.properties[n] \in ValidUnder[v.fields[n]]
        /\ InEnum(s, v)
    BY <1>1, Zenon DEF Accepts
  <1>4. s.type # Absent => v.type = s.type
    BY <1>2, <1>3, Zenon DEF WellFormed
  <1>5. s.required # Absent \/ s.properties # Absent => s.type = "object" /\ v.type = "object"
    BY <1>2, <1>3 DEF WellFormed
  <1>9. \A k : k \notin s.foreign
    BY <1>2 DEF WellFormed
  <1>6. s.required # Absent => \A n \in s.required : n \in DOMAIN v.fields
    BY <1>3, <1>5, <1>9 DEF RequiredFields
  <1>7. s.enum # Absent => Prints(v) \in {Prints(e) : e \in s.enum}
    <2>1. SUFFICES ASSUME s.enum # Absent PROVE Prints(v) \in {Prints(e) : e \in s.enum}
      OBVIOUS
    <2>2. PICK e \in s.enum : Prints(e) = Prints(v)
      BY <1>3, <1>9, <2>1 DEF InEnum
    <2> QED
      BY <2>2
  <1>8. ASSUME s.properties # Absent, NEW n \in DOMAIN s.properties \cap DOMAIN v.fields
        PROVE  Valid(<<s.properties[n], v.fields[n]>>)
    <2>1. s.properties[n] \in ValidUnder[v.fields[n]]
      BY <1>3, <1>5, <1>8, <1>9
    <2>2. v.fields[n] \in Values
      BY <1>5, <1>8 DEF Nested
    <2> QED
      BY <2>1, <2>2 DEF Valid
  <1> QED
    BY <1>4, <1>5, <1>6, <1>7, <1>8

\* Below a valid pair there are valid pairs.
LEMMA ValidBelow ==
    ASSUME NEW height \in Nat, NEW depth \in [Values -> 0..height], Nested(depth),
           \A s \in Schemas : WellFormed(s),
           NEW pairs, \A p \in pairs : Valid(p)
    PROVE  \A p \in Below(pairs) : Valid(p)
  <1>1. ASSUME NEW p \in Below(pairs) PROVE Valid(p)
    <2>1. PICK q \in pairs :
             /\ q[1] # Absent /\ q[2].type = "object" /\ q[1].properties # Absent
             /\ \E n \in DOMAIN q[1].properties \cap DOMAIN q[2].fields :
                   p = <<q[1].properties[n], q[2].fields[n]>>
      BY DEF Below
    <2>2. q[2] \in Values /\ q[1] \in ValidUnder[q[2]]
      BY DEF Valid
    <2> QED
      BY <2>1, <2>2, ValidNode
  <1> QED
    BY <1>1

\* A value is as its schema describes it, at its own level.
Described(p) ==
    p[1] # Absent =>
        /\ p[1].type # Absent => p[2].type = p[1].type
        /\ p[1].required # Absent =>
              p[2].type = "object" /\ \A n \in p[1].required : n \in DOMAIN p[2].fields
        /\ p[1].enum # Absent => Prints(p[2]) \in {Prints(e) : e \in p[1].enum}

LEMMA ValidIsDescribed ==
    ASSUME NEW height \in Nat, NEW depth \in [Values -> 0..height], Nested(depth),
           \A s \in Schemas : WellFormed(s),
           NEW p, Valid(p)
    PROVE  Described(p)
  <1>1. p[2] \in Values /\ p[1] \in ValidUnder[p[2]]
    BY DEF Valid
  <1> QED
    BY <1>1, ValidNode DEF Described

\* validateHookSchema lets nothing through that a well-formed schema does not describe:
\* however many steps of properties down, every value is as its schema says.
THEOREM WellFormedIsEnforced ==
    ASSUME NEW height \in Nat, NEW depth \in [Values -> 0..height], Nested(depth),
           \A s \in Schemas : WellFormed(s),
           NEW schema, NEW v \in Values, validateHookSchema(schema, v),
           NEW level, level[0] = {<<schema, v>>},
           \A n \in Nat : level[n + 1] = Below(level[n])
    PROVE  \A n \in Nat : \A p \in level[n] : Described(p)
  <1> DEFINE S == {n \in Nat : \A p \in level[n] : Valid(p)}
  <1>1. 0 \in S
    BY DEF validateHookSchema, Valid
  <1>2. ASSUME NEW n \in Nat, n \in S PROVE n + 1 \in S
    <2>1. \A p \in level[n] : Valid(p)
      BY <1>2
    <2>2. \A p \in level[n + 1] : Valid(p)
      BY <2>1, ValidBelow
    <2> QED
      BY <2>2
  <1> HIDE DEF S
  <1>3. \A n \in Nat : n \in S
    BY <1>1, <1>2, SetInduction
  <1> QED
    BY <1>3, ValidIsDescribed DEF S

\* In particular, arguments conform.
LEMMA WellFormedConforms ==
    ASSUME NEW height \in Nat, NEW depth \in [Values -> 0..height], Nested(depth),
           \A s \in Schemas : WellFormed(s),
           NEW schema, NEW v \in Values, validateHookSchema(schema, v)
    PROVE  Conforms(schema, v)
  <1> DEFINE top == {<<schema, v>>}
  <1>1. \A p \in top : Valid(p)
    BY DEF validateHookSchema, Valid
  <1> HIDE DEF top
  <1>2. \A p \in Below(top) : Valid(p)
    BY <1>1, ValidBelow
  <1>3. \A p \in Below(Below(top)) : Valid(p)
    BY <1>2, ValidBelow
  <1>4. Pairs(schema, v) = top \cup Below(top) \cup Below(Below(top))
    BY DEF Pairs, top
  <1>5. \A p \in Pairs(schema, v) : Described(p)
    BY <1>1, <1>2, <1>3, <1>4, ValidIsDescribed
  <1> QED
    BY <1>5 DEF Conforms, Described

\* HandledConforms again, of the schemas alone: for well-formed schemas, whatever the arguments.
THEOREM WellFormedHooksConform ==
    ASSUME OneSecret, \A s \in Schemas : WellFormed(s),
           NEW height \in Nat, NEW depth \in [Values -> 0..height], Nested(depth)
    PROVE  Spec => []HandledConforms
  <1>1. ASSUME NEW schema PROVE Enforced(schema)
    <2>1. SUFFICES ASSUME NEW v \in Args, validateHookSchema(schema, v)
                   PROVE  Conforms(schema, v)
      BY DEF Enforced
    <2>2. v \in Values
      BY ConstantsAssumption
    <2> QED
      BY <2>1, <2>2, WellFormedConforms
  <1> QED
    BY <1>1, HandledConformsHolds
=============================================================================
