-------------------------------- MODULE Wire --------------------------------
(***************************************************************************)
(* What travels on the bus: the envelope of transport/nats/nats.go and the *)
(* signature of identity/identity.go.                                      *)
(*                                                                         *)
(* A message is its subject, its envelope and its two auth headers.  JSON  *)
(* is left out where it gives back what it was given.  It does not for a   *)
(* payload of nil: the sender signs the empty string, and the receiver     *)
(* reads the four letters of null.  The HMAC is taken to be perfect: the   *)
(* signature is the secret and the text that were signed.                  *)
(***************************************************************************)
EXTENDS Subjects

CONSTANTS
    NilPayload,     \* the payload nil of a caller, which is signed as the empty text
    NullPayload     \* what its receiver reads, and what is signed as null

ASSUME PayloadAssumption == NilPayload # NullPayload

NoIdentity == [id |-> "", secret |-> ""]
NoEnvelope == [v |-> 0]
NoHeader == [id |-> "", sig |-> <<>>]

\* The tenant of a message: the one that is given, or its subject's.
tenantOf(ch, explicit) == IF explicit # "" THEN explicit ELSE SubjectTenant(ch)

buildEnvelope(kind, ch, payload, tenant, id, session) ==
    [v |-> 2, ch |-> ch, kind |-> kind, tenant |-> tenant, id |-> id,
     session |-> session,
     payload |-> IF payload = NilPayload THEN NullPayload ELSE payload]

\* Another version, or another tenant than the subject's, is an error.
decode(m) ==
    IF \/ m.data.v # 2
       \/ SubjectTenant(m.subject) # "" /\ m.data.tenant # SubjectTenant(m.subject)
    THEN NoEnvelope
    ELSE m.data

-----------------------------------------------------------------------------
(* Signatures.                                                             *)

canonical(id, f) ==
    <<id, f.tenant, f.ch, f.kind, f.id, f.payload>>
sign(identity, f) == <<identity.secret, canonical(identity.id, f)>>

\* The fields that a sender signs: its own payload, and the tenant of the envelope.
Fields(data, ch, kind, id, payload) ==
    [tenant |-> data.tenant, ch |-> ch, kind |-> kind, id |-> id, payload |-> payload]

signMsg(idn, data, ch, kind, id, payload) ==
    IF idn = NoIdentity THEN NoHeader
    ELSE [id |-> idn.id, sig |-> sign(idn, Fields(data, ch, kind, id, payload))]

\* The receiver signs what it has received, with its secret and the claimed id.
verifyMsg(idn, m) ==
    \/ idn = NoIdentity
    \/ /\ m.header # NoHeader
       /\ m.header.sig = sign([id |-> m.header.id, secret |-> idn.secret],
                              Fields(m.data, m.subject, m.data.kind, m.data.id, m.data.payload))

\* A message as one side sends it and another one reads it.
Sent(idn, kind, ch, payload, tenant, session) ==
    LET data == buildEnvelope(kind, ch, payload, tenantOf(ch, tenant), "", session)
    IN  [subject |-> ch, data |-> data, header |-> signMsg(idn, data, ch, kind, "", payload)]

\* NoEnvelope is what makes a receive loop end, a request fail, and a broadcast skip.
Received(idn, m) == IF verifyMsg(idn, m) THEN decode(m) ELSE NoEnvelope
=============================================================================
