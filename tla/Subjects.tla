------------------------------ MODULE Subjects ------------------------------
(***************************************************************************)
(* The names on the bus: channels, tenants and the streams' filters, of    *)
(* protocol/protocol.go and transport/nats/nats.go.                        *)
(*                                                                         *)
(* A subject is the sequence of its tokens, so that the dots of the code's *)
(* strings are the joints of the sequence.  Of the names that a caller     *)
(* chooses, only their equality matters.  SessionToken is the identity:    *)
(* the first 22 characters of a SHA-256 in base64 have neither a dot nor a *)
(* wildcard, and two sessions with one token are taken to be impossible.   *)
(***************************************************************************)
EXTENDS Naturals, Sequences

Least(S) == CHOOSE n \in S : \A m \in S : n <= m

SessionToken(session) == session

\* tenantRe admits neither an empty tenant nor a separator or wildcard; of the tokens
\* that the modules use, these are the ones it refuses.
IsValidTenant(token) == token \notin {"", "*", ">"}

TenantPrefix(tenant) == <<"abc", tenant>>

\* The tenant of a subject, "" if it has none: the token after "abc" counts only when
\* another one follows it.
SubjectTenant(ch) ==
    IF Len(ch) > 2 /\ ch[1] = "abc" /\ IsValidTenant(ch[2]) THEN ch[2] ELSE ""

ChMailbox(tenant, session) == TenantPrefix(tenant) \o <<"mailbox", SessionToken(session)>>
ChSessionEvents(tenant, session) ==
    TenantPrefix(tenant) \o <<"session", "events", SessionToken(session)>>
ChLifecycle(tenant, kind) == TenantPrefix(tenant) \o <<"session", "lifecycle", kind>>
ChVariable(tenant, extId, name) == TenantPrefix(tenant) \o <<"var", extId, name>>
ChHookCall(tenant, extId, hook) == TenantPrefix(tenant) \o <<"hook", "call", extId, hook>>
ChHookEvent(tenant, hook) == TenantPrefix(tenant) \o <<"hook", "event", hook>>

inboxWildcard == <<"abc", "*", "mailbox", ">">>
eventsWildcard == <<"abc", "*", "session", "events", ">">>
dlqWildcard == <<"abc", "*", "dlq", ">">>

\* Where Term copies a message to: the last token of its subject, under its tenant.
dlqSubjectFor(subject) ==
    LET token == subject[Len(subject)]
    IN  IF SubjectTenant(subject) # "" THEN TenantPrefix(SubjectTenant(subject)) \o <<"dlq", token>>
        ELSE <<"abc", "dlq", token>>

-----------------------------------------------------------------------------
(* Filters.                                                                *)

\* What the server means by a filter: "*" stands for one token, a last ">" for one or
\* more.
Matches(filter, subject) ==
    LET open == filter[Len(filter)] = ">"
        fixed == IF open THEN Len(filter) - 1 ELSE Len(filter)
    IN  /\ IF open THEN Len(subject) > fixed ELSE Len(subject) = fixed
        /\ \A i \in 1..fixed : filter[i] \in {"*", subject[i]}

\* What the client makes of it: one pass over the subject, left at the first token that
\* the pattern has not, that decides, or that differs.
subjectMatch(pattern, subject) ==
    LET leaves == {i \in 1..Len(subject) :
                      \/ i > Len(pattern)
                      \/ pattern[i] = ">"
                      \/ pattern[i] \notin {"*", subject[i]}}
    IN  IF leaves = {} THEN Len(pattern) = Len(subject)
        ELSE LET i == Least(leaves) IN i <= Len(pattern) /\ pattern[i] = ">"

\* The server refuses two streams with filters that one subject may match.
Overlap(p, q) ==
    \E k \in 0..Len(p) :
        /\ k <= Len(q)
        /\ \A i \in 1..k :
              /\ ">" \notin {p[i], q[i]}
              /\ p[i] = q[i] \/ "*" \in {p[i], q[i]}
        /\ \/ k = Len(p) /\ k = Len(q)
           \/ k < Len(p) /\ k < Len(q) /\ ">" \in {p[k + 1], q[k + 1]}
=============================================================================
