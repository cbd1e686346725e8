------------------------------- MODULE KVKeys -------------------------------
(***************************************************************************)
(* The keys of the configuration's bucket: what the agent writes           *)
(* (configKVKey of agent/config.go, EscapeKVSegment of                     *)
(* protocol/protocol.go) and what an extension makes of the keys that its  *)
(* watch delivers (applyConfigKV of extension/config.go).                  *)
(*                                                                         *)
(* A text is the sequence of its bytes; a key is the sequence of the texts *)
(* between its dots.  The code escapes the dots of a session's name only.  *)
(* The name of an item is therefore a sequence of texts here, the parts    *)
(* between its dots, and nothing forbids more than one; tenants and ids of *)
(* extensions are one text each, which is left to whoever names them.      *)
(***************************************************************************)
EXTENDS Integers, Sequences

CONSTANTS
    Bytes,      \* the bytes that the names of sessions are made of
    MaxLength,  \* bound on the length of such a name
    ItemNames   \* names of configuration items, as the parts between their dots

Equals == 61
Safe == (97..122) \cup (65..90) \cup (48..57) \cup {45, 95, 47}

\* The bucket takes no key with other bytes than these, the equals sign and the dot.
ASSUME KVKeysAssumption ==
    /\ Bytes \subseteq 0..255
    /\ MaxLength \in Nat
    /\ ItemNames \subseteq Seq(Seq(Safe \cup {Equals}))

\* The text of a hexadecimal digit, and back.
HexDigit(n) == IF n < 10 THEN 48 + n ELSE 55 + n
NoDigit == -1
hexVal(c) ==
    CASE c \in 48..57  -> c - 48
      [] c \in 65..70  -> c - 55
      [] c \in 97..102 -> c - 87
      [] OTHER -> NoDigit

EscapeByte(c) ==
    IF c \in Safe THEN <<c>> ELSE <<Equals, HexDigit(c \div 16), HexDigit(c % 16)>>
EscapeKVSegment(s) ==
    LET Upto[i \in 0..Len(s)] == IF i = 0 THEN <<>> ELSE Upto[i - 1] \o EscapeByte(s[i])
    IN  Upto[Len(s)]

\* Mutant: the test for two more bytes is off by one, and the last one stays escaped.
IsEscapeInside(s, i) ==
    s[i] = Equals /\ i + 2 < Len(s) /\ NoDigit \notin {hexVal(s[i + 1]), hexVal(s[i + 2])}

\* An equals sign that two hexadecimal digits do not follow stands for itself.
IsEscape(s, i) ==
    s[i] = Equals /\ i + 2 <= Len(s) /\ NoDigit \notin {hexVal(s[i + 1]), hexVal(s[i + 2])}
UnescapeKVSegment(s) ==
    LET From[i \in 1..(Len(s) + 1)] ==
            IF i > Len(s) THEN <<>>
            ELSE IF IsEscape(s, i)
            THEN <<16 * hexVal(s[i + 1]) + hexVal(s[i + 2])>> \o From[i + 3]
            ELSE <<s[i]>> \o From[i + 1]
    IN  From[1]

-----------------------------------------------------------------------------
TheT == <<116>>
TenantKVKey(tenant, rest) == <<TheT, tenant>> \o rest

configKVKey(tenant, extId, reach, session, name) ==
    TenantKVKey(tenant, IF reach = "session" THEN <<extId, EscapeKVSegment(session)>> \o name
                        ELSE <<extId>> \o name)

\* applyConfigKV: what an entry is stored under, or nothing.  The extension's id is cut
\* off; of what is left, one part is a name, two are a session and a name, and more are
\* dropped.  So the parts of a dotted name are taken for other things.
Ignored == [scope |-> "none"]
StoredUnder(key, extId) ==
    LET rest == SubSeq(key, 3, Len(key))
        parts == IF Len(rest) > 1 /\ rest[1] = extId THEN Tail(rest) ELSE rest
    IN  CASE Len(key) < 3 \/ key[1] # TheT -> Ignored
          [] Len(parts) = 1 -> [scope |-> "global", tenant |-> key[2], name |-> parts]
          [] Len(parts) = 2 -> [scope |-> "session", tenant |-> key[2], name |-> Tail(parts),
                                session |-> UnescapeKVSegment(parts[1])]
          [] OTHER -> Ignored

-----------------------------------------------------------------------------
Texts == UNION {[1..n -> Bytes] : n \in 1..MaxLength}

\* One tenant and one extension; that no key is another tenant's is the prefix's doing.
SomeTenant == <<120>>
SomeExt == <<101>>

\* A name without a dot.
Undotted(name) == Len(name) = 1

GlobalsReadBack ==
    \A name \in ItemNames : Undotted(name) =>
        StoredUnder(configKVKey(SomeTenant, SomeExt, "global", <<>>, name), SomeExt) =
            [scope |-> "global", tenant |-> SomeTenant, name |-> name]

SessionsReadBack ==
    \A session \in Texts, name \in ItemNames :
        LET key == configKVKey(SomeTenant, SomeExt, "session", session, name)
        IN  /\ \A i \in DOMAIN key : \A j \in DOMAIN key[i] : key[i][j] \in Safe \cup {Equals}
            /\ Undotted(name) =>
                  StoredUnder(key, SomeExt) = [scope |-> "session", tenant |-> SomeTenant,
                                               name |-> name, session |-> session]
=============================================================================
