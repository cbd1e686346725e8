---------------------------- MODULE MCConfigSync ----------------------------
(* Instances of ConfigSync for TLC. *)
EXTENDS ConfigSync, TLC

CONSTANTS a1, a2, x1, x2, v1, v2

OneAgent == {a1}
TwoAgents == {a1, a2}
OneExt == {x1}
TwoExts == {x1, x2}
JsonValues == {v1, v2, Null}

\* An item of type json; what takes its nulls' envelopes for values rejects them.
RejectedValues == {v2, Envelope}
None == {}
Ack == {TRUE}
AnyAck == BOOLEAN

AnyScope == {"global", "session"}
SessionScope == {"session"}
AllFaults == {"agent", "extension", "kv", "slow"}

\* A dot, an equals sign, digits of either case, a slash, the first and the last byte.
SomeBytes == {46, 61, 50, 69, 101, 47, 0, 255}
SomeNames == {<< <<101>> >>, << <<109, 61, 50>> >>, << <<101>>, <<109>> >>}

Symmetry == Permutations(Exts) \cup Permutations(Agents)
=============================================================================
