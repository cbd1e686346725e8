----------------------------- MODULE MCSessions -----------------------------
(* Instances of Sessions for TLC. *)
EXTENDS Sessions, TLC

CONSTANTS r1, r2, c1, agent, locale, motd, theme

TwoReplicas == {r1, r2}
OneClient == {c1}
AllVariables == {locale, theme, motd}
SessionVariables == {locale, theme}
Symmetry == Permutations(TwoReplicas)
Ids == [x \in {r1, r2, agent} |->
           [id |-> IF x = agent THEN "agent" ELSE "ext", secret |-> "secret"]]

\* A call has a name, and may have a mode out of an enum; an event has a number or "off".
NameSchema == [type |-> "string", required |-> Absent, properties |-> Absent, enum |-> Absent,
               foreign |-> {}]
ModeSchema == [NameSchema EXCEPT !.enum = {Scalar("string", "a")}]
TheCall == [type |-> "object", required |-> {"name"}, enum |-> Absent, foreign |-> {},
            properties |-> [x \in {"name", "mode"} |-> IF x = "name" THEN NameSchema ELSE ModeSchema]]
TheEvent == [type |-> Absent, required |-> Absent, properties |-> Absent, foreign |-> {},
             enum |-> {Scalar("number", "1"), Scalar("string", "off")}]
TheSchemas == {NameSchema, ModeSchema, TheCall, TheEvent}
ASSUME SchemasAssumption == \A s \in TheSchemas : WellFormed(s)

Scalars == {Scalar("string", "a"), Scalar("string", "1"), Scalar("number", "1")}
SomeArgs ==
    {Object([x \in {} |-> 0]), Object([name |-> Scalar("string", "a")]),
     Object([mode |-> Scalar("string", "a")]),
     Object([name |-> Scalar("string", "a"), mode |-> Scalar("string", "1")])}
FewArgs == {Object([mode |-> Scalar("string", "a")]), Object([name |-> Scalar("string", "a")]),
            Object([name |-> Scalar("string", "a"), mode |-> Scalar("string", "1")]),
            Scalar("string", "1")}
TheValues == Scalars \cup SomeArgs

\* A session that is created again, one whose variables are resolved, a variable and a
\* hook, and the hooks.
FourBounds ==
    {[lives |-> 2, asks |-> 2, asked |-> {locale}, hooks |-> 0],
     [lives |-> 1, asks |-> 2, asked |-> {locale, motd}, hooks |-> 0],
     [lives |-> 1, asks |-> 1, asked |-> {locale}, hooks |-> 1],
     [lives |-> 0, asks |-> 0, asked |-> {}, hooks |-> 3]}

AllFaults == {"crash", "request", "plain"}
=============================================================================
