----------------------------- MODULE HookSchema -----------------------------
(***************************************************************************)
(* validateHookSchema of extension/extension.go: what a hook's schema says *)
(* of the arguments of its calls and the payload of its events.            *)
(*                                                                         *)
(* A JSON value is its type with, for an object, a function from its field *)
(* names to values and, for anything else, the text that it prints as.  A  *)
(* schema is a record that has all the keywords, with Absent for the ones  *)
(* that are not given, and foreign, the keywords whose Go value is not of  *)
(* the type that decoding JSON gives: []string and not []any, say, in a    *)
(* schema that was written in Go.  The message of a rejection is left out. *)
(***************************************************************************)
EXTENDS Naturals, Sequences

CONSTANTS
    Schemas,    \* schemas, with those of their properties
    Values,     \* values, with those of their fields
    Absent      \* a keyword that is not given

Scalar(type, text) == [type |-> type, text |-> text]
Object(fields) == [type |-> "object", fields |-> fields]

\* A map prints as something that no scalar prints as, and the enums here have no maps.
Prints(v) == IF v.type = "object" THEN "map" ELSE v.text

\* Mutant: what is required is looked for in the schema's properties.
DeclaredFields(schema, v) ==
    schema.required = Absent \/ schema.properties = Absent
        \/ schema.required \subseteq DOMAIN schema.properties

\* The fields that an object must have; a foreign keyword is passed over, here and below.
RequiredFields(schema, v) ==
    schema.required = Absent \/ "required" \in schema.foreign
        \/ schema.required \subseteq DOMAIN v.fields

\* An enum compares what is printed, so that 1 and "1" are the same to it.
InEnum(schema, v) ==
    schema.enum = Absent \/ "enum" \in schema.foreign
        \/ \E e \in schema.enum : Prints(e) = Prints(v)

\* The schemas that a value is valid under.  Types other than these four are not looked
\* at, and required fields and properties are looked at in a schema of type object only.
ValidUnder[v \in Values] ==
    {s \in Schemas \cup {Absent} :
        \/ s = Absent
        \/ /\ s.type \in {"string", "number", "boolean", "object"} => v.type = s.type
           /\ s.type = "object" =>
                 /\ RequiredFields(s, v)
                 /\ s.properties # Absent /\ "properties" \notin s.foreign =>
                       \A name \in DOMAIN s.properties \cap DOMAIN v.fields :
                           s.properties[name] \in ValidUnder[v.fields[name]]
           /\ InEnum(s, v)}

\* A missing schema accepts everything.
validateHookSchema(schema, v) == schema \in ValidUnder[v]

-----------------------------------------------------------------------------
(* What the authors of hooks may rely on, said along paths and not by      *)
(* recursion: the nodes that schema and value have in common.              *)

\* The pairs of a schema and a value that one step down from a set of pairs leads to.
Below(pairs) ==
    UNION {{<<p[1].properties[n], p[2].fields[n]>> :
               n \in DOMAIN p[1].properties \cap DOMAIN p[2].fields} :
              p \in {q \in pairs : /\ q[1] # Absent /\ q[2].type = "object"
                                   /\ q[1].properties # Absent}}

\* Schemas here are at most three levels deep.
Pairs(schema, v) ==
    LET top == {<<schema, v>>}
        middle == Below(top)
    IN  top \cup middle \cup Below(middle)

\* Every node has the type that its schema gives, its required fields, and a text of the
\* enum.
Conforms(schema, v) ==
    \A p \in {q \in Pairs(schema, v) : q[1] # Absent} :
        /\ p[1].type # Absent => p[2].type = p[1].type
        /\ p[1].required # Absent =>
              p[2].type = "object" /\ \A n \in p[1].required : n \in DOMAIN p[2].fields
        /\ p[1].enum # Absent => Prints(p[2]) \in {Prints(e) : e \in p[1].enum}

\* A schema that says nothing that validateHookSchema does not look at: of the types, those
\* that it knows or none, no foreign keyword, and what an object has in a schema of type
\* object only.
WellFormed(schema) ==
    /\ schema.type \in {"string", "number", "boolean", "object", Absent}
    /\ schema.foreign = {}
    /\ schema.required # Absent \/ schema.properties # Absent => schema.type = "object"
=============================================================================
