---------------------------- MODULE TypeRegistry ----------------------------
(***************************************************************************)
(* registry.py and the definition of DjangoObjectTypes (types.py,          *)
(* converter.py).  A registry keeps two tables: the type registered for a  *)
(* model, where a later definition replaces an earlier one, and the        *)
(* GraphQL field each model field was converted to, where the first        *)
(* conversion stays.  Defining a type converts its fields at once; a       *)
(* relation is a Dynamic, which looks the related type up in the registry  *)
(* whenever a schema is built.                                             *)
(*                                                                         *)
(* A model field is one object however many models show it: a proxy model  *)
(* shows the fields of its model.                                          *)
(***************************************************************************)
EXTENDS Naturals, Sequences

CONSTANTS
    Models, Fields,
    FieldsOf,    \* get_model_fields, without the names that end in "+"
    Kind,        \* of each field: "plain", "choices" or "relation"
    Target,      \* related_model of each relation
    Own,         \* a Registry the application made for itself
    MaxTypes,    \* bound: types defined
    MaxResets    \* bound: calls of reset_global_registry

ASSUME ModelsAssumption ==
    /\ FieldsOf \in [Models -> SUBSET Fields]
    /\ Kind \in [Fields -> {"plain", "choices", "relation"}]
    /\ Target \in [Fields -> Models]
ASSUME RegistryAssumption == MaxTypes \in Nat /\ MaxResets \in Nat /\ Own \notin Nat

\* Global registries are named by the number of resets before them.
Registries == (0..MaxResets) \cup {Own}

\* A field as a registry's cache holds it: which definition made it, and the
\* registry a relation's dynamic_type looks into.
Conversion ==
    [as : {"enum", "plain", "relation"}, by : 1..MaxTypes, registry : Registries]

NotConverted == [as |-> "nothing", by |-> 0, registry |-> Own]

\* The Meta of a class statement: the fields that `fields` and `exclude` leave,
\* and those whose choices `convert_choices_to_enum` or the setting behind it
\* wants as an enum.  A statement may fail once its fields are converted.
Declaration ==
    [model : Models, registry : Registries, fields : SUBSET Fields, enums : SUBSET Fields,
     ends : {"registered", "skip_registry", "failed"}]

VARIABLES
    types,       \* the class statements so far, with the fields they got
    global,      \* the global registry
    registered,  \* per registry: the type of each model, or 0
    converted    \* per registry: its cache of converted fields

vars == <<types, global, registered, converted>>
-----------------------------------------------------------------------------
\* convert_django_field, or an enum of its own for a field with choices.
Converted(f, d, n) ==
    [as |-> IF Kind[f] = "relation" THEN "relation"
            ELSE IF Kind[f] = "choices" /\ f \in d.enums THEN "enum" ELSE "plain",
     by |-> n, registry |-> d.registry]

\* convert_django_field_with_choices: what the registry has converted before
\* is used again, whatever the declaration wants.
\* Mutant: the cache is not looked at.
ConvertAnew(f, d, n) == Converted(f, d, n)

ConvertField(f, d, n) ==
    IF converted[d.registry][f] # NotConverted THEN converted[d.registry][f]
    ELSE Converted(f, d, n)

\* construct_fields
ConstructFields(d, n) ==
    [f \in Fields |-> IF f \in d.fields THEN ConvertField(f, d, n) ELSE NotConverted]

\* Mutant: skip_registry is ignored.
RegistersAlways(d) == d.ends # "failed"

Registers(d) == d.ends = "registered"

\* dynamic_type: the related type at the time of the call, or nothing.
\* Mutant: it looks into the global registry.
RelatedTypeGlobally(c, f) == registered[global][Target[f]]

RelatedType(c, f) == registered[c.registry][Target[f]]
-----------------------------------------------------------------------------
Init ==
    /\ types = <<>> /\ global = 0
    /\ registered = [r \in Registries |-> [m \in Models |-> 0]]
    /\ converted = [r \in Registries |-> [f \in Fields |-> NotConverted]]

\* A DjangoObjectType's class statement.
DefineType(d) ==
    /\ Len(types) < MaxTypes
    /\ LET n == Len(types) + 1
           fields == ConstructFields(d, n)
       IN  /\ types' = Append(types, [declared |-> d, fields |-> fields])
           /\ converted' = [converted EXCEPT ![d.registry] =
                              [f \in Fields |-> IF f \in d.fields THEN fields[f] ELSE @[f]]]
           /\ registered' = IF Registers(d)
                            THEN [registered EXCEPT ![d.registry] = [@ EXCEPT ![d.model] = n]]
                            ELSE registered
    /\ UNCHANGED global

\* reset_global_registry: the next definition gets a new global registry.
ResetGlobalRegistry ==
    /\ global < MaxResets
    /\ global' = global + 1
    /\ UNCHANGED <<types, registered, converted>>

\* The class statements the application can write.
Declarations(m) ==
    {d \in [model : {m}, registry : {global, Own}, fields : SUBSET FieldsOf[m],
            enums : SUBSET {f \in FieldsOf[m] : Kind[f] = "choices"},
            ends : {"registered", "skip_registry", "failed"}] : d.enums \subseteq d.fields}

Next == ResetGlobalRegistry \/ \E m \in Models : \E d \in Declarations(m) : DefineType(d)

Spec == Init /\ [][Next]_vars
-----------------------------------------------------------------------------
(* The schema a set of root types has if it is built now.  Building it     *)
(* changes no registry.                                                    *)

Usable == {t \in DOMAIN types : types[t].declared.ends # "failed"}
RegistryOf(t) == types[t].declared.registry

\* The types the relations of t lead to.
FieldsAs(t, as) == {f \in types[t].declared.fields : types[t].fields[f].as = as}

Related(t) ==
    {RelatedType(types[t].fields[f], f) : f \in FieldsAs(t, "relation")} \ {0}

Members(roots) ==
    {t \in Usable : \A S \in SUBSET Usable :
        roots \subseteq S /\ (\A u \in S : Related(u) \subseteq S) => t \in S}

\* Two enum classes with the name of one field cannot be in one schema.
EnumsOf(f, members) ==
    {types[t].fields[f] : t \in {u \in members : f \in FieldsAs(u, "enum")}}

Builds(roots) == \A f \in Fields : \A c, d \in EnumsOf(f, Members(roots)) : c = d
-----------------------------------------------------------------------------
\* Every variable has its type.
TypeOK ==
    /\ global \in 0..MaxResets
    /\ registered \in [Registries -> [Models -> 0..MaxTypes]]
    /\ converted \in [Registries -> [Fields -> Conversion \cup {NotConverted}]]
    /\ types \in Seq([declared : Declaration, fields : [Fields -> Conversion \cup {NotConverted}]])
    /\ Len(types) <= MaxTypes
    /\ \A t \in DOMAIN types : \A f \in types[t].declared.fields :
         types[t].fields[f] \in Conversion

\* Types of one registry, any number of them for a model, in any order, with
\* failed and skipped definitions between them, always go into one schema: it
\* never meets two enums for one model field.
OneRegistryBuilds ==
    \A roots \in SUBSET Usable :
        (\A t, u \in roots : RegistryOf(t) = RegistryOf(u)) => Builds(roots)

\* A relation leads to a type of the related model, registered on purpose, in
\* the registry of the type it belongs to: no schema mixes registries.
RelationsStayInRegistry ==
    \A t \in Usable : \A f \in types[t].declared.fields :
        LET c == types[t].fields[f]
            u == RelatedType(c, f)
        IN  c.as = "relation" /\ u # 0 =>
              /\ u \in Usable /\ RegistryOf(u) = RegistryOf(t)
              /\ types[u].declared.model = Target[f] /\ types[u].declared.ends = "registered"

\* What a schema shows follows from what its registry's types declare, not from
\* when their fields were converted: a relation shows the last type that was
\* registered for its model, before or after its own type, and is left out if
\* there is none; choices are an enum if the definitions that convert the field
\* agree that they are.
DeclarationsDecide ==
    \A t \in Usable : \A f \in types[t].declared.fields :
        LET r == RegistryOf(t)
            candidates == {u \in DOMAIN types : /\ RegistryOf(u) = r
                                                /\ types[u].declared.ends = "registered"
                                                /\ types[u].declared.model = Target[f]}
            others == {u \in DOMAIN types : RegistryOf(u) = r /\ f \in types[u].declared.fields}
            wants(u) == f \in types[u].declared.enums
            c == types[t].fields[f]
        IN  /\ c.as = "relation" =>
                 IF candidates = {} THEN RelatedType(c, f) = 0
                 ELSE /\ RelatedType(c, f) \in candidates
                      /\ \A u \in candidates : u <= RelatedType(c, f)
            /\ Kind[f] = "choices" /\ (\A u \in others : wants(u) <=> wants(t)) =>
                 (c.as = "enum" <=> wants(t))
-----------------------------------------------------------------------------
(* The inductive invariant behind the properties above.                    *)

\* A type's fields are the cache's, for good.
FieldsAreCached ==
    \A t \in DOMAIN types : \A f \in types[t].declared.fields :
        types[t].fields[f] = converted[RegistryOf(t)][f]

\* What a cache holds looks into its own registry.
CacheKnowsRegistry ==
    \A r \in Registries : \A f \in Fields :
        converted[r][f] # NotConverted => converted[r][f].registry = r

\* What is registered was.
RegisteredTypes ==
    \A r \in Registries : \A m \in Models :
        registered[r][m] # 0 =>
            LET u == registered[r][m]
            IN  /\ u \in Usable /\ RegistryOf(u) = r
                /\ types[u].declared.model = m /\ types[u].declared.ends = "registered"

RegistryInv == TypeOK /\ FieldsAreCached /\ CacheKnowsRegistry /\ RegisteredTypes

(* And behind DeclarationsDecide, relative to RegistryInv.                 *)

\* No type that was registered for a model came after the one the registry has.
LastIsRegistered ==
    \A t \in DOMAIN types :
        types[t].declared.ends = "registered"
        => t <= registered[RegistryOf(t)][types[t].declared.model]

\* What a cache holds was converted by a definition of its registry that shows
\* the field, as that definition wants it.
CacheKnowsMaker ==
    \A r \in Registries : \A f \in Fields :
        converted[r][f] # NotConverted =>
            LET u == converted[r][f].by
            IN  /\ u \in DOMAIN types /\ RegistryOf(u) = r
                /\ f \in types[u].declared.fields
                /\ converted[r][f] = Converted(f, types[u].declared, u)
=============================================================================
