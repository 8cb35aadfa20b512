------------------------- MODULE RelationResolution -------------------------
(***************************************************************************)
(* How a field that is a relation gets its value: the resolvers converter.py *)
(* makes for foreign keys and one-to-one relations, DjangoListField, and   *)
(* get_node, for a target type whose get_queryset hides rows, or hides     *)
(* none from this client.  One root instance is resolved, any number of    *)
(* times (aliases), while other clients write.                             *)
(***************************************************************************)
CONSTANTS
    Targets,    \* rows of the related model, named by primary key
    KeyOf,      \* what a foreign key to a target holds: its primary key, or
                \* the value of the field that to_field names
    None

ASSUME TargetsAssumption ==
    /\ None \notin Targets
    /\ KeyOf \in [Targets -> Targets]
    /\ \A t, u \in Targets : KeyOf[t] = KeyOf[u] => t = u

\* The key is the primary key.
KeyIsPrimary == \A t \in Targets : KeyOf[t] = t

\* here: the row exists; visible: get_queryset lets it through; refers: its
\* own key to the root, for a relation that is followed backwards.
Row == [here : BOOLEAN, visible : BOOLEAN, refers : BOOLEAN]

\* A row as it was when it was read.
Instance == [of : Targets, visible : BOOLEAN]

\* queryset: the target type's get_queryset, if it is not the default one,
\* filters for this client or returns what it was given.  resolver:
\* resolve_<field> of the root's type; a bypass is own with
\* @bypass_get_queryset.
Field ==
    [kind : {"forward", "reverse", "list"}, queryset : {"default", "returned", "filtered"},
     resolver : {"default", "own", "bypass", "async"}]

VARIABLES
    rows,
    field,
    root,      \* the key it holds, and what Django's descriptor has cached
    pc,        \* "idle", or "resolver": the node is checked, the resolver next
    answer,    \* the last one: how it was found and the instances it shows
    moments    \* what the relation led to, at each moment of that resolution

vars == <<rows, field, root, pc, answer, moments>>
-----------------------------------------------------------------------------
\* get_queryset overridden; and whether a row passes it.
Custom == field.queryset # "default"
Passes(t) == field.queryset = "filtered" => rows[t].visible

Load(T) == {[of |-> t, visible |-> Passes(t)] : t \in T}
Shown == {i.of : i \in answer.shown}

RelatedBy(key) ==
    {t \in Targets : /\ rows[t].here
                     /\ IF field.kind = "forward" THEN KeyOf[t] = key ELSE rows[t].refers}

Related == RelatedBy(root.key)

\* The rows the relation leads to, for a client that get_queryset filters for.
Leading == {t \in Related : Passes(t)}

\* Django's descriptor: what it has cached, or the row, which it then caches
\* (a foreign key to a missing row raises and caches nothing).
ReadRelation == IF root.loaded THEN root.cached ELSE Load(Related)

Caches == root.loaded \/ field.kind = "reverse" \/ Related # {} \/ root.key = None

AfterRead ==
    IF field.kind # "list" /\ Caches
    THEN [root EXCEPT !.loaded = TRUE, !.cached = ReadRelation] ELSE root

\* get_node with the key of the root, which it takes for a primary key.
\* Mutant: it trusts the instance that select_related loaded.
GetNodeCached ==
    IF root.loaded THEN {i \in root.cached : i.visible}
    ELSE Load({t \in Targets : t = root.key /\ rows[t].here /\ Passes(t)})

GetNode == Load({t \in Targets : t = root.key /\ rows[t].here /\ Passes(t)})

\* setattr(root, field_name, node): the descriptor takes the node's key over.
\* Mutant: the check is made but its instance is not handed to the resolver.
RememberNothing(node) == root

Remember(node) == [key |-> KeyOf[node.of], loaded |-> TRUE, cached |-> {node}]

\* get_queryset(objects.filter(<reverse name>=root.pk)).get()
GetReverse == Load({t \in Targets : rows[t].here /\ rows[t].refers /\ Passes(t)})
-----------------------------------------------------------------------------
OneReferrer ==
    field.kind = "reverse" =>
        \A t, u \in Targets : rows[t].here /\ rows[u].here /\ rows[t].refers /\ rows[u].refers => t = u

\* The root has just been loaded, perhaps with its relation (select_related,
\* prefetch_related).
Init ==
    /\ rows \in [Targets -> Row] /\ field \in Field
    /\ OneReferrer
    /\ \E key \in {KeyOf[t] : t \in {u \in Targets : rows[u].here}} \cup {None} :
       \E loaded \in BOOLEAN :
         root = [key |-> key, loaded |-> loaded,
                 cached |-> IF loaded THEN Load(RelatedBy(key)) ELSE {}]
    /\ pc = "idle" /\ moments = {}
    /\ answer = [way |-> "resolver", shown |-> {}]

Answer(way, shown) == answer' = [way |-> way, shown |-> shown] /\ pc' = "idle"

\* The query of the field runs now.
Asks == moments' = {Leading} /\ UNCHANGED <<rows, field>>

\* bypass_get_queryset marks a resolver.
Bypassed == field.resolver = "bypass"

\* The resolver alone decides: get_queryset is the default one, is bypassed, or
\* the resolver is a coroutine.  One of the application's own may refuse.
ResolveUnchecked ==
    /\ pc = "idle" /\ field.kind \in {"forward", "reverse"}
    /\ Custom => Bypassed \/ field.resolver = "async"
    /\ Asks
    /\ \/ Answer("resolver", ReadRelation) /\ root' = AfterRead
       \/ field.resolver # "default" /\ Answer("resolver", {}) /\ UNCHANGED root

Checked == Custom /\ field.resolver \in {"default", "own"}

\* A foreign key is resolved by get_node; a resolver of the application's own
\* is then called with the node on the root.
ResolveForward ==
    /\ pc = "idle" /\ field.kind = "forward" /\ Checked
    /\ Asks
    /\ IF GetNode = {} \/ field.resolver = "default"
       THEN Answer("relation", GetNode) /\ UNCHANGED root
       ELSE /\ \E node \in GetNode : root' = Remember(node)
            /\ pc' = "resolver" /\ UNCHANGED answer

OwnResolver ==
    /\ pc = "resolver"
    /\ \/ Answer("relation", ReadRelation) /\ root' = AfterRead
       \/ Answer("resolver", {}) /\ UNCHANGED root
    /\ UNCHANGED <<rows, field, moments>>

\* The reverse of a one-to-one relation: no resolver is asked.
ResolveReverse ==
    /\ pc = "idle" /\ field.kind = "reverse" /\ Checked
    /\ Asks /\ UNCHANGED root
    /\ Answer("relation", GetReverse)

\* list_resolver: a queryset goes through get_queryset, @bypass or not, and one
\* that comes back unmodified keeps the rows prefetched with the root; for None
\* it takes all rows of the model; a list or a coroutine stays as it is.
ResolveList ==
    /\ pc = "idle" /\ field.kind = "list"
    /\ Asks /\ UNCHANGED root
    /\ \/ /\ field.resolver # "async"
          /\ \/ field.queryset = "filtered" /\ Answer("relation", Load(Leading))
             \/ field.queryset = "returned" /\ ~root.loaded /\ Answer("relation", Load(Leading))
             \/ field.queryset = "returned" /\ root.loaded /\ Answer("prefetched", root.cached)
             \/ field.queryset = "default" /\ Answer("resolver", ReadRelation)
       \/ /\ field.resolver \in {"own", "bypass"}
          /\ Answer("manager", Load({t \in Targets : rows[t].here /\ Passes(t)}))
       \/ field.resolver # "default" /\ Answer("resolver", ReadRelation)

\* Another client inserts, changes or deletes a row.
Write ==
    /\ UNCHANGED <<field, root, pc, answer>>
    /\ \E t \in Targets : \E r \in Row : rows' = [rows EXCEPT ![t] = r]
    /\ OneReferrer'
    /\ moments' = IF pc = "resolver" THEN moments \cup {Leading'} ELSE moments

Next ==
    \/ ResolveUnchecked \/ ResolveForward \/ OwnResolver \/ ResolveReverse \/ ResolveList
    \/ Write

Spec == Init /\ [][Next]_vars
-----------------------------------------------------------------------------
\* Every variable has its type.
TypeOK ==
    /\ rows \in [Targets -> Row] /\ field \in Field
    /\ root \in [key : Targets \cup {None}, loaded : BOOLEAN, cached : SUBSET Instance]
    /\ pc \in {"idle", "resolver"}
    /\ answer \in [way : {"relation", "prefetched", "manager", "resolver"}, shown : SUBSET Instance]
    /\ moments \subseteq SUBSET Targets

\* What get_queryset is to decide it decides for the very instance that is
\* shown: never one loaded before the check or after a change of the row, also
\* when a resolver of the application's own reads the relation from the root.
ShownPassed ==
    Custom /\ answer.way # "resolver" => \A i \in answer.shown : i.visible

\* A field whose type overrides get_queryset shows exactly what the relation
\* led to at one moment of its resolution, whoever writes meanwhile and whatever
\* instance earlier fields or select_related left cached on the root.  Only a
\* list that get_queryset returns as it was given shows what was prefetched
\* with the root, as docs/authorization.rst:153 says.
AnswerOfOneMoment ==
    pc = "idle" /\ answer.way = "relation" => Shown \in moments

\* Between the check of a node and the resolver the root holds the node.
NodeIsOnRoot ==
    pc = "resolver" =>
        /\ field.kind = "forward" /\ Checked
        /\ root.loaded
        /\ \E node \in Instance : root.cached = {node} /\ node.visible /\ {node.of} \in moments

\* What is cached was let through when it was read, if get_queryset lets every
\* row through.
CachedPassed == field.queryset = "returned" => \A i \in root.cached : i.visible

RelationInv == TypeOK /\ ShownPassed /\ AnswerOfOneMoment /\ NodeIsOnRoot /\ CachedPassed
-----------------------------------------------------------------------------
(* What a comment in the code says and the code does not do.               *)

\* The key that the root holds finds the row the relation leads to, also if it
\* is not the primary key.
KeyFindsNode == field.kind = "forward" => AnswerOfOneMoment
=============================================================================
