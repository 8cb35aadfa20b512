---------------------------- MODULE FilterField ----------------------------
(***************************************************************************)
(* DjangoFilterConnectionField: the arguments a filterset gives the schema,*)
(* and how one request's arguments are cleaned by the filterset's form and *)
(* narrow the queryset, filter after filter.  The queryset is lazy: rows   *)
(* may change between the last filter and the query.                       *)
(*                                                                         *)
(* A filter is a record: its class before replace_csv_filters, its lookup, *)
(* the model attribute it looks at, whether it is declared on the filterset*)
(* or generated from Meta.fields, exclude, required, its custom method and *)
(* the input type a TypedFilter may be given.                              *)
(***************************************************************************)
EXTENDS Integers, Sequences, FiniteSets, SequencesExt

CONSTANTS
    Filtersets,  \* the filtersets to check: sequences of filters
    Rows         \* rows the table may hold

\* GraphQL types as far as filters tell them apart.
Of(t) == [list |-> FALSE, of |-> t]
ListOf(t) == [list |-> TRUE, of |-> t.of]
NoType == Of("none")

\* Atoms of the input values: numbers, of which 0 is the empty string, 3 an ID
\* that does not decode and 4 an ID that decodes to a key that is no number.  An
\* enum's members are what convert_enum undoes.  A row may also hold a null.
Empty == 0
Undecodable == 3
Numberless == 4
Missing == -1
Atoms(t) == IF t.of = "ID" THEN 0..4 ELSE IF t.of = "scalar" THEN 0..2 ELSE {1, 2}

Null == [is |-> "null", of |-> <<>>, enum |-> FALSE]
Value(t, s) == [is |-> IF t.list THEN "list" ELSE "one", of |-> s, enum |-> t.of = "enum"]
Inputs(t) ==
    IF t.list THEN {Value(t, s) : s \in BoundedSeq(Atoms(t), 2) \cup {<<1, 1, 2>>}}
    ELSE {Value(t, <<a>>) : a \in Atoms(t)}

VARIABLES
    filterset,   \* field.filterset_class
    registered,  \* which models have a type when the arguments are first read
    iterable,    \* what the resolver returned
    table,       \* the rows
    input,       \* the request's argument for each filter
    phase,
    query,       \* the filters applied, with their values
    answer

vars == <<filterset, registered, iterable, table, input, phase, query, answer>>
request == <<filterset, registered, iterable, input>>
-----------------------------------------------------------------------------
Typed == {"typed", "list", "range", "array"}

\* replace_csv_filters: generated `in` and `range` filters take lists.
Class(f) ==
    IF f.class = "csv" /\ ~f.declared THEN IF f.lookup = "in" THEN "list" ELSE "range"
    ELSE f.class

\* get_field_type: the type of the model field, or of the related model's id,
\* if there is a type for the model.
OwnType == [age |-> Of("scalar"), choice |-> Of("enum"), tags |-> ListOf(Of("scalar"))]

ModelType(f) ==
    IF f.lookup = "isnull" THEN Of("Boolean")
    ELSE IF f.attr \in {"owner", "friends"}
    THEN IF "related" \in registered THEN Of("ID") ELSE NoType
    ELSE IF "own" \in registered THEN OwnType[f.attr] ELSE NoType

\* convert_form_field, for the form field of the model field or the filter.
FormType(f) ==
    IF f.class = "ids" THEN ListOf(Of("ID"))
    ELSE IF f.lookup = "isnull" THEN Of("Boolean")
    ELSE IF f.attr = "owner" THEN Of("ID") ELSE Of("scalar")

ArgumentType(f) ==
    LET guessed == IF f.declared /\ Class(f) \notin Typed THEN NoType ELSE ModelType(f)
        type == IF guessed = NoType THEN FormType(f) ELSE guessed
    IN  IF Class(f) \in Typed /\ f.input_type # NoType THEN f.input_type
        ELSE IF Class(f) \in {"list", "range"} THEN ListOf(type) ELSE type

\* The filters and rows the model is about.  A range is looked up by a filter
\* that cleans ranges, friends are filtered by several ids, tags by what they
\* contain, one value is compared with one value and `in` with several, list
\* filters are given lists (ListFilter.filter takes their length), and the method
\* that slices takes a flag.
Single == {"age", "choice", "owner"}

WellFormed(f) ==
    /\ f.attr \in Single \cup {"friends", "tags"}
    /\ f.attr \in Single => f.lookup \in {"exact", "in", "range", "isnull"}
    /\ f.attr = "owner" => f.lookup # "range"
    /\ f.attr = "friends" => f.lookup = "exact"
    /\ f.attr = "friends" <=> f.class = "ids"
    /\ f.attr = "tags" => f.lookup = "contains" /\ Class(f) # "list"
    /\ f.declared \in BOOLEAN /\ f.exclude \in BOOLEAN /\ f.required \in BOOLEAN
    /\ f.input_type.list \in BOOLEAN
    /\ f.lookup = "range" <=> Class(f) = "range"
    /\ f.class = "id" => f.attr = "owner" /\ f.lookup = "exact"
    /\ f.attr \in Single /\ f.lookup \in {"exact", "isnull"} =>
         Class(f) \notin {"list", "array"} /\ ~f.input_type.list
    /\ f.lookup = "in" =>
         Class(f) \in {"csv", "list"} \/ (f.class = "typed" /\ f.input_type.list)
    /\ \/ f.class = "array"
       \/ Class(f) \in {"list", "range"} /\ f.input_type # NoType
       => f.input_type.list
    /\ f.method = "only_first" => f.class = "typed" /\ f.input_type = Of("Boolean")

ASSUME FilterAssumption ==
    /\ \A fs \in Filtersets : Len(fs) \in Nat /\ DOMAIN fs = 1..Len(fs)
    /\ \A fs \in Filtersets : \A i \in DOMAIN fs : WellFormed(fs[i])
    /\ \A r \in Rows : r.id \in Int /\ r.visible \in BOOLEAN
                     /\ \A attr \in Single : r[attr] \in Int

\* convert_enum.  Mutant: only at the top level.
ConvertEnumOnTop(d) == IF d.is = "one" THEN [d EXCEPT !.enum = FALSE] ELSE d

ConvertEnum(d) == [d EXCEPT !.enum = FALSE]

\* django_filters' EMPTY_VALUES.
IsEmptyList(d) == d.is = "list" /\ d.of = <<>>
IsEmpty(d) == d.is = "null" \/ IsEmptyList(d) \/ (d.is = "one" /\ d.of = <<Empty>>)
-----------------------------------------------------------------------------
(* The form: which values a filter's field refuses.                        *)

\* GlobalIDFormField.clean.
BadId(a) == a \in {Empty, Undecodable}

\* Mutant: nothing is said of values that are not required.
RefusesNoId(f, d) == IF d.is = "one" THEN BadId(d.of[1]) ELSE TRUE

RefusesId(f, d) == IF IsEmpty(d) THEN f.required ELSE BadId(d.of[1])

\* GlobalIDMultipleChoiceField: an empty value is no choice, and anything else
\* must be a list of ids.
RefusesIds(f, d) ==
    IF IsEmpty(d) THEN f.required ELSE d.is # "list" \/ \E i \in DOMAIN d.of : BadId(d.of[i])

\* RangeField: only null is empty.  Mutant: Django's empty values are kept.
RefusesRangeUnlessEmpty(f, d) == IF IsEmpty(d) THEN f.required ELSE Len(d.of) # 2

RefusesRange(f, d) == IF d.is = "null" THEN f.required ELSE Len(d.of) # 2

Refuses(f, d) ==
    CASE Class(f) = "id" -> RefusesId(f, d)
      [] Class(f) = "ids" -> RefusesIds(f, d)
      [] Class(f) = "range" -> RefusesRange(f, d)
      [] Class(f) \notin {"id", "ids", "range"} -> f.required /\ IsEmpty(d)
-----------------------------------------------------------------------------
(* The filters.                                                            *)

\* Which values make a filter narrow the queryset: ListFilter.filter,
\* ArrayFilter.filter, the __call__ that replaces either when there is a method,
\* and Filter.filter.
ListNarrows(f, d) == d.is # "null" /\ ~(IsEmptyList(d) /\ f.exclude)
ArrayNarrows(d) == ~IsEmpty(d) \/ IsEmptyList(d)
MethodNarrows(d) == d.is # "null"

\* Mutant: a list filter takes an empty list for an absent argument.
NarrowsUnlessEmpty(f, d) == ~IsEmpty(d)

Narrows(f, d) ==
    CASE Class(f) \notin {"list", "array"} -> ~IsEmpty(d)
      [] Class(f) \in {"list", "array"} /\ f.method # "none" -> MethodNarrows(d)
      [] Class(f) = "list" /\ f.method = "none" -> ListNarrows(f, d)
      [] Class(f) = "array" /\ f.method = "none" -> ArrayNarrows(d)

\* The lookup the database evaluates.
Lookup(f, d, row) ==
    LET v == row[f.attr]  single == f.attr \in Single IN
    CASE f.attr = "friends" -> ToSet(d.of) \cap v # {}
      [] f.attr = "tags" -> ToSet(d.of) \subseteq v
      [] single /\ f.lookup = "isnull" -> (v = Missing) = (d.of[1] = 1)
      [] single /\ f.lookup = "exact" -> v = d.of[1]
      [] single /\ f.lookup = "in" -> v \in ToSet(d.of)
      [] single /\ f.lookup = "range" -> d.of[1] <= v /\ v <= d.of[2]

\* A custom method that slices the queryset, if it is asked to.
Slices(step) == step[1].method = "only_first" /\ step[2].of = <<1>>
First(rows) == {r \in rows : \A q \in rows : r.id <= q.id}

\* One filter of the filterset on the rows it is given.
Narrowed(rows, step) ==
    LET f == step[1]  d == step[2] IN
    IF ~Narrows(f, d) THEN rows
    ELSE IF f.method = "only_first" THEN IF Slices(step) THEN First(rows) ELSE rows
    ELSE {r \in rows : ~d.enum /\ (Lookup(f, d, r) # f.exclude)}

\* filterset.qs: all the filters, one after the other.
Filtered(rows, steps) ==
    LET after[i \in 0..Len(steps)] ==
            IF i = 0 THEN rows ELSE Narrowed(after[i - 1], steps[i])
    IN  after[Len(steps)]

\* An empty list leaves a list filter no rows, and is not looked up.
GivesNone(f, d) == Class(f) = "list" /\ f.method = "none" /\ IsEmptyList(d)

\* Whether a filter looks at rows after one that sliced the queryset.
AfterSlice(steps) ==
    \E i, j \in DOMAIN steps :
        /\ i < j /\ Slices(steps[i])
        /\ Narrows(steps[j][1], steps[j][2]) /\ ~GivesNone(steps[j][1], steps[j][2])
        /\ steps[j][1].method # "only_first"

\* A lookup on a relation takes primary keys, which are numbers: the raw ones,
\* or those that global ids decode to.
LooksAtKeys(f) ==
    f.attr \in {"owner", "friends"} /\ f.lookup # "isnull" /\ f.method # "only_first"
NoKey(f, a) == IF f.class \in {"id", "ids"} THEN a = Numberless
               ELSE a \in {Empty, Undecodable, Numberless}

BadKey(step) ==
    LET f == step[1]  d == step[2] IN
    LooksAtKeys(f) /\ Narrows(f, d) /\ \E a \in ToSet(d.of) : NoKey(f, a)
-----------------------------------------------------------------------------
Init ==
    /\ filterset \in Filtersets
    /\ registered \in SUBSET {"own", "related"}
    /\ iterable \in {"queryset", "list"}
    /\ table = Rows
    /\ input = <<>>
    /\ phase = "asked" /\ query = <<>> /\ answer = {}

\* The client's next argument, of the type the schema gives it.
GiveArgument ==
    /\ Len(input) < Len(filterset)
    /\ LET f == filterset[Len(input) + 1]
       IN  \E d \in Inputs(ArgumentType(f)) \cup (IF f.required THEN {} ELSE {Null}) :
              input' = Append(input, d)
    /\ UNCHANGED <<filterset, registered, iterable, table, phase, query, answer>>

Asked == phase = "asked" /\ Len(input) = Len(filterset)

\* resolve_queryset: filter_kwargs, is_valid, and filterset.qs, that is, the
\* filters in the filterset's order.
Steps == [i \in DOMAIN filterset |-> <<filterset[i], ConvertEnum(input[i])>>]

Invalid == \E i \in DOMAIN filterset : Refuses(filterset[i], ConvertEnum(input[i]))

\* is_valid is false, or building the querysets raises: on a sliced one, or on a
\* key that is no number.
Fails ==
    \/ iterable = "list" \/ Invalid
    \/ AfterSlice(Steps) \/ \E i \in DOMAIN Steps : BadKey(Steps[i])

Refuse ==
    /\ Asked /\ Fails
    /\ phase' = "refused"
    /\ UNCHANGED <<request, table, query, answer>>

Filter ==
    /\ Asked /\ ~Fails
    /\ phase' = "filtered" /\ query' = Steps
    /\ UNCHANGED <<request, table, answer>>

\* The connection reads the queryset: get_queryset of the node type, then the
\* filters.
Visible(rows) == {r \in rows : r.visible}

Evaluate ==
    /\ phase = "filtered"
    /\ phase' = "answered"
    /\ answer' = Filtered(Visible(table), query)
    /\ UNCHANGED <<request, table, query>>

\* Another client deletes a row.
DeleteRow ==
    /\ phase = "filtered" /\ table = Rows
    /\ \E r \in table : table' = table \ {r}
    /\ UNCHANGED <<request, phase, query, answer>>

Next == GiveArgument \/ Refuse \/ Filter \/ Evaluate \/ DeleteRow

Spec == Init /\ [][Next]_vars
-----------------------------------------------------------------------------
\* What a client asks of a row by an argument: nothing if it is null, an empty
\* text, or an empty list where the filter is not for lists; an empty list for
\* a list filter, that the value is in it, or that it is not.
AsksNothing(f, d) ==
    \/ d.is = "null" \/ f.method = "only_first"
    \/ d.is = "one" /\ d.of[1] = Empty
    \/ IsEmptyList(d) /\ Class(f) \notin {"list", "array"}

Matches(f, d, row) ==
    LET v == row[f.attr] IN
    \/ f.attr = "friends" /\ ToSet(d.of) \cap v # {}
    \/ f.attr = "tags" /\ ToSet(d.of) \subseteq v
    \/ f.lookup = "range" /\ v \in d.of[1]..d.of[2]
    \/ f.lookup = "isnull" /\ (d.of[1] = 1 <=> v = Missing)
    \/ f.lookup \in {"in", "exact"} /\ f.attr \notin {"friends", "tags"} /\ v \in ToSet(d.of)

Holds(f, d, row) == AsksNothing(f, d) \/ (Matches(f, d, row) <=> ~f.exclude)

\* The rows of the answer are those of the table at the query, visible to the
\* client, of which every argument holds, whatever the filters' classes, their
\* order and the type the argument got in the schema; and the first of them
\* when the slicing filter is asked for.
Described(rows) ==
    LET wanted == {r \in rows : r.visible /\ \A i \in DOMAIN filterset :
                                   Holds(filterset[i], input[i], r)}
        first == \E i \in DOMAIN filterset :
                   filterset[i].method = "only_first" /\ input[i].of = <<1>>
    IN  IF first THEN First(wanted) ELSE wanted

AnswerIsDescribed == [][phase' = "answered" => answer' = Described(table)]_vars

\* An argument that means nothing never becomes a query without it: an id that
\* does not decode, a key that is no number, a range without two ends, a missing
\* required value.
Meaningless(f, d) ==
    \/ f.class \in {"id", "ids"} /\ \E a \in ToSet(d.of) : a = Undecodable
    \/ f.class = "ids" /\ d.is = "list" /\ Empty \in ToSet(d.of)
    \/ f.lookup = "range" /\ d.is # "null" /\ Len(d.of) # 2
    \/ f.required /\ IsEmpty(d)
    \/ LooksAtKeys(f) /\ ~AsksNothing(f, d) /\ \E a \in ToSet(d.of) : NoKey(f, a)

MeaninglessIsRefused ==
    phase \in {"filtered", "answered"} =>
        \A i \in DOMAIN filterset : ~Meaningless(filterset[i], input[i])

\* Whatever else suits the argument's type in the schema is served.  Two things
\* are not: a filter after one that slices, but for a list filter's empty list;
\* and a filter over several ids whose argument became a single ID because the
\* related model had a type by then.
MeaningfulIsServed ==
    phase = "refused" /\ iterable = "queryset" =>
        \E i \in DOMAIN filterset :
            \/ Meaningless(filterset[i], input[i])
            \/ \E j \in i + 1..Len(filterset) :
                 /\ filterset[i].method = "only_first" /\ input[i].of = <<1>>
                 /\ ~AsksNothing(filterset[j], input[j])
                 /\ ~GivesNone(filterset[j], input[j])
            \/ filterset[i].class = "ids" /\ "related" \in registered /\ ~IsEmpty(input[i])
-----------------------------------------------------------------------------
(* The inductive invariant behind all three.                               *)

Values == [is : {"null", "one", "list"}, of : Seq(0..4), enum : BOOLEAN]

Arguments == [i \in DOMAIN filterset |-> Inputs(ArgumentType(filterset[i])) \cup {Null}]

\* What the request has, and that the filterset judged it.
Requested ==
    /\ filterset \in Filtersets /\ registered \subseteq {"own", "related"}
    /\ iterable \in {"queryset", "list"} /\ table \subseteq Rows
    /\ input \in Seq(Values) /\ Len(input) <= Len(filterset)
    /\ \A i \in DOMAIN input : input[i] \in Arguments[i]

Judged ==
    /\ phase \in {"asked", "refused", "filtered", "answered"}
    /\ phase # "asked" => Len(input) = Len(filterset)
    /\ phase = "refused" => Fails
    /\ phase \in {"filtered", "answered"} => ~Fails /\ query = Steps

FilterInv == Requested /\ Judged
=============================================================================
