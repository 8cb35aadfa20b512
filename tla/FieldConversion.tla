-------------------------- MODULE FieldConversion --------------------------
(***************************************************************************)
(* A model field in the schema: the type an object type gives it, with or  *)
(* without its choices as an enum, and the types a form or a serializer    *)
(* gives it as an input.  A client is shown the stored value and sends     *)
(* back what it was shown.  How enums are made and named is for the        *)
(* settings to say, when the type is defined.                              *)
(*                                                                         *)
(* A text is a sequence of parts that hold no "_", joined by it in a name: *)
(* <<"A", "1">> is A_1, and <<"">> the empty text.                         *)
(***************************************************************************)
EXTENDS GrapheneSettings, FiniteSets, TLC

CONSTANTS
    Parts,   \* what texts and names are made of
    Fields,  \* model fields: [kind, choices, blank, null]; a choice has its
             \* group, 0 outside of groups, the text of its value and what
             \* to_const makes of it
    Options  \* Meta.convert_choices_to_enum: "none", "true", "false",
             \* "listed" or "unlisted"

ASSUME NamingAssumption ==
    {"ENUM_CONVERT", "ENUM_CUSTOM_NAME", "ENUM_V2_NAMING"} \subseteq Attrs

Null == <<>>
Blank == <<"">>
Digits == {"0", "1", "2", "3", "4", "5", "6", "7", "8", "9"}

VARIABLES
    field, option,
    output,  \* the type of the field of the object type, NoType before
    styles,  \* the naming styles of the enums defined so far
    stored,  \* the value in the database
    shown,   \* what the API answered for it
    sent,    \* by which input it was sent back: [way, how]
    outcome  \* "none", "failed", "defined", "shown", "error", "no_input",
             \* "refused" or "accepted"

field_vars == <<field, option, output, styles, stored, shown, sent, outcome>>
vars == <<settings_vars, field_vars>>
-----------------------------------------------------------------------------
(* Names of enum members.                                                  *)

\* convert_choice_name, with assert_name: a name starts with no digit.
ConvertChoiceName(n) == IF n = Blank \/ n[1] \in Digits THEN <<"A">> \o n ELSE n

Numeral(n) == ToString(n)

\* get_choices: the number of names so far is appended until the name is new.
\* Mutant: it is appended once.
SuffixedOnce(n, names, count) == IF n \in names THEN Append(n, Numeral(count)) ELSE n

Suffixed(n, count, k) == n \o [i \in 1..k |-> Numeral(count)]

Distinguished(n, names, count) ==
    LET free == {k \in 0..count : Suffixed(n, count, k) \notin names}
    IN  Suffixed(n, count, CHOOSE k \in free : \A j \in free : k <= j)

\* Each group is named on its own, in the order of the choices.
Earlier(choices, i) == {j \in 1..i - 1 : choices[j].group = choices[i].group}

Names(choices) ==
    LET name[i \in DOMAIN choices] ==
            Distinguished(ConvertChoiceName(choices[i].const),
                          {name[j] : j \in Earlier(choices, i)},
                          Cardinality(Earlier(choices, i)))
    IN  name

\* Python's Enum drops the names of the form __A__ and refuses those of the form
\* _A_; GraphQL refuses what begins with __, but not _ alone.
Underscored(n) == Len(n) > 1 /\ n[1] = "" /\ n[2] = ""
Introspective(n) == Underscored(n) /\ Len(n) > 2
Dunder(n) ==
    LET k == Len(n) IN
    k > 4 /\ Underscored(n) /\ n[3] # "" /\ n[k - 2] # "" /\ n[k - 1] = "" /\ n[k] = ""
Reserved(n) == Len(n) > 2 /\ n[1] = "" /\ n[Len(n)] = "" /\ n[2] # "" /\ n[Len(n) - 1] # ""

\* The members: pairs of a name and a value.
Members(choices) ==
    LET names == Names(choices)
    IN  [i \in {j \in DOMAIN choices : ~Dunder(names[j])} |-> <<names[i], choices[i].text>>]

\* The choices as one list.
Ungrouped(choices) == [i \in DOMAIN choices |-> [choices[i] EXCEPT !.group = 0]]

\* Python's Enum takes no name twice.
MakesEnum(members) ==
    /\ \A i, j \in DOMAIN members : members[i][1] = members[j][1] => i = j
    /\ \A i \in DOMAIN members : ~Reserved(members[i][1])

\* validate_schema, before every request.
SchemaTakes(members) ==
    DOMAIN members # {} /\ \A i \in DOMAIN members : ~Introspective(members[i][1])

ValuesOf(members) == {members[i][2] : i \in DOMAIN members}
NameOf(members, v) == members[CHOOSE i \in DOMAIN members : members[i][2] = v][1]
-----------------------------------------------------------------------------
(* Types.                                                                  *)

NoType == [is |-> "none"]
Scalar(s, required) == [is |-> "scalar", scalar |-> s, required |-> required]
EnumType(members, required) == [is |-> "enum", members |-> members, required |-> required]

\* convert_django_field.
OutputScalar == [
    text |-> "String", uuid |-> "UUID", int |-> "Int", bigint |-> "BigInt", bool |-> "Boolean",
    decimal |-> "Decimal", float |-> "Float", duration |-> "Float", datetime |-> "DateTime",
    date |-> "Date", time |-> "Time", json |-> "JSONString", array |-> "List"]

\* convert_form_field, for the form field Django makes of the model field; a
\* nullable boolean is never required.
FormScalar == [
    text |-> "String", uuid |-> "UUID", int |-> "Int", bigint |-> "Int", bool |-> "Boolean",
    decimal |-> "Decimal", float |-> "Float", duration |-> "String", datetime |-> "DateTime",
    date |-> "Date", time |-> "Time", json |-> "String", array |-> "String"]

\* get_graphene_type_from_serializer_field, for the serializer's field.
SerializerScalar == [
    text |-> "String", uuid |-> "String", int |-> "Int", bigint |-> "Int", bool |-> "Boolean",
    decimal |-> "Decimal", float |-> "Float", duration |-> "String", datetime |-> "DateTime",
    date |-> "Date", time |-> "Time", json |-> "JSONString", array |-> "List"]

\* convert_django_field_with_choices: whether an enum may stay out.  Mutant: as
\* for any other field, only a null may.
NullOnly(f) == ~f.null

EnumRequired(f) == ~(f.blank \/ f.null)

ObjectType(f, converts) ==
    IF f.choices # <<>> /\ converts
    THEN EnumType(Members(f.choices), EnumRequired(f))
    ELSE Scalar(OutputScalar[f.kind], ~f.null)

\* construct_fields: the option, and the setting where there is none.
Converts(opt) ==
    IF opt = "none" THEN Answer(Library, "ENUM_CONVERT") ELSE opt \in {"true", "listed"}

\* generate_enum_name: what it asks the settings, and the style it picks.
Style ==
    IF Answer(Library, "ENUM_CUSTOM_NAME") # "None" THEN "custom"
    ELSE IF Answer(Library, "ENUM_V2_NAMING") THEN "v2" ELSE "default"

AskedForName ==
    {"ENUM_CUSTOM_NAME"} \cup IF Style = "custom" THEN {} ELSE {"ENUM_V2_NAMING"}

(* Inputs.                                                                 *)

TextsOf(choices) == {choices[i].text : i \in DOMAIN choices}
Texts == TextsOf(field.choices)
FormRequired == ~field.blank /\ field.kind # "bool"

\* fields_for_form.
FormType == Scalar(IF Texts # {} THEN "String" ELSE FormScalar[field.kind], FormRequired)

\* DjangoFormInputObjectType with an object_type; type() of a field that is
\* required raises.
FormInputType ==
    IF output.is = "enum" THEN [output EXCEPT !.is = "enum_back", !.required = FALSE]
    ELSE IF option = "false" /\ Texts # {}
    THEN IF output.required THEN NoType ELSE output
    ELSE FormType

\* convert_serializer_field: the choices as one list.  A schema that is refused
\* for their names has no such input.
SerializerType ==
    LET members == Members(Ungrouped(field.choices))
        required == ~(field.blank \/ field.null)
    IN  IF Texts = {} THEN Scalar(SerializerScalar[field.kind], required)
        ELSE IF MakesEnum(members) /\ SchemaTakes(members) THEN EnumType(members, required)
        ELSE NoType

Ways == {"form", "form_input", "serializer"}
InputType(way) ==
    CASE way = "form" -> FormType
      [] way = "form_input" -> FormInputType
      [] way = "serializer" -> SerializerType

Refused == <<"refused">>
Other == <<"other">>

\* The value of the member of that name.
ValueOf(members, n) ==
    LET named == {i \in DOMAIN members : members[i][1] = n}
    IN  IF named = {} THEN Refused ELSE members[CHOOSE i \in named : TRUE][2]

\* parse_value of the scalar that converts an enum's name back; a literal in
\* the query does not go through it.  Mutant: nor does a variable.
BackAsSent(members, n, how) == n

Back(members, n, how) == IF how = "variable" THEN ValueOf(members, n) ELSE n

\* Whether a scalar reads what another one wrote.
Reading(s, wrote, v, how) ==
    IF s = "String" /\ wrote = "List" THEN IF how = "variable" THEN Other ELSE Refused
    ELSE IF s = "String" /\ wrote = "Int" /\ how = "literal" THEN Refused
    ELSE IF s = "Int" /\ v = <<"big">> THEN Refused ELSE v

\* What the resolver is given.
Coerced(type, how) ==
    CASE shown = Null -> IF type.required THEN Refused ELSE Null
      [] shown # Null /\ type.is = "enum" -> ValueOf(type.members, shown)
      [] shown # Null /\ type.is = "enum_back" -> Back(type.members, shown, how)
      [] shown # Null /\ type.is = "scalar" ->
           Reading(type.scalar, IF output.is = "enum" THEN "String" ELSE output.scalar, shown, how)

\* Form and serializer validation (external): an empty text or null is empty.
Valid(way, v) ==
    CASE v = Refused -> FALSE
      [] v \in {Null, Blank} /\ way # "serializer" -> ~FormRequired
      [] v = Null /\ way = "serializer" -> field.null
      [] v = Blank /\ way = "serializer" -> field.blank
      [] v \notin {Refused, Null, Blank} -> Texts # {} => v \in Texts

\* What the form or the serializer saves.
Saved(way, v) ==
    IF v \in {Null, Blank} /\ way # "serializer" THEN IF field.null THEN Null ELSE Blank
    ELSE v
-----------------------------------------------------------------------------
\* The fields the model is about.  A choice has a name to begin with and a text
\* that is not one of the marks above, and an array has no choices.
Choice == [group : Nat, text : Seq(Parts) \ {Null, Refused}, const : Seq(Parts) \ {<<>>}]
Field == [kind : DOMAIN OutputScalar, choices : Seq(Choice), blank : BOOLEAN, null : BOOLEAN]

ASSUME FieldsAssumption ==
    /\ "A" \in Parts
    /\ \A f \in Fields :
         /\ f \in Field
         /\ f.choices # <<>> => f.kind # "array"
         /\ \A n \in 0..Len(f.choices) : Numeral(n) \in Parts \ {""}

\* The legal values of a model field.
Legal(f) ==
    (IF f.choices # <<>> THEN TextsOf(f.choices) \ {Blank}
     ELSE IF f.kind = "bigint" THEN {<<"small">>, <<"big">>} ELSE {<<"value">>})
    \cup (IF f.null THEN {Null} ELSE {})
    \cup (IF f.blank /\ f.kind = "text" THEN {Blank} ELSE {})

Init ==
    /\ SettingsInit
    /\ field = [kind |-> "none"] /\ option = "none" /\ output = NoType
    /\ styles = {} /\ stored = Null /\ shown = Null
    /\ sent = [way |-> "none", how |-> "none"] /\ outcome = "none"

\* generate_enum_name for a field: the custom name must import.
NameEnum(asked) ==
    /\ Read(Library, asked \cup AskedForName)
    /\ styles' = IF Answer(Library, "ENUM_CUSTOM_NAME") = "bad" THEN styles ELSE styles \cup {Style}

\* An object type of another model is defined, with an enum.
DefineOther ==
    /\ NameEnum({})
    /\ UNCHANGED <<GRAPHENE, views, field, option, output, stored, shown, sent, outcome>>

\* The object type of the field is defined, the field holding a legal value.
DefineType ==
    /\ outcome = "none"
    /\ \E f \in Fields, opt \in Options :
         LET asked == IF opt = "none" THEN {"ENUM_CONVERT"} ELSE {}
             type == ObjectType(f, Converts(opt))
         IN  /\ field' = f /\ option' = opt /\ stored' \in Legal(f)
             /\ IF type.is = "enum" THEN NameEnum(asked)
                ELSE Read(Library, asked) /\ UNCHANGED styles
             /\ IF type.is = "enum" /\ (Answer(Library, "ENUM_CUSTOM_NAME") = "bad"
                                        \/ ~MakesEnum(type.members))
                THEN outcome' = "failed" /\ UNCHANGED output
                ELSE outcome' = "defined" /\ output' = type
    /\ UNCHANGED <<GRAPHENE, views, shown, sent>>

\* The field is resolved: EnumValueField, and what the enum or the scalar can
\* write, if the schema is taken.
ShownAs(v) ==
    IF output.is # "enum" THEN v
    ELSE IF v \in {Null, Blank} \/ v \notin ValuesOf(output.members) THEN Null
    ELSE NameOf(output.members, v)

Misses(v) ==
    output.is = "enum" /\ (\/ ~SchemaTakes(output.members)
                           \/ v \notin ValuesOf(output.members) \cup {Null, Blank})

Show ==
    /\ outcome = "defined"
    /\ shown' = ShownAs(stored)
    /\ outcome' = IF \/ Misses(stored)
                     \/ shown' = Null /\ output.required
                     \/ shown' # Null /\ field.kind = "duration" /\ output.is # "enum"
                  THEN "error" ELSE "shown"
    /\ UNCHANGED <<settings_vars, field, option, output, styles, stored, sent>>

\* The client sends back what it was shown, as a variable or in the query.
SendBack ==
    /\ outcome = "shown"
    /\ \E way \in Ways, how \in {"variable", "literal"} :
         LET type == InputType(way)  v == Coerced(type, how) IN
         /\ sent' = [way |-> way, how |-> how]
         /\ IF type = NoType THEN outcome' = "no_input" /\ UNCHANGED stored
            ELSE IF Valid(way, v) THEN outcome' = "accepted" /\ stored' = Saved(way, v)
            ELSE outcome' = "refused" /\ UNCHANGED stored
    /\ UNCHANGED <<settings_vars, field, option, output, styles, shown>>

Next ==
    \/ SettingsNext /\ UNCHANGED field_vars
    \/ DefineOther \/ DefineType \/ Show \/ SendBack

Spec == Init /\ [][Next]_vars
-----------------------------------------------------------------------------
\* Whatever is overridden while types are defined, all enums are named in one
\* style.
OneNamingStyle == \A s, t \in styles : s = t

\* What makes it so: the library's object answers from one dictionary once it
\* named an enum, and an enum is named as that dictionary says.
StyleOf(d) ==
    IF Value(d, "ENUM_CUSTOM_NAME") # "None" THEN "custom"
    ELSE IF Value(d, "ENUM_V2_NAMING") THEN "v2" ELSE "default"

NamedFrom == \A s \in styles : \E d \in Dicts :
                 objects[Library].user = <<d>> /\ s = StyleOf(d)

NamingInv == SettingsInv /\ NamedFrom

\* A type is refused only for a naming function that does not import, for
\* choices in groups, which are named apart, or for a name Python's Enum
\* reserves; however alike the choices of one list are, they get their enum.
\* An input is refused only for such a name, for one of underscores, or for
\* choices kept out of enums on a field that is required.
DefinitionFailsOnlyIf ==
    LET reserved == \E i \in DOMAIN field.choices : Reserved(field.choices[i].const) IN
    /\ outcome = "failed" =>
         \/ Answer(Library, "ENUM_CUSTOM_NAME") = "bad"
         \/ reserved
         \/ \E i, j \in DOMAIN field.choices :
              /\ field.choices[i].group # field.choices[j].group
              /\ Names(field.choices)[i] = Names(field.choices)[j]
    /\ outcome = "no_input" =>
         \/ /\ sent.way = "serializer"
            /\ reserved \/ \E i \in DOMAIN field.choices : Underscored(field.choices[i].const)
         \/ sent.way = "form_input" /\ option = "false" /\ ~field.null

\* A legal value is shown, an empty text of an enum as null, but for a duration
\* and for choices that come to names of underscores: one that comes to __A__ is
\* no member, so its own value is not shown, and no other if there is no other
\* choice; what begins with __ otherwise, if only to tell two choices apart that
\* come to _, has the schema refused.
LegalValueShows ==
    LET names == Names(field.choices) IN
    outcome = "error" =>
        \/ field.kind = "duration"
        \/ \E i \in DOMAIN field.choices :
             /\ Underscored(field.choices[i].const)
             /\ \/ stored = field.choices[i].text
                \/ ~Dunder(names[i])
                \/ \A j \in DOMAIN field.choices : Dunder(names[j])

OneGroup(choices) == \A i, j \in DOMAIN choices : choices[i].group = choices[j].group

\* Input and output call the values by the same names, or both as they are.
OneVocabulary(by) ==
    IF output.is = "enum"
    THEN \/ by.way = "serializer" /\ OneGroup(field.choices)
         \/ by.way = "form_input" /\ by.how = "variable"
    ELSE by.way # "serializer" \/ Texts = {}

\* A value sent back as it was shown never becomes another value, if input and
\* output have one vocabulary; but a list given for the text of a form's array.
Same(v, w) == v = w \/ {v, w} \subseteq {Null, Blank}

SendingBackKeeps ==
    [][outcome' = "accepted" /\ OneVocabulary(sent') =>
         Same(stored', stored) \/ (field.kind = "array" /\ sent'.way # "serializer")]_vars

\* And it is accepted, but for a null in an input that has none, a big number,
\* and numbers and lists written into the query for a text.
SendingBackSucceeds ==
    outcome = "refused" /\ OneVocabulary(sent) =>
        \/ shown = Null /\ (IF sent.way = "serializer" THEN ~field.null ELSE ~field.blank)
        \/ shown = Blank /\ ~field.blank
        \/ shown = <<"big">>
        \/ sent.how = "literal" /\ sent.way # "serializer" /\ field.kind \in {"array", "int"}
-----------------------------------------------------------------------------
(* The inductive invariant behind DefinitionFailsOnlyIf, LegalValueShows,  *)
(* SendingBackSucceeds and SendingBackKeeps, relative to NamingInv.        *)

\* A definition failed for one of its two reasons, and the first one stands.
FailedForAReason ==
    outcome = "failed" =>
        \/ ~MakesEnum(Members(field.choices))
        \/ objects[Library].user # <<>> /\ Answer(Library, "ENUM_CUSTOM_NAME") = "bad"

\* A type that was made is a scalar, or an enum of the choices.
TypeIsMade ==
    outcome \notin {"none", "failed"} =>
        \/ output = Scalar(OutputScalar[field.kind], ~field.null)
        \/ /\ output = EnumType(Members(field.choices), EnumRequired(field))
           /\ field.choices # <<>> /\ MakesEnum(output.members)

\* A client was shown the stored value, which is legal, and judged by what it
\* sent back, if the input has a type.
ValueIsShown ==
    /\ outcome \in {"defined", "shown", "no_input", "refused"} => stored \in Legal(field)
    /\ outcome \in {"shown", "no_input", "refused"} => shown = ShownAs(stored) /\ ~Misses(stored)
    /\ outcome \in {"no_input", "refused"} =>
         LET type == InputType(sent.way) IN
         /\ sent \in [way : Ways, how : {"variable", "literal"}]
         /\ outcome = "no_input" <=> type = NoType
         /\ outcome = "refused" => ~Valid(sent.way, Coerced(type, sent.how))

ConversionInv ==
    /\ outcome \in {"none", "failed", "defined", "shown", "error", "no_input", "refused",
                    "accepted"}
    /\ outcome # "none" => field \in Fields
    /\ FailedForAReason /\ TypeIsMade /\ ValueIsShown /\ LegalValueShows
=============================================================================
