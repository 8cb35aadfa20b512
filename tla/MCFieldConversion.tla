------------------------- MODULE MCFieldConversion -------------------------
(***************************************************************************)
(* FieldConversion for TLC: a field of every kind, and choices whose names *)
(* collide, are reserved, or are other choices' values, in one list and in *)
(* groups; four dictionaries and an override by each.                      *)
(***************************************************************************)
EXTENDS FieldConversion

MCDefaults == [ENUM_CONVERT |-> TRUE, ENUM_CUSTOM_NAME |-> "None",
               ENUM_V2_NAMING |-> FALSE, SCHEMA |-> "None"]

MCDicts == {
    NoDict,
    [ENUM_V2_NAMING |-> TRUE, SCHEMA |-> "bad"],
    [ENUM_CUSTOM_NAME |-> "naming", ENUM_CONVERT |-> FALSE, SCHEMA |-> "schema"],
    [ENUM_CUSTOM_NAME |-> "bad"]}

Offered(text, const) == [group |-> 0, text |-> text, const |-> const]
In(g, choice) == [choice EXCEPT !.group = g]

MCParts == {"", "a", "A", "(a)", "+", "-", "0", "1", "2", "3", "4"}

\* "a", "A", "A_1", "A_2", 1, 2, "(a)", "", "__a__", "+" and "-".
a == Offered(<<"a">>, <<"A">>)
A == Offered(<<"A">>, <<"A">>)
A_1 == Offered(<<"A", "1">>, <<"A", "1">>)
A_2 == Offered(<<"A", "2">>, <<"A", "2">>)
one == Offered(<<"1">>, <<"1">>)
two == Offered(<<"2">>, <<"2">>)
bracketed == Offered(<<"(a)">>, <<"", "A", "">>)
empty == Offered(<<"">>, <<"">>)
dunder == Offered(<<"", "", "a", "", "">>, <<"", "", "A", "", "">>)
plus == Offered(<<"+">>, <<"", "">>)
minus == Offered(<<"-">>, <<"", "">>)

ChoiceLists == {
    <<a, A>>, <<a, A, A_1>>, <<a, A_2, A>>, <<A, a, A_1, one>>,
    <<a, bracketed>>, <<a, empty>>, <<a, A_1, In(1, A)>>, <<A_1, In(1, a), In(1, A)>>,
    <<a, In(1, one)>>, <<In(1, a), A, In(1, A_1), one>>,
    <<a, dunder>>, <<dunder>>, <<plus, minus>>}

FieldOf(kind, choices, blank, null) ==
    [kind |-> kind, choices |-> choices, blank |-> blank, null |-> null]

MCFields ==
    {FieldOf("text", c, blank, null) : c \in ChoiceLists, blank \in BOOLEAN, null \in BOOLEAN}
    \cup {FieldOf("int", <<one, two>>, null, null) : null \in BOOLEAN}
    \cup {FieldOf(kind, <<>>, null, null) : kind \in DOMAIN OutputScalar, null \in BOOLEAN}
    \cup {FieldOf("text", <<>>, blank, TRUE) : blank \in BOOLEAN}

\* Bound: once the field has its type no step reads what a settings object has
\* not answered yet, so the settings rest; and its type is defined before any
\* override, the enums of other types at any time.
MCNext ==
    \/ outcome = "none" /\ SettingsNext /\ UNCHANGED field_vars
    \/ outcome = "none" /\ DefineOther
    \/ Len(objects) = 1 /\ views = 0 /\ DefineType
    \/ Show \/ SendBack

MCSpec == Init /\ [][MCNext]_vars
=============================================================================
