--------------------------- MODULE MCFilterField ---------------------------
(***************************************************************************)
(* FilterField for TLC: every kind of filter, alone and in pairs in both   *)
(* orders, on four rows one of which the client must not see.              *)
(***************************************************************************)
EXTENDS FilterField

Generated(class, lookup, attr) ==
    [class |-> class, lookup |-> lookup, attr |-> attr, declared |-> FALSE,
     exclude |-> FALSE, required |-> FALSE, method |-> "none", input_type |-> NoType]

Declared(class, lookup, attr) == [Generated(class, lookup, attr) EXCEPT !.declared = TRUE]

MCFilters == {
    Generated("plain", "exact", "age"),
    Generated("plain", "exact", "choice"),
    Generated("plain", "isnull", "age"),
    Generated("csv", "in", "choice"),
    Generated("csv", "range", "age"),
    Generated("csv", "in", "owner"),
    Generated("id", "exact", "owner"),
    Generated("ids", "exact", "friends"),
    Declared("csv", "in", "choice"),
    [Declared("id", "exact", "owner") EXCEPT !.required = TRUE],
    [Declared("list", "in", "age") EXCEPT !.exclude = TRUE],
    [Declared("list", "in", "age") EXCEPT !.method = "custom", !.input_type = ListOf(Of("scalar"))],
    [Declared("array", "contains", "tags") EXCEPT !.input_type = ListOf(Of("scalar"))],
    [Declared("range", "range", "age") EXCEPT !.required = TRUE],
    [Declared("typed", "exact", "age") EXCEPT !.method = "only_first", !.input_type = Of("Boolean")],
    [Declared("typed", "exact", "choice") EXCEPT !.method = "only_first", !.input_type = Of("Boolean")],
    [Declared("typed", "in", "age") EXCEPT !.input_type = ListOf(Of("scalar"))],
    [Declared("array", "contains", "tags") EXCEPT !.input_type = ListOf(Of("scalar")), !.exclude = TRUE]}

MCFiltersets == {<<f>> : f \in MCFilters}
                \cup {<<f, g>> : <<f, g>> \in {p \in MCFilters \X MCFilters : p[1] # p[2]}}

MCRows == {
    [id |-> 1, age |-> 1, choice |-> 1, owner |-> 1, friends |-> {1, 2}, tags |-> {1}, visible |-> TRUE],
    [id |-> 2, age |-> 2, choice |-> 2, owner |-> 1, friends |-> {}, tags |-> {1, 2}, visible |-> TRUE],
    [id |-> 3, age |-> Missing, choice |-> 1, owner |-> 2, friends |-> {2}, tags |-> {}, visible |-> TRUE],
    [id |-> 4, age |-> 1, choice |-> 1, owner |-> 2, friends |-> {1}, tags |-> {1, 2}, visible |-> FALSE]}
=============================================================================
