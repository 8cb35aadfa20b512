-------------------------- MODULE ConnectionField --------------------------
(***************************************************************************)
(* One resolution of a DjangoConnectionField: connection_resolver checks   *)
(* the arguments, resolve_connection counts the iterable and slices it.    *)
(* On a QuerySet these are two queries, and other clients' transactions    *)
(* may commit in between; one that was prefetched, like a list, has its    *)
(* rows in memory.                                                         *)
(***************************************************************************)
EXTENDS Integers, Sequences, SequencesExt, FiniteSets, Pagination

CONSTANTS
    MaxRows,    \* bound: rows at first, and positions a cursor can name
    MaxCount    \* bound: first, last, offset and the limit

ASSUME FieldAssumption == MaxRows \in Nat /\ MaxCount \in Nat

Counts == {None} \cup (-1..MaxCount)
Cursors == {None, Invalid} \cup (0..MaxRows)
Args == [first : Counts, last : Counts, offset : Counts, after : Cursors, before : Cursors]

\* RELAY_CONNECTION_MAX_LIMIT and RELAY_CONNECTION_ENFORCE_FIRST_OR_LAST, or
\* the field's own max_limit and enforce_first_or_last.
Limits == {None} \cup (0..MaxCount)

\* Rows have numbers; the last is the one other clients may add.
Rows == 1..(MaxRows + 1)
Tables == {[i \in 1..k |-> i] : k \in 0..MaxRows}

VARIABLES
    limit, enforce,   \* the field's settings
    kind,             \* what the resolver returned
    args,             \* the client's arguments
    table,            \* the rows, in the iterable's order
    counted,          \* the rows at the moment they were counted
    phase,
    page              \* the rows of the edges, and the page info

vars == <<limit, enforce, kind, args, table, counted, phase, page>>

settings == <<limit, enforce, kind, args>>

\* A queryset, one whose rows were prefetched, or a list.
Kinds == {"queryset", "prefetched", "list"}

NoPage == [start |-> 0, rows |-> <<>>, previous |-> FALSE, next |-> FALSE]
-----------------------------------------------------------------------------
Init ==
    /\ limit \in Limits /\ enforce \in BOOLEAN
    /\ kind \in Kinds
    /\ args \in Args
    /\ table \in Tables
    /\ counted = <<>> /\ phase = "asked" /\ page = NoPage

\* connection_resolver's assertions fail.
Refuse ==
    /\ phase = "asked"
    /\ Refused(args, limit, enforce)
    /\ phase' = "refused"
    /\ UNCHANGED <<settings, table, counted, page>>

\* resolve_connection up to count() or len().
Count ==
    /\ phase = "asked"
    /\ ~Refused(args, limit, enforce)
    /\ IF OffsetRaises(args) THEN phase' = "raised" /\ UNCHANGED counted
       ELSE phase' = "counted" /\ counted' = table
    /\ UNCHANGED <<settings, table, page>>

\* The page of an iterable of which n rows were counted.
PageOf(n) ==
    LET start == PageStart(args, n, limit)
        end   == PageEnd(args, n, Len(table), limit, kind)
    IN  [start |-> start, rows |-> SubSeq(table, start + 1, end),
         previous |-> HasPrevious(args, n, limit), next |-> HasNext(args, n, limit)]

\* The slice, evaluated while the edges are made.
Slice ==
    /\ phase = "counted"
    /\ LET n == Len(counted)
       IN  IF CountRaises(args, limit) \/ SliceRaises(args, n, limit, kind)
           THEN phase' = "raised" /\ UNCHANGED page
           ELSE phase' = "answered" /\ page' = PageOf(n)
    /\ UNCHANGED <<settings, table, counted>>

\* Another client adds a row or deletes one, anywhere in the queryset's order,
\* while the field is resolved; what is in memory stays as it is.
AddRow ==
    /\ phase = "counted" /\ kind = "queryset"
    /\ \A i \in DOMAIN table : table[i] # MaxRows + 1
    /\ \E i \in 1..(Len(table) + 1) : table' = InsertAt(table, i, MaxRows + 1)
    /\ UNCHANGED <<settings, counted, phase, page>>

DeleteRow ==
    /\ phase = "counted" /\ kind = "queryset"
    /\ \E i \in DOMAIN table : table' = RemoveAt(table, i)
    /\ UNCHANGED <<settings, counted, phase, page>>

Next == Refuse \/ Count \/ Slice \/ AddRow \/ DeleteRow

Spec == Init /\ [][Next]_vars
-----------------------------------------------------------------------------
\* Every variable has its type.
TypeOK ==
    /\ limit \in Limits /\ enforce \in BOOLEAN /\ kind \in Kinds
    /\ args \in Args
    /\ table \in Seq(Rows) /\ counted \in Seq(Rows)
    /\ phase \in {"asked", "refused", "counted", "raised", "answered"}
    /\ page.start \in Int /\ page.rows \in Seq(Rows)
    /\ page.previous \in BOOLEAN /\ page.next \in BOOLEAN

\* The rows the arguments describe, after Relay's algorithm: those between the
\* cursors, an offset added to the first, of these the first ones or as many as
\* the limit, and of these the last ones.
LowerBound == OffsetOr(args.after, -1) + (IF args.offset = None THEN 0 ELSE args.offset)

Between(n) == {p \in 0..(n - 1) : p > LowerBound /\ p < OffsetOr(args.before, n)}

First == IF args.first = None /\ args.last = None THEN limit ELSE args.first

Described(n) ==
    LET ahead == {p \in Between(n) :
                    First = None \/ Cardinality({q \in Between(n) : q < p}) < First}
    IN  {p \in ahead :
            args.last = None \/ Cardinality({q \in ahead : q > p}) < args.last}

\* A `before` in front of the first row behind `after`: a queryset refuses it,
\* and rows in memory are then counted from their end (fields.py:176).
CrossedCursors == args.before \notin {None, Invalid} /\ LowerBound >= args.before

\* Rows that still begin with those that were counted, whatever was added
\* behind them, yield the page the arguments describe, in order: of a queryset
\* whenever it answers, of rows in memory unless the cursors are crossed, and
\* of a list unless a negative offset leads in front of its first row.
PageIsDescribed ==
    phase = "answered"
        /\ (kind = "queryset" \/ ~CrossedCursors)
        /\ (kind = "list" => LowerBound >= -1)
        /\ Len(counted) <= Len(table) /\ SubSeq(table, 1, Len(counted)) = counted
    => LET shown == {page.start + i - 1 : i \in DOMAIN page.rows}
       IN  /\ shown = Described(Len(counted))
           /\ \A i \in DOMAIN page.rows : page.rows[i] = counted[page.start + i]

\* A page has no more rows than the limit, whatever happened between count and
\* slice and whichever of the arguments were given: crossed cursors, which only
\* rows in memory answer, and a `first` or `last` beside a limit of zero, which
\* nothing is held against (fields.py:212), are the exceptions.
LimitRespected ==
    phase = "answered" /\ limit # None
        /\ (limit = 0 => args.first = None /\ args.last = None)
        /\ (kind = "queryset" \/ ~CrossedCursors)
    => Len(page.rows) <= limit

\* Legal arguments are answered: the field raises only for a negative number,
\* an offset on a broken cursor, or, over a queryset, crossed cursors.
LegalArgumentsAreServed ==
    phase = "raised" =>
        \/ \E k \in {args.first, args.last, args.offset} : k # None /\ k < 0
        \/ args.after = Invalid /\ args.offset # None
        \/ kind = "queryset" /\ CrossedCursors

\* Page info: a page cut by `first` or the limit alone has a next page, and one
\* cut by `last` alone a previous one, exactly if it left out rows between the
\* cursors on that side.  A `before` behind the last row is beyond this, and so
\* is a list, which may begin in front of its first row.
PageInfoIsTrue ==
    LET n == Len(counted)
    IN  phase = "answered" /\ kind # "list" /\ OffsetOr(args.before, n) <= n =>
          /\ First # None /\ args.last = None =>
               (page.next <=> \E p \in Between(n) : \A q \in Described(n) : p > q)
          /\ args.last # None /\ args.first = None =>
               (page.previous <=> \E p \in Between(n) : \A q \in Described(n) : p < q)
-----------------------------------------------------------------------------
(* The inductive invariant behind TypeOK and LimitRespected.               *)

\* Only accepted arguments come to the slice, and rows in memory do not change.
Accepted == phase \in {"counted", "answered"} => ~Refused(args, limit, enforce)
ListIsFixed == phase = "counted" /\ kind # "queryset" => table = counted

FieldInv == TypeOK /\ Accepted /\ ListIsFixed /\ LimitRespected

\* An answered field shows the page of the rows there were at the slice; this
\* and LegalArgumentsAreServed are inductive relative to FieldInv.
PageMade ==
    phase = "answered" =>
        /\ page = PageOf(Len(counted)) /\ ~CountRaises(args, limit)
        /\ ~SliceRaises(args, Len(counted), limit, kind)
=============================================================================
