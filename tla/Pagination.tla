----------------------------- MODULE Pagination -----------------------------
(***************************************************************************)
(* The arithmetic of DjangoConnectionField (fields.py): what becomes of    *)
(* first, last, offset, after and before, which part of the iterable is    *)
(* sliced out, and what the page info says.  Positions count from 0.       *)
(*                                                                         *)
(* graphql_relay's connection_from_array_slice is not part of this         *)
(* repository; the operators marked external say what fields.py gets from  *)
(* it, and what a slice of a QuerySet or of a list does.                   *)
(***************************************************************************)
EXTENDS Integers

CONSTANTS
    None,      \* an argument or a limit that was not given
    Invalid    \* a cursor that does not decode to a position

ASSUME OptionAssumption == None \notin Int /\ Invalid \notin Int /\ None # Invalid

\* An argument Python takes for true.
Truthy(x) == x # None /\ x # 0

Least(x, y) == IF x < y THEN x ELSE y
Greatest(x, y) == IF x > y THEN x ELSE y

\* external: get_offset_with_default.
OffsetOr(cursor, default) == IF cursor \in {None, Invalid} THEN default ELSE cursor
-----------------------------------------------------------------------------
\* The assertions of connection_resolver.
\* Mutants: only `first` is held against the limit; the limit itself is refused.
RefusedByFirst(a, limit, enforce) ==
    \/ enforce /\ ~Truthy(a.first) /\ ~Truthy(a.last)
    \/ Truthy(limit) /\ Truthy(a.first) /\ a.first > limit
    \/ a.offset # None /\ a.before # None

RefusedAtLimit(a, limit, enforce) ==
    \/ enforce /\ ~Truthy(a.first) /\ ~Truthy(a.last)
    \/ Truthy(limit) /\ \E n \in {a.first, a.last} : Truthy(n) /\ n >= limit
    \/ a.offset # None /\ a.before # None

Refused(a, limit, enforce) ==
    \/ enforce /\ ~Truthy(a.first) /\ ~Truthy(a.last)
    \/ Truthy(limit) /\ \E n \in {a.first, a.last} : Truthy(n) /\ n > limit
    \/ a.offset # None /\ a.before # None

\* resolve_connection: an offset on top of a cursor that does not decode adds
\* one to None.
OffsetRaises(a) == Truthy(a.offset) /\ a.after = Invalid

\* The cursor `after` once the offset is in it: the offset counts from the row
\* behind `after`, or from the first.
\* Mutant: it counts from the row of the cursor itself.
AfterOffByOne(a) ==
    IF Truthy(a.offset) /\ a.after # None THEN a.offset + a.after - 1
    ELSE IF Truthy(a.offset) THEN a.offset - 1 ELSE a.after

After(a) ==
    IF Truthy(a.offset) THEN a.offset + OffsetOr(a.after, -1) ELSE a.after

\* Mutants: `after` may lie behind the end, or starts over there; no `after`
\* counts as the first row.
SliceStartUnbounded(a, n) == OffsetOr(After(a), -1) + 1
SliceStartOver(a, n) ==
    IF OffsetOr(After(a), -1) + 1 > n THEN 0 ELSE OffsetOr(After(a), -1) + 1
SliceStartAtFirst(a, n) == Least(OffsetOr(After(a), 0) + 1, n)

\* resolve_connection never starts behind the last row.
SliceStart(a, n) == Least(OffsetOr(After(a), -1) + 1, n)

FirstOrLimit(a, limit) ==
    IF limit # None /\ a.first = None /\ a.last = None THEN limit ELSE a.first
-----------------------------------------------------------------------------
(* external: connection_from_array_slice on what fields.py passes to it,   *)
(* n being the counted length of the iterable.                             *)

CountRaises(a, limit) ==
    \E k \in {FirstOrLimit(a, limit), a.last} : k # None /\ k < 0

StartOffset(a, n) ==
    LET after == OffsetOr(After(a), -1)
    IN  Greatest(SliceStart(a, n), IF 0 <= after /\ after < n THEN after + 1 ELSE 0)

EndOffset(a, n, limit) ==
    LET before == OffsetOr(a.before, n)
        end    == IF 0 <= before /\ before < n THEN before ELSE n
        first  == FirstOrLimit(a, limit)
    IN  IF first = None THEN end ELSE Least(end, StartOffset(a, n) + first)

\* Where the page starts once `last` has been applied.
PageStart(a, n, limit) ==
    IF a.last = None THEN StartOffset(a, n)
    ELSE Greatest(StartOffset(a, n), EndOffset(a, n, limit) - a.last)

HasPrevious(a, n, limit) ==
    /\ a.last # None
    /\ PageStart(a, n, limit) > IF After(a) = None THEN 0 ELSE OffsetOr(After(a), -1) + 1

HasNext(a, n, limit) ==
    /\ FirstOrLimit(a, limit) # None
    /\ EndOffset(a, n, limit) < OffsetOr(a.before, n)

(* external: the two slices.  A "queryset" is sliced by its own queries;   *)
(* one that was "prefetched" has its rows in memory: it still refuses a    *)
(* negative start, but its first slice is a list already, like that of a   *)
(* "list".                                                                 *)

\* A QuerySet refuses a negative bound; a list takes it.
SliceRaises(a, n, limit, kind) ==
    \/ kind # "list" /\ SliceStart(a, n) < 0
    \/ kind = "queryset" /\ EndOffset(a, n, limit) < SliceStart(a, n)

\* Where the page ends, m being the number of rows there are by then.  A
\* negative end makes a list count from its own end.
PageEnd(a, n, m, limit, kind) ==
    LET end == EndOffset(a, n, limit)
        length == n - SliceStart(a, n)
    IN  IF kind = "queryset" THEN Least(end, m)
        ELSE IF SliceStart(a, n) < 0 THEN 0
        ELSE IF end < SliceStart(a, n) THEN Greatest(end + length, SliceStart(a, n))
        ELSE end
=============================================================================
