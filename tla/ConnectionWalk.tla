--------------------------- MODULE ConnectionWalk ---------------------------
(***************************************************************************)
(* A client reads a whole DjangoConnectionField page by page: forward, by  *)
(* `first` (or the limit) and `after`, or backward, by `last` and `before`,*)
(* taking the cursor of each page for the next request.  Other clients add *)
(* rows and delete rows anywhere in the queryset's order (an order may be  *)
(* newest first), between the pages and between the two queries of one     *)
(* page.  The cursors are positions, so each of these moves the rows       *)
(* behind it.                                                              *)
(***************************************************************************)
EXTENDS Integers, Sequences, SequencesExt, Pagination

CONSTANTS
    MaxRows,     \* bound: rows there ever are
    MaxDeletes,  \* bound: deletions
    MaxSize      \* bound: page size and limit

ASSUME WalkAssumption == MaxRows \in Nat /\ MaxDeletes \in Nat /\ MaxSize \in Nat

VARIABLES
    direction,  \* forward or backward
    size,       \* first or last, or None for the limit's default
    limit,      \* RELAY_CONNECTION_MAX_LIMIT
    table,      \* the queryset's rows, in its order
    added,      \* number of rows there ever were; a row is its number
    deletes,    \* number of deletions
    phase,      \* the client's
    cursor,     \* endCursor or startCursor of the last page
    counted,    \* the length resolve_connection counted
    seen,       \* the rows of all pages, in the order of the pages
    moved,      \* history: the cursor's row has moved or gone since the last page
    shifted     \* history: a row may have moved from the seen side of a cursor
                \* to the side the walk is still to read

vars == <<direction, size, limit, table, added, deletes, phase, cursor, counted, seen,
          moved, shifted>>

query == <<direction, size, limit>>

Args ==
    IF direction = "forward"
    THEN [first |-> size, last |-> None, offset |-> None, after |-> cursor, before |-> None]
    ELSE [first |-> None, last |-> size, offset |-> None, after |-> None, before |-> cursor]
-----------------------------------------------------------------------------
Init ==
    /\ direction \in {"forward", "backward"}
    /\ size \in {None} \cup (1..MaxSize) /\ limit \in {None} \cup (1..MaxSize)
    /\ size # None /\ limit # None => size <= limit
    /\ direction = "backward" => size # None
    /\ added \in 0..MaxRows
    /\ table = [i \in 1..added |-> i]
    /\ deletes = 0 /\ phase = "asking" /\ cursor = None /\ counted = 0 /\ seen = <<>>
    /\ moved = FALSE /\ shifted = FALSE

\* connection_resolver, and resolve_connection up to count().
Count ==
    /\ phase = "asking"
    /\ IF Refused(Args, limit, FALSE) THEN phase' = "failed" /\ UNCHANGED counted
       ELSE phase' = "counted" /\ counted' = Len(table)
    /\ UNCHANGED <<query, table, added, deletes, cursor, seen, moved, shifted>>

\* The slice, its edges and its page info; the client asks on where there is
\* more, if the page has an edge to go on from.
Slice ==
    /\ phase = "counted"
    /\ LET start == PageStart(Args, counted, limit)
           end   == PageEnd(Args, counted, Len(table), limit, "queryset")
           rows  == SubSeq(table, start + 1, end)
           more  == IF direction = "forward" THEN HasNext(Args, counted, limit)
                    ELSE HasPrevious(Args, counted, limit)
       IN  IF SliceRaises(Args, counted, limit, "queryset")
           THEN phase' = "failed" /\ UNCHANGED <<seen, cursor>>
           ELSE /\ seen' = IF direction = "forward" THEN seen \o rows ELSE rows \o seen
                /\ cursor' = IF rows = <<>> THEN None
                             ELSE IF direction = "forward" THEN start + Len(rows) - 1
                             ELSE start
                /\ phase' = IF ~more THEN "done" ELSE IF rows = <<>> THEN "lost" ELSE "asking"
    /\ moved' = FALSE
    /\ UNCHANGED <<query, table, added, deletes, counted, shifted>>

\* A position (counted from 1) up to that of the cursor's row.
UpToCursor(i) == cursor # None /\ i <= cursor + 1

AddRow ==
    /\ added < MaxRows
    /\ added' = added + 1
    /\ \E i \in 1..(Len(table) + 1) :
         /\ table' = InsertAt(table, i, added')
         /\ moved' = (moved \/ UpToCursor(i))
         /\ shifted' = (shifted \/ (direction = "forward" /\ UpToCursor(i)))
    /\ UNCHANGED <<query, deletes, phase, cursor, counted, seen>>

DeleteRow ==
    /\ deletes < MaxDeletes
    /\ deletes' = deletes + 1
    /\ \E i \in DOMAIN table :
         /\ table' = RemoveAt(table, i)
         /\ moved' = (moved \/ UpToCursor(i))
         /\ shifted' = (shifted \/ (direction = "backward" /\ UpToCursor(i + 1)))
    /\ UNCHANGED <<query, added, phase, cursor, counted, seen>>

Client == Count \/ Slice

Next == Client \/ AddRow \/ DeleteRow

Spec == Init /\ [][Next]_vars

\* The client is the one that asks on, and each of its requests is answered.
FairSpec == Spec /\ WF_vars(Client)
-----------------------------------------------------------------------------
\* Every variable has its type.
TypeOK ==
    /\ direction \in {"forward", "backward"}
    /\ size \in {None} \cup (1..MaxSize) /\ limit \in {None} \cup (1..MaxSize)
    /\ table \in Seq(1..MaxRows) /\ seen \in Seq(1..MaxRows)
    /\ added \in 0..MaxRows /\ deletes \in 0..MaxDeletes /\ counted \in 0..MaxRows
    /\ phase \in {"asking", "counted", "done", "lost", "failed"}
    /\ cursor \in {None} \cup (0..MaxRows)
    /\ moved \in BOOLEAN /\ shifted \in BOOLEAN

\* A forward walk begins with the first row there is at its first slice; and
\* each later page goes on at the very row next to the last one seen, unless a
\* row was added or deleted up to the cursor since the page before: writes
\* behind the cursor, also between count and slice, open no gap at any seam.
PagesFit ==
    [][seen' # seen =>
        IF seen = <<>> THEN direction = "forward" => seen'[1] = table[1]
        ELSE moved \/ \E i \in 1..(Len(table) - 1) :
               IF direction = "forward"
               THEN table[i] = seen[Len(seen)] /\ table[i + 1] = seen'[Len(seen) + 1]
               ELSE table[i + 1] = seen[1] /\ table[i] = seen'[Len(seen') - Len(seen)]]_vars

\* A walk that nothing was deleted under and that was told there is no more has
\* come to the end: forward, if nothing was added in front of a cursor, it has
\* seen the rows from the first on, as many as were counted last; backward, the
\* first row, unless one was added in front of it since.
EndIsTheEnd ==
    deletes = 0 /\ phase = "done" =>
        IF direction = "forward" THEN shifted \/ seen = SubSeq(table, 1, counted)
        ELSE moved \/ counted = 0 \/ (seen # <<>> /\ seen[1] = table[1])

\* Going forward, rows that go away make a walk skip others but never show a
\* row twice: only a row added in front of a cursor can.  Going backward only a
\* row deleted in front of a cursor can.
NoRowTwice ==
    ~shifted => \A i, j \in DOMAIN seen : i # j => seen[i] # seen[j]

\* While nothing is deleted a walk never fails and never gets a page that has
\* more to come but no cursor to go on from, wherever rows are added.
NeverLost == deletes = 0 => phase \notin {"lost", "failed"}

\* A walk ends, deletions or not: at the last page, or without a cursor.
WalkEnds == <>(phase \in {"done", "lost"})
-----------------------------------------------------------------------------
(* The inductive invariant behind the safety properties.                   *)

Running == phase \in {"asking", "counted"}

Bounded == /\ size # None /\ limit # None => size <= limit
           /\ direction = "backward" => size # None

\* The rows of the table are among those ever added, none of them twice; there
\* is a cursor once rows were seen.
Numbered ==
    /\ table \in Seq(1..added) /\ seen \in Seq(1..added)
    /\ \A i, j \in DOMAIN table : i # j => table[i] # table[j]
    /\ Len(table) = added - deletes /\ counted <= added
    /\ Running => (cursor = None <=> seen = <<>>)
    /\ deletes = 0 /\ phase = "done" /\ direction = "backward" /\ counted # 0 => cursor # None

\* The positions a walk is still to read.
StillToRead(i) == IF direction = "forward" THEN i >= cursor + 2 ELSE i <= cursor

\* No row seen comes where the walk is still to read, wherever the writes have
\* moved the rows.
SeenIsBehind ==
    ~shifted /\ Running /\ cursor # None =>
        \A i \in DOMAIN seen, j \in DOMAIN table : StillToRead(j) => seen[i] # table[j]

\* Until something moves it, the row of the cursor is the last one seen, and it
\* is one of those counted.
CursorAtEdge ==
    Running /\ cursor # None /\ ~moved =>
        /\ seen # <<>> /\ cursor + 1 \in DOMAIN table
        /\ table[cursor + 1] = IF direction = "forward" THEN seen[Len(seen)] ELSE seen[1]
        /\ phase = "counted" => cursor < counted

\* While nothing is deleted, a cursor has more rows before it.
MoreToCome ==
    deletes = 0 /\ Running /\ cursor # None =>
        LET n == IF phase = "counted" THEN counted ELSE Len(table)
        IN  IF direction = "forward" THEN cursor + 1 < n ELSE 0 < cursor /\ cursor < n

\* While nothing is deleted and added in front of a cursor, a forward walk has
\* seen the rows up to the cursor.
SeenFromStart ==
    deletes = 0 /\ direction = "forward" /\ ~shifted =>
        /\ Len(seen) = IF cursor = None THEN 0 ELSE cursor + 1
        /\ Len(seen) <= Len(table)
        /\ \A i \in DOMAIN seen : seen[i] = table[i]

WalkInv ==
    /\ TypeOK /\ Bounded /\ Numbered /\ SeenIsBehind /\ CursorAtEdge /\ MoreToCome
    /\ SeenFromStart /\ EndIsTheEnd /\ NoRowTwice /\ NeverLost
=============================================================================
