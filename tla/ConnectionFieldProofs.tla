----------------------- MODULE ConnectionFieldProofs -----------------------
(***************************************************************************)
(* Theorems about ConnectionField, for any number of rows and any limit.   *)
(***************************************************************************)
EXTENDS ConnectionField, SequenceTheorems, FiniteSetTheorems, TLAPS

\* The window stays within the iterable.
LEMMA WindowBounds ==
    ASSUME NEW a \in Args, NEW n \in Nat, NEW lim \in Limits, ~CountRaises(a, lim)
    PROVE  /\ OffsetOr(After(a), -1) \in Int
           /\ SliceStart(a, n) \in Int /\ SliceStart(a, n) <= n
           /\ StartOffset(a, n) \in 0..n
           /\ EndOffset(a, n, lim) \in 0..n
           /\ PageStart(a, n, lim) \in 0..n
<1> USE OptionAssumption, FieldAssumption
<1>1. OffsetOr(a.after, -1) \in Int /\ OffsetOr(a.before, n) \in Nat
  BY DEF OffsetOr, Args, Cursors
<1>2. OffsetOr(After(a), -1) \in Int
  BY <1>1 DEF After, OffsetOr, Truthy, Args, Counts, Cursors
<1>3. SliceStart(a, n) \in Int /\ SliceStart(a, n) <= n
  BY <1>2 DEF SliceStart, Least
<1>4. StartOffset(a, n) \in 0..n
  BY <1>2, <1>3 DEF StartOffset, Greatest
<1>5. FirstOrLimit(a, lim) = None \/ FirstOrLimit(a, lim) \in Nat
  BY DEF CountRaises, FirstOrLimit, Args, Counts, Limits
<1>6. EndOffset(a, n, lim) \in 0..n
  BY <1>1, <1>4, <1>5 DEF EndOffset, Least
<1>7. a.last = None \/ a.last \in Nat
  BY DEF CountRaises, Args, Counts
<1>8. PageStart(a, n, lim) \in 0..n
  BY <1>4, <1>6, <1>7 DEF PageStart, Greatest
<1>9. QED  BY <1>2, <1>3, <1>4, <1>6, <1>8

\* Whatever the arguments, the window is at most as wide as the limit: `first`
\* and `last` have been held against it, unless it is zero, and without both it
\* is the `first`.
LEMMA WindowLimited ==
    ASSUME NEW a \in Args, NEW n \in Nat, NEW lim \in Limits, NEW enf \in BOOLEAN,
           lim # None, lim = 0 => a.first = None /\ a.last = None,
           ~Refused(a, lim, enf), ~CountRaises(a, lim)
    PROVE  EndOffset(a, n, lim) - PageStart(a, n, lim) <= lim
<1> USE OptionAssumption, FieldAssumption
<1>1. lim \in Nat  BY DEF Limits
<1>2. /\ StartOffset(a, n) \in Int /\ EndOffset(a, n, lim) \in Int
      /\ StartOffset(a, n) >= 0
  BY WindowBounds
<1>3. CASE a.last # None
  <2>1. a.last \in Nat  BY <1>3 DEF CountRaises, Args, Counts
  <2>2. a.last <= lim  BY <1>1, <1>3, <2>1 DEF Refused, Truthy
  <2>3. QED  BY <1>1, <1>2, <1>3, <2>1, <2>2 DEF PageStart, Greatest
<1>4. CASE a.last = None
  <2>1. FirstOrLimit(a, lim) \in Nat /\ FirstOrLimit(a, lim) <= lim
    <3>1. CASE a.first = None  BY <1>1, <1>4, <3>1 DEF FirstOrLimit
    <3>2. CASE a.first # None
      <4>1. FirstOrLimit(a, lim) = a.first  BY <3>2 DEF FirstOrLimit
      <4>2. a.first \in Nat  BY <3>2, <4>1 DEF CountRaises, Args, Counts
      <4>3. a.first <= lim  BY <1>1, <3>2, <4>2 DEF Refused, Truthy
      <4>4. QED  BY <4>1, <4>2, <4>3
    <3>3. QED  BY <3>1, <3>2
  <2>2. EndOffset(a, n, lim) <= StartOffset(a, n) + FirstOrLimit(a, lim)
    <3>1. \A x, y \in Int : Least(x, y) <= y  BY DEF Least
    <3>2. OffsetOr(a.before, n) \in Int  BY DEF OffsetOr, Args, Cursors
    <3>3. FirstOrLimit(a, lim) # None  BY <2>1
    <3>4. QED  BY <1>2, <2>1, <3>1, <3>2, <3>3 DEF EndOffset
  <2>3. QED  BY <1>1, <1>2, <1>4, <2>1, <2>2 DEF PageStart
<1>5. QED  BY <1>3, <1>4

\* The arguments before the limit is applied: `after` and the offset are one
\* position, whichever of them were given.
LEMMA LowerBoundIsAfter ==
    ASSUME args \in Args
    PROVE  LowerBound \in Int /\ OffsetOr(After(args), -1) = LowerBound
<1> USE OptionAssumption, FieldAssumption
<1>1. OffsetOr(args.after, -1) \in Int  BY DEF OffsetOr, Args, Cursors
<1>2. args.offset = None \/ args.offset \in Int  BY DEF Args, Counts
<1>3. CASE Truthy(args.offset)
  <2>1. args.offset \in Int  BY <1>2, <1>3 DEF Truthy
  <2>2. After(args) = args.offset + OffsetOr(args.after, -1)  BY <1>3 DEF After
  <2>3. OffsetOr(After(args), -1) = After(args)  BY <1>1, <2>1, <2>2 DEF OffsetOr
  <2>4. QED  BY <1>1, <1>3, <2>1, <2>2, <2>3 DEF LowerBound, Truthy
<1>4. CASE ~Truthy(args.offset)
  BY <1>1, <1>4 DEF After, Truthy, LowerBound
<1>5. QED  BY <1>3, <1>4

\* Where the window of n counted rows begins and ends, in terms of the bounds
\* the arguments describe.
LEMMA WindowIs ==
    ASSUME args \in Args, limit \in Limits, NEW n \in Nat, ~CountRaises(args, limit)
    PROVE  LET lo == Greatest(0, LowerBound + 1)
               hi == Least(n, OffsetOr(args.before, n))
           IN  /\ lo \in Nat /\ hi \in 0..n
               /\ Between(n) = lo..(hi - 1)
               /\ SliceStart(args, n) = Least(LowerBound + 1, n)
               /\ StartOffset(args, n) = Least(lo, n)
               /\ EndOffset(args, n, limit) =
                    IF First = None THEN hi ELSE Least(hi, Least(lo, n) + First)
               /\ First = None \/ First \in Nat
               /\ First = FirstOrLimit(args, limit)
<1> USE OptionAssumption, FieldAssumption
<1> DEFINE lo == Greatest(0, LowerBound + 1)
           B  == OffsetOr(args.before, n)
           hi == Least(n, B)
<1>1. LowerBound \in Int /\ OffsetOr(After(args), -1) = LowerBound
  BY LowerBoundIsAfter
<1>2. B \in Nat  BY DEF OffsetOr, Args, Cursors
<1>3. lo \in Nat /\ hi \in 0..n  BY <1>1, <1>2 DEF Greatest, Least
<1> HIDE DEF B
<1>4. Between(n) = lo..(hi - 1)
  <2>1. \A p \in 0..(n - 1) : p > LowerBound /\ p < B <=> p \in lo..(hi - 1)
    BY <1>1, <1>2 DEF Greatest, Least
  <2>2. lo..(hi - 1) \subseteq 0..(n - 1)  BY <1>3
  <2>3. Between(n) = {p \in 0..(n - 1) : p > LowerBound /\ p < B}  BY DEF Between, B
  <2> HIDE DEF lo, hi
  <2>4. QED  BY <2>1, <2>2, <2>3
<1>5. SliceStart(args, n) = Least(LowerBound + 1, n)  BY <1>1 DEF SliceStart
<1>6. StartOffset(args, n) = Least(lo, n)
  BY <1>1, <1>5 DEF StartOffset, Greatest, Least
<1>7. First = FirstOrLimit(args, limit)
  BY DEF First, FirstOrLimit, Limits
<1>8. First = None \/ First \in Nat
  BY <1>7 DEF CountRaises, FirstOrLimit, Args, Counts, Limits
<1>9. (IF 0 <= B /\ B < n THEN B ELSE n) = hi
  BY <1>2 DEF Least
<1>10. EndOffset(args, n, limit) =
        IF First = None THEN hi ELSE Least(hi, Least(lo, n) + First)
  BY <1>6, <1>7, <1>9 DEF EndOffset, B
<1>11. QED  BY <1>3, <1>4, <1>5, <1>6, <1>7, <1>8, <1>10 DEF B

\* A window that ends in front of the slice's start comes from crossed cursors.
LEMMA EndInFront ==
    ASSUME args \in Args, limit \in Limits, NEW n \in Nat, ~CountRaises(args, limit),
           EndOffset(args, n, limit) < SliceStart(args, n)
    PROVE  CrossedCursors
<1> USE OptionAssumption, FieldAssumption
<1> DEFINE lo == Greatest(0, LowerBound + 1)
           hi == Least(n, OffsetOr(args.before, n))
<1>1. /\ lo \in Nat /\ hi \in 0..n
      /\ SliceStart(args, n) = Least(LowerBound + 1, n)
      /\ EndOffset(args, n, limit) = IF First = None THEN hi ELSE Least(hi, Least(lo, n) + First)
      /\ First = None \/ First \in Nat
  BY WindowIs
<1>2. LowerBound \in Int  BY LowerBoundIsAfter
<1>3. Least(LowerBound + 1, n) <= Least(lo, n)  BY <1>2 DEF Least, Greatest
<1>4. hi < Least(LowerBound + 1, n)
  <2> HIDE DEF lo, hi
  <2>1. Least(lo, n) \in Nat /\ Least(LowerBound + 1, n) \in Int  BY <1>1, <1>2 DEF Least
  <2>2. QED  BY <1>1, <1>3, <2>1 DEF Least
<1>5. OffsetOr(args.before, n) \in Nat  BY DEF OffsetOr, Args, Cursors
<1>6. OffsetOr(args.before, n) < n /\ OffsetOr(args.before, n) < LowerBound + 1
  BY <1>2, <1>4, <1>5 DEF Least
<1>7. args.before \notin {None, Invalid} /\ args.before = OffsetOr(args.before, n)
  BY <1>6 DEF OffsetOr
<1>8. QED  BY <1>2, <1>5, <1>6, <1>7 DEF CrossedCursors

\* Where the page of an iterable ends.
LEMMA PageEndBounds ==
    ASSUME NEW a \in Args, NEW n \in Nat, NEW m \in Nat, NEW lim \in Limits,
           NEW k \in Kinds, ~CountRaises(a, lim), k # "queryset" => m = n
    PROVE  /\ PageEnd(a, n, m, lim, k) \in 0..m
           /\ k = "queryset" \/ SliceStart(a, n) <= EndOffset(a, n, lim)
                => PageEnd(a, n, m, lim, k) <= EndOffset(a, n, lim)
<1> DEFINE s == SliceStart(a, n)
           e == EndOffset(a, n, lim)
<1>1. s \in Int /\ s <= n /\ e \in 0..n  BY WindowBounds
<1>2. CASE k = "queryset"
  <2>1. PageEnd(a, n, m, lim, k) = Least(e, m)  BY <1>2 DEF PageEnd
  <2>2. \A x \in 0..n : Least(x, m) \in 0..m /\ Least(x, m) <= x  BY DEF Least
  <2>3. QED  BY <1>1, <2>1, <2>2
<1>3. CASE k # "queryset"
  <2>1. PageEnd(a, n, m, lim, k) =
          IF s < 0 THEN 0
          ELSE IF e < s THEN Greatest(e + (n - s), s) ELSE e
    BY <1>3 DEF PageEnd
  <2> HIDE DEF e, s
  <2>2. PageEnd(a, n, m, lim, k) \in 0..n  BY <1>1, <2>1 DEF Greatest
  <2>3. s <= e => PageEnd(a, n, m, lim, k) <= e  BY <1>1, <2>1
  <2>4. QED  BY <1>3, <2>2, <2>3 DEF e, s
<1>4. QED  BY <1>2, <1>3
-----------------------------------------------------------------------------
\* The initial state satisfies the invariant.
LEMMA InitFieldInv == Init => FieldInv
<1> SUFFICES ASSUME Init PROVE FieldInv
  OBVIOUS
<1>1. <<>> \in Seq(Rows)  BY EmptySeq
<1>2. table \in Seq(Rows)
  <2>1. PICK k \in 0..MaxRows : table = [i \in 1..k |-> i]  BY DEF Init, Tables
  <2>2. k \in Nat /\ \A i \in 1..k : i \in Rows  BY FieldAssumption DEF Rows
  <2>3. QED  BY <2>1, <2>2, IsASeq
<1>3. TypeOK  BY <1>1, <1>2 DEF Init, TypeOK, NoPage
<1>4. QED  BY <1>3 DEF Init, FieldInv, Accepted, ListIsFixed, LimitRespected

\* Deleting a row leaves a table.
LEMMA RemoveType ==
    ASSUME NEW rows \in Seq(Rows), NEW i \in DOMAIN rows
    PROVE  RemoveAt(rows, i) \in Seq(Rows)
<1>1. i \in 1..Len(rows) /\ Len(rows) \in Nat  BY LenProperties
<1>2. SubSeq(rows, 1, i - 1) \in Seq(Rows)
  <2>1. \A j \in 1..(i - 1) : rows[j] \in Rows  BY <1>1, ElementOfSeq
  <2>2. QED  BY <1>1, <2>1, SubSeqProperties
<1>3. SubSeq(rows, i + 1, Len(rows)) \in Seq(Rows)
  <2>1. \A j \in (i + 1)..Len(rows) : rows[j] \in Rows  BY <1>1, ElementOfSeq
  <2>2. QED  BY <1>1, <2>1, SubSeqProperties
<1>4. QED  BY <1>2, <1>3, ConcatProperties DEF RemoveAt

\* So does adding one.
LEMMA InsertType ==
    ASSUME NEW rows \in Seq(Rows), NEW i \in 1..(Len(rows) + 1), NEW r \in Rows
    PROVE  InsertAt(rows, i, r) \in Seq(Rows)
<1>1. Len(rows) \in Nat /\ i \in Nat /\ i >= 1  BY LenProperties
<1>2. SubSeq(rows, 1, i - 1) \in Seq(Rows)
  <2>1. \A j \in 1..(i - 1) : rows[j] \in Rows  BY <1>1, ElementOfSeq
  <2>2. QED  BY <1>1, <2>1, SubSeqProperties
<1>3. SubSeq(rows, i, Len(rows)) \in Seq(Rows)
  <2>1. \A j \in i..Len(rows) : rows[j] \in Rows  BY <1>1, ElementOfSeq
  <2>2. QED  BY <1>1, <2>1, SubSeqProperties
<1>4. <<r>> \in Seq(Rows)  OBVIOUS
<1>5. SubSeq(rows, 1, i - 1) \o <<r>> \in Seq(Rows)  BY <1>2, <1>4, ConcatProperties
<1>6. QED  BY <1>3, <1>5, ConcatProperties DEF InsertAt

\* The slice preserves the invariant: its page is within the limit.
LEMMA SliceInv == FieldInv /\ Slice => FieldInv'
<1> SUFFICES ASSUME FieldInv, Slice PROVE FieldInv'
  OBVIOUS
<1> DEFINE n == Len(counted)
           m == Len(table)
           start == PageStart(args, n, limit)
           end == PageEnd(args, n, m, limit, kind)
           rows == SubSeq(table, start + 1, end)
<1>1. /\ TypeOK /\ phase = "counted" /\ UNCHANGED <<settings, table, counted>>
      /\ ~Refused(args, limit, enforce)
      /\ kind # "queryset" => table = counted
  BY DEF FieldInv, Slice, Accepted, ListIsFixed
<1>2. n \in Nat /\ m \in Nat /\ args \in Args /\ limit \in Limits
      /\ enforce \in BOOLEAN /\ kind \in Kinds /\ table \in Seq(Rows)
  BY <1>1, LenProperties DEF TypeOK
<1>3. CASE phase' = "raised" /\ UNCHANGED page
  BY <1>1, <1>3 DEF FieldInv, TypeOK, Accepted, ListIsFixed, LimitRespected, settings
<1>4. CASE ~CountRaises(args, limit) /\ phase' = "answered" /\ page' = PageOf(n)
  <2>1. start \in 0..n /\ EndOffset(args, n, limit) \in 0..n
    BY <1>2, <1>4, WindowBounds
  <2>2. /\ end \in 0..m
        /\ kind = "queryset" \/ SliceStart(args, n) <= EndOffset(args, n, limit)
             => end <= EndOffset(args, n, limit)
    BY <1>1, <1>2, <1>4, PageEndBounds
  <2>3. page' = [start |-> start, rows |-> rows,
                 previous |-> HasPrevious(args, n, limit), next |-> HasNext(args, n, limit)]
    BY <1>4 DEF PageOf
  <2>4. limit # None /\ (limit = 0 => args.first = None /\ args.last = None)
          => EndOffset(args, n, limit) - start <= limit /\ limit \in Nat
    <3>1. limit # None => limit \in Nat  BY <1>2 DEF Limits
    <3>2. QED  BY <1>1, <1>2, <1>4, <3>1, WindowLimited
  <2> HIDE DEF start, end, n, m
  <2>5. /\ rows \in Seq(Rows)
        /\ Len(rows) = IF start + 1 <= end THEN end - start ELSE 0
    <3>1. start \in Nat /\ end \in Nat /\ end <= m  BY <1>2, <2>1, <2>2
    <3>2. \A i \in (start + 1)..end : table[i] \in Rows
      BY <1>2, <3>1, ElementOfSeq DEF m
    <3>3. /\ SubSeq(table, start + 1, end) \in Seq(Rows)
          /\ Len(SubSeq(table, start + 1, end)) =
               IF start + 1 <= end THEN end - (start + 1) + 1 ELSE 0
      BY <3>1, <3>2, SubSeqProperties
    <3>4. end - (start + 1) + 1 = end - start  BY <3>1
    <3>5. QED  BY <3>3, <3>4
  <2>6. /\ HasPrevious(args, n, limit) \in BOOLEAN /\ HasNext(args, n, limit) \in BOOLEAN
    BY DEF HasPrevious, HasNext
  <2> HIDE DEF rows
  <2>7. TypeOK'
    <3>1. start \in Int  BY <2>1
    <3>2. QED  BY <1>1, <1>4, <2>3, <2>5, <2>6, <3>1 DEF TypeOK, settings
  <2>8. LimitRespected'
    <3> SUFFICES ASSUME limit # None, limit = 0 => args.first = None /\ args.last = None,
                        kind = "queryset" \/ ~CrossedCursors
                 PROVE  Len(rows) <= limit
      BY <1>1, <2>3 DEF LimitRespected, CrossedCursors, LowerBound, settings
    <3>0. kind = "queryset" \/ SliceStart(args, n) <= EndOffset(args, n, limit)
      <4>1. SliceStart(args, n) \in Int /\ EndOffset(args, n, limit) \in Int
        BY <1>2, <1>4, WindowBounds
      <4>2. QED  BY <1>2, <1>4, <4>1, EndInFront
    <3>1. /\ EndOffset(args, n, limit) - start <= limit /\ limit \in Nat
          /\ end <= EndOffset(args, n, limit)
      BY <2>2, <2>4, <3>0
    <3>2. start \in Int /\ end \in Int /\ EndOffset(args, n, limit) \in Int
      BY <1>2, <2>1, <2>2
    <3>3. QED  BY <2>5, <3>1, <3>2
  <2>9. QED
    BY <1>1, <1>4, <2>7, <2>8 DEF FieldInv, Accepted, ListIsFixed, settings
<1>5. QED  BY <1>3, <1>4 DEF Slice

\* Every step preserves the invariant.
LEMMA NextFieldInv == FieldInv /\ [Next]_vars => FieldInv'
<1> SUFFICES ASSUME FieldInv, [Next]_vars PROVE FieldInv'
  OBVIOUS
<1> USE DEF FieldInv, Accepted, ListIsFixed, LimitRespected, CrossedCursors, LowerBound,
            settings
<1>1. CASE Refuse  BY <1>1 DEF Refuse, TypeOK
<1>2. CASE Count  BY <1>2 DEF Count, TypeOK
<1>3. CASE Slice  BY <1>3, SliceInv
<1>4. CASE AddRow
  <2>1. MaxRows + 1 \in Rows  BY FieldAssumption DEF Rows
  <2>2. table' \in Seq(Rows)  BY <1>4, <2>1, InsertType DEF AddRow, TypeOK
  <2>3. QED  BY <1>4, <2>2 DEF AddRow, TypeOK
<1>5. CASE DeleteRow
  <2>1. table' \in Seq(Rows)  BY <1>5, RemoveType DEF DeleteRow, TypeOK
  <2>2. QED  BY <1>5, <2>1 DEF DeleteRow, TypeOK
<1>6. CASE UNCHANGED vars  BY <1>6 DEF vars, TypeOK
<1>7. QED  BY <1>1, <1>2, <1>3, <1>4, <1>5, <1>6 DEF Next

\* The invariant holds in every reachable state.
THEOREM FieldInduction == Spec => []FieldInv
BY InitFieldInv, NextFieldInv, PTL DEF Spec

\* The variables of the field keep their types.
THEOREM FieldTypeCorrect == Spec => []TypeOK
<1>1. FieldInv => TypeOK  BY DEF FieldInv
<1>2. QED  BY <1>1, FieldInduction, PTL

\* No page exceeds the limit, whatever the client's arguments, the number of
\* rows, and the writes of others between count and slice, crossed cursors over
\* rows in memory excepted and, with a limit of zero, a `first` or `last`.
THEOREM PageWithinLimit == Spec => []LimitRespected
<1>1. FieldInv => LimitRespected  BY DEF FieldInv
<1>2. QED  BY <1>1, FieldInduction, PTL
-----------------------------------------------------------------------------
(* What the page shows, and when a field is answered at all.               *)

\* The rows the arguments describe are those of the window.
LEMMA DescribedIsWindow ==
    ASSUME args \in Args, limit \in Limits, NEW n \in Nat, ~CountRaises(args, limit)
    PROVE  Described(n) = PageStart(args, n, limit)..(EndOffset(args, n, limit) - 1)
<1> USE OptionAssumption, FieldAssumption
<1> DEFINE lo == Greatest(0, LowerBound + 1)
           hi == Least(n, OffsetOr(args.before, n))
           e  == EndOffset(args, n, limit)
           s  == PageStart(args, n, limit)
<1>1. /\ lo \in Nat /\ hi \in 0..n /\ Between(n) = lo..(hi - 1)
      /\ StartOffset(args, n) = Least(lo, n)
      /\ e = IF First = None THEN hi ELSE Least(hi, Least(lo, n) + First)
      /\ First = None \/ First \in Nat
  BY WindowIs
<1>2. args.last = None \/ args.last \in Nat  BY DEF CountRaises, Args, Counts
<1>3. s = IF args.last = None THEN Least(lo, n) ELSE Greatest(Least(lo, n), e - args.last)
  BY <1>1 DEF PageStart
<1> HIDE DEF lo, hi, e, s
<1>4. e \in Int /\ e <= hi /\ s \in Int
  BY <1>1, <1>2, <1>3 DEF Least, Greatest
<1> DEFINE ahead == {p \in Between(n) :
                       First = None \/ Cardinality({q \in Between(n) : q < p}) < First}
<1>5. ahead = lo..(e - 1)
  <2>1. ASSUME NEW p \in lo..(hi - 1)
        PROVE  Cardinality({q \in Between(n) : q < p}) = p - lo
    <3>1. {q \in Between(n) : q < p} = lo..(p - 1)  BY <1>1
    <3>2. Cardinality(lo..(p - 1)) = p - lo
      <4>1. lo \in Int /\ p - 1 \in Int  BY <1>1
      <4>2. Cardinality(lo..(p - 1)) = IF lo > p - 1 THEN 0 ELSE p - 1 - lo + 1
        BY <4>1, FS_Interval, Zenon
      <4>3. QED  BY <1>1, <4>2
    <3>3. QED  BY <3>1, <3>2
  <2>2. ASSUME NEW p \in lo..(hi - 1)
        PROVE  First = None \/ p - lo < First <=> p <= e - 1
    BY <1>1 DEF Least
  <2>3. ahead = {p \in lo..(hi - 1) : p <= e - 1}  BY <1>1, <2>1, <2>2
  <2>4. QED  BY <1>1, <1>4, <2>3
<1>6. Described(n) = {p \in ahead :
                        args.last = None \/ Cardinality({q \in ahead : q > p}) < args.last}
  BY DEF Described
<1> HIDE DEF ahead
<1>7. ASSUME NEW p \in lo..(e - 1)
      PROVE  Cardinality({q \in ahead : q > p}) = e - 1 - p
  <2>1. {q \in ahead : q > p} = (p + 1)..(e - 1)  BY <1>1, <1>4, <1>5
  <2>2. Cardinality((p + 1)..(e - 1)) = e - 1 - p
    <3>1. p + 1 \in Int /\ e - 1 \in Int  BY <1>1, <1>4
    <3>2. Cardinality((p + 1)..(e - 1)) =
            IF p + 1 > e - 1 THEN 0 ELSE e - 1 - (p + 1) + 1
      BY <3>1, FS_Interval, Zenon
    <3>3. QED  BY <1>1, <1>4, <3>2
  <2>3. QED  BY <2>1, <2>2
<1>8. ASSUME NEW p \in lo..(e - 1)
      PROVE  args.last = None \/ e - 1 - p < args.last <=> p >= s
  <2>1. Least(lo, n) = lo  BY <1>1, <1>4 DEF Least
  <2>2. QED  BY <1>1, <1>2, <1>3, <1>4, <2>1 DEF Greatest
<1>9. Described(n) = {p \in lo..(e - 1) : p >= s}
  BY <1>5, <1>6, <1>7, <1>8
<1>10. lo <= e - 1 => s >= lo
  BY <1>1, <1>2, <1>3, <1>4 DEF Least, Greatest
<1>11. lo > e - 1 => s > e - 1
  BY <1>1, <1>2, <1>3, <1>4 DEF Least, Greatest
<1>12. Described(n) = s..(e - 1)  BY <1>1, <1>4, <1>9, <1>10, <1>11
<1>13. QED  BY <1>12 DEF s, e

\* A field arrives unanswered.
LEMMA InitMade == Init => PageMade /\ LegalArgumentsAreServed
  BY DEF Init, PageMade, LegalArgumentsAreServed

\* Nothing changes a page once it is made.
LEMMA NextMade == PageMade /\ [Next]_vars => PageMade'
<1> SUFFICES ASSUME PageMade, [Next]_vars, phase' = "answered"
             PROVE  /\ page' = PageOf(Len(counted))' /\ ~CountRaises(args, limit)'
                    /\ ~SliceRaises(args, Len(counted), limit, kind)'
  BY DEF PageMade
<1>1. CASE Slice
  BY <1>1 DEF Slice, settings, PageOf
<1>2. CASE UNCHANGED vars
  BY <1>2 DEF vars, PageMade, PageOf
<1>3. QED  BY <1>1, <1>2 DEF Next, Refuse, Count, AddRow, DeleteRow

\* The two slices fail only for what the arguments ask.
LEMMA RaisesForAReason ==
    ASSUME args \in Args, limit \in Limits, NEW n \in Nat, ~CountRaises(args, limit),
           NEW k \in Kinds, SliceRaises(args, n, limit, k)
    PROVE  \/ args.offset # None /\ args.offset < 0
           \/ k = "queryset" /\ CrossedCursors
<1> USE OptionAssumption, FieldAssumption
<1>1. SliceStart(args, n) = Least(LowerBound + 1, n)  BY WindowIs
<1>2. LowerBound \in Int  BY LowerBoundIsAfter
<1>3. CASE SliceStart(args, n) < 0
  <2>1. LowerBound < -1  BY <1>1, <1>2, <1>3 DEF Least
  <2>2. OffsetOr(args.after, -1) \in Int /\ OffsetOr(args.after, -1) >= -1
    BY DEF OffsetOr, Args, Cursors
  <2>3. args.offset = None \/ args.offset \in Int  BY DEF Args, Counts
  <2>4. QED  BY <2>1, <2>2, <2>3 DEF LowerBound
<1>4. CASE k = "queryset" /\ EndOffset(args, n, limit) < SliceStart(args, n)
  BY <1>4, EndInFront
<1>5. QED  BY <1>3, <1>4 DEF SliceRaises

\* No step touches the client's arguments or what the resolver returned.
LEMMA ArgumentsAreFixed == [Next]_vars => args' = args /\ kind' = kind
<1> SUFFICES ASSUME [Next]_vars PROVE args' = args /\ kind' = kind
  OBVIOUS
<1>1. CASE Refuse  BY <1>1 DEF Refuse, settings
<1>2. CASE Count  BY <1>2 DEF Count, settings
<1>3. CASE Slice  BY <1>3 DEF Slice, settings
<1>4. CASE AddRow \/ DeleteRow  BY <1>4 DEF AddRow, DeleteRow, settings
<1>5. CASE UNCHANGED vars  BY <1>5 DEF vars
<1>6. QED  BY <1>1, <1>2, <1>3, <1>4, <1>5 DEF Next

\* A field that raises does so for a reason.
LEMMA NextServed ==
    FieldInv /\ LegalArgumentsAreServed /\ [Next]_vars => LegalArgumentsAreServed'
<1> SUFFICES ASSUME FieldInv, LegalArgumentsAreServed, [Next]_vars, phase' = "raised"
             PROVE  \/ \E k \in {args.first, args.last, args.offset} : k # None /\ k < 0
                    \/ args.after = Invalid /\ args.offset # None
                    \/ kind = "queryset" /\ CrossedCursors
  <2>1. [Next]_vars => args' = args /\ kind' = kind  BY ArgumentsAreFixed
  <2>2. args' = args => CrossedCursors' = CrossedCursors
    BY DEF CrossedCursors, LowerBound
  <2>3. QED  BY <2>1, <2>2 DEF LegalArgumentsAreServed
<1>0. args \in Args /\ limit \in Limits /\ Len(counted) \in Nat /\ kind \in Kinds
  BY LenProperties DEF FieldInv, TypeOK
<1>1. CASE Count
  BY <1>1 DEF Count, OffsetRaises, Truthy
<1>2. CASE Slice /\ CountRaises(args, limit)
  <2>1. PICK k \in {FirstOrLimit(args, limit), args.last} : k # None /\ k < 0
    BY <1>2 DEF CountRaises
  <2>2. k \in {args.first, args.last}
    BY <1>0, <2>1, FieldAssumption DEF FirstOrLimit, Limits
  <2>3. QED  BY <2>1, <2>2
<1>3. CASE Slice /\ ~CountRaises(args, limit)
  <2>1. SliceRaises(args, Len(counted), limit, kind)  BY <1>3 DEF Slice
  <2>2. QED  BY <1>0, <1>3, <2>1, RaisesForAReason
<1>4. CASE UNCHANGED vars
  BY <1>4 DEF vars, LegalArgumentsAreServed
<1>5. QED  BY <1>1, <1>2, <1>3, <1>4 DEF Next, Refuse, AddRow, DeleteRow

\* An answered page holds exactly the rows the arguments describe.
LEMMA MadeIsDescribed == FieldInv /\ PageMade => PageIsDescribed
<1> DEFINE n == Len(counted)
           m == Len(table)
           start == PageStart(args, n, limit)
           end == EndOffset(args, n, limit)
<1> SUFFICES ASSUME FieldInv, PageMade, phase = "answered",
                    kind = "queryset" \/ ~CrossedCursors,
                    kind = "list" => LowerBound >= -1,
                    n <= m, SubSeq(table, 1, n) = counted
             PROVE  /\ {page.start + i - 1 : i \in DOMAIN page.rows} = Described(n)
                    /\ \A i \in DOMAIN page.rows : page.rows[i] = counted[page.start + i]
  BY DEF PageIsDescribed
<1>1. /\ args \in Args /\ limit \in Limits /\ n \in Nat /\ m \in Nat
      /\ table \in Seq(Rows) /\ counted \in Seq(Rows) /\ kind \in Kinds
  BY LenProperties DEF FieldInv, TypeOK
<1>2. /\ page = PageOf(n) /\ ~CountRaises(args, limit)
      /\ ~SliceRaises(args, n, limit, kind)
  BY DEF PageMade
<1>3. start \in 0..n /\ end \in 0..n  BY <1>1, <1>2, WindowBounds
<1>4. Described(n) = start..(end - 1)  BY <1>1, <1>2, DescribedIsWindow
<1>5. PageEnd(args, n, m, limit, kind) = end
  <2>1. CASE kind = "queryset"  BY <1>1, <1>3, <2>1 DEF PageEnd, Least
  <2>2. CASE kind # "queryset"
    <3>1. SliceStart(args, n) \in Int  BY <1>1, <1>2, WindowBounds
    <3>2. SliceStart(args, n) <= end  BY <1>1, <1>2, <1>3, <2>2, <3>1, EndInFront
    <3>3. SliceStart(args, n) >= 0
      <4>1. CASE kind = "list"
        <5>1. SliceStart(args, n) = Least(LowerBound + 1, n)  BY <1>1, <1>2, WindowIs
        <5>2. LowerBound \in Int  BY <1>1, LowerBoundIsAfter
        <5>3. QED  BY <1>1, <4>1, <5>1, <5>2 DEF Least
      <4>2. QED  BY <1>2, <3>1, <4>1 DEF SliceRaises
    <3>4. QED  BY <1>3, <2>2, <3>1, <3>2, <3>3 DEF PageEnd
  <2>3. QED  BY <2>1, <2>2
<1>6. page.start = start /\ page.rows = SubSeq(table, start + 1, end)
  BY <1>2, <1>5 DEF PageOf
<1>7. \A i \in 1..n : table[i] = counted[i]
  <2>1. \A i \in 1..n : table[i] \in Rows  BY <1>1, ElementOfSeq
  <2>2. \A i \in 1..(n - 1 + 1) : SubSeq(table, 1, n)[i] = table[1 + i - 1]
    BY <1>1, <2>1, SubSeqProperties
  <2>3. QED  BY <1>1, <2>2
<1> HIDE DEF start, end, n, m
<1>8. \A i \in (start + 1)..end : table[i] \in Rows
  BY <1>1, <1>3, ElementOfSeq DEF n, m
<1>9. /\ page.rows \in Seq(Rows)
      /\ Len(page.rows) = IF start + 1 <= end THEN end - (start + 1) + 1 ELSE 0
      /\ \A i \in 1..(end - (start + 1) + 1) : page.rows[i] = table[start + 1 + i - 1]
  <2>1. start + 1 \in Int /\ end \in Int  BY <1>1, <1>3
  <2>2. QED  BY <1>6, <1>8, <2>1, SubSeqProperties
<1>10. DOMAIN page.rows = 1..(end - start)
  <2>1. DOMAIN page.rows = 1..Len(page.rows)  BY <1>9, LenProperties
  <2>2. QED  BY <1>1, <1>3, <1>9, <2>1
<1>11. {page.start + i - 1 : i \in DOMAIN page.rows} = start..(end - 1)
  <2>1. ASSUME NEW p \in start..(end - 1)
        PROVE  \E i \in DOMAIN page.rows : p = page.start + i - 1
    <3>1. p - start + 1 \in DOMAIN page.rows  BY <1>1, <1>3, <1>10
    <3>2. p = start + (p - start + 1) - 1  BY <1>1, <1>3
    <3>3. QED  BY <1>6, <3>1, <3>2
  <2>2. ASSUME NEW i \in DOMAIN page.rows PROVE page.start + i - 1 \in start..(end - 1)
    BY <1>1, <1>3, <1>6, <1>10
  <2>3. QED  BY <2>1, <2>2
<1>12. ASSUME NEW i \in DOMAIN page.rows PROVE page.rows[i] = counted[page.start + i]
  <2>1. i \in 1..(end - start) /\ start + i \in 1..n  BY <1>1, <1>3, <1>10
  <2>2. page.rows[i] = table[start + 1 + i - 1]  BY <1>1, <1>3, <1>9, <2>1
  <2>3. start + 1 + i - 1 = start + i  BY <1>1, <1>3, <2>1
  <2>4. QED  BY <1>6, <1>7, <2>1, <2>2, <2>3
<1>13. QED  BY <1>4, <1>11, <1>12 DEF start, end

\* The page info of an answered page tells what was left out on its side.
LEMMA MadeInfoIsTrue == FieldInv /\ PageMade => PageInfoIsTrue
<1> USE OptionAssumption, FieldAssumption
<1> DEFINE n == Len(counted)
           B == OffsetOr(args.before, n)
           lo == Greatest(0, LowerBound + 1)
           hi == Least(n, B)
           start == PageStart(args, n, limit)
           end == EndOffset(args, n, limit)
<1> SUFFICES ASSUME FieldInv, PageMade, phase = "answered", kind # "list", B <= n
             PROVE  /\ First # None /\ args.last = None =>
                         (page.next <=> \E p \in Between(n) : \A q \in Described(n) : p > q)
                    /\ args.last # None /\ args.first = None =>
                         (page.previous <=> \E p \in Between(n) : \A q \in Described(n) : p < q)
  BY DEF PageInfoIsTrue
<1>1. args \in Args /\ limit \in Limits /\ n \in Nat
  BY LenProperties DEF FieldInv, TypeOK
<1>2. page = PageOf(n) /\ ~CountRaises(args, limit) /\ ~SliceRaises(args, n, limit, kind)
  BY DEF PageMade
<1>3. LowerBound \in Int /\ OffsetOr(After(args), -1) = LowerBound
  BY <1>1, LowerBoundIsAfter
<1>4. /\ lo \in Nat /\ hi \in 0..n /\ Between(n) = lo..(hi - 1)
      /\ SliceStart(args, n) = Least(LowerBound + 1, n)
      /\ StartOffset(args, n) = Least(lo, n)
      /\ end = IF First = None THEN hi ELSE Least(hi, Least(lo, n) + First)
      /\ First = None \/ First \in Nat
      /\ First = FirstOrLimit(args, limit)
  BY <1>1, <1>2, WindowIs
<1>5. Described(n) = start..(end - 1)  BY <1>1, <1>2, DescribedIsWindow
<1>6. start \in 0..n /\ end \in 0..n  BY <1>1, <1>2, WindowBounds
<1>7. B \in Nat /\ hi = B  BY <1>1 DEF OffsetOr, Args, Cursors, Least
<1>8. page.next = HasNext(args, n, limit) /\ page.previous = HasPrevious(args, n, limit)
  BY <1>2 DEF PageOf
<1> HIDE DEF n, B, lo, hi, start, end
<1>9. ASSUME First # None, args.last = None
      PROVE  page.next <=> \E p \in Between(n) : \A q \in Described(n) : p > q
  <2>1. page.next <=> end < B  BY <1>4, <1>8, <1>9 DEF HasNext, B, end
  <2>2. start = Least(lo, n)  BY <1>4, <1>9 DEF PageStart, start
  <2>3. end = Least(B, Least(lo, n) + First)  BY <1>4, <1>7, <1>9
  <2>4. CASE end < B
    <3>1. lo <= B - 1  BY <1>1, <1>4, <1>7, <1>9, <2>3, <2>4 DEF Least
    <3>2. B - 1 \in Between(n)  BY <1>4, <1>7, <3>1
    <3>3. \A q \in Described(n) : B - 1 > q  BY <1>5, <1>6, <1>7, <2>4
    <3>4. QED  BY <2>1, <2>4, <3>2, <3>3
  <2>5. CASE ~(end < B)
    <3>1. end = B  BY <1>1, <1>4, <1>6, <1>7, <1>9, <2>3, <2>5 DEF Least
    <3>2. ASSUME NEW p \in Between(n) PROVE p \in Described(n) /\ ~(p > p)
      <4>1. p \in lo..(B - 1) /\ start <= lo
        BY <1>1, <1>4, <1>7, <2>2 DEF Least
      <4>2. QED  BY <1>4, <1>5, <1>6, <1>7, <3>1, <4>1
    <3>3. QED  BY <2>1, <2>5, <3>2
  <2>6. QED  BY <2>4, <2>5
<1>10. ASSUME args.last # None, args.first = None
       PROVE  page.previous <=> \E p \in Between(n) : \A q \in Described(n) : p < q
  <2>1. First = None /\ end = B  BY <1>4, <1>7, <1>10 DEF First
  <2>2. args.last \in Nat  BY <1>1, <1>2, <1>10 DEF CountRaises, Args, Counts
  <2>3. start = Greatest(Least(lo, n), B - args.last)
    BY <1>4, <1>10, <2>1 DEF PageStart, start, end
  <2>4. LowerBound + 1 >= 0 \/ n < 0
    BY <1>1, <1>2, <1>3, <1>4 DEF SliceRaises, Least
  <2>5. lo = LowerBound + 1  BY <1>1, <1>3, <2>4 DEF lo, Greatest
  <2>6. After(args) = None => lo = 0  BY <1>3, <2>5 DEF OffsetOr
  <2>7. page.previous <=> start > lo
    BY <1>3, <1>8, <1>10, <2>5, <2>6 DEF HasPrevious, start
  <2>8. CASE start > lo
    <3>1. lo <= B - 1
      BY <1>1, <1>4, <1>6, <1>7, <2>2, <2>3, <2>8 DEF Least, Greatest
    <3>2. lo \in Between(n)  BY <1>4, <1>7, <3>1
    <3>3. \A q \in Described(n) : lo < q  BY <1>4, <1>5, <1>6, <1>7, <2>1, <2>8
    <3>4. QED  BY <2>7, <2>8, <3>2, <3>3
  <2>9. CASE ~(start > lo)
    <3>1. ASSUME NEW p \in Between(n) PROVE p \in Described(n) /\ ~(p < p)
      <4>1. p \in lo..(B - 1)  BY <1>4, <1>7
      <4>2. QED  BY <1>4, <1>5, <1>6, <1>7, <2>1, <2>9, <4>1
    <3>2. QED  BY <2>7, <2>9, <3>1
  <2>10. QED  BY <2>8, <2>9
<1>11. QED  BY <1>9, <1>10

\* What an answered field shows holds in every reachable state.
THEOREM PageInduction == Spec => [](PageMade /\ LegalArgumentsAreServed)
<1>1. FieldInv /\ PageMade /\ LegalArgumentsAreServed /\ [Next]_vars
        => PageMade' /\ LegalArgumentsAreServed'
  BY NextMade, NextServed
<1>2. QED  BY <1>1, InitMade, FieldInduction, PTL DEF Spec

\* A page shows the rows the arguments describe, in order and without a row
\* more, for any number of rows, any limit and any combination of arguments
\* that a queryset answers; over rows in memory, for those that do not cross
\* their cursors or lead in front of the first row.
THEOREM PageShowsWhatIsAsked == Spec => []PageIsDescribed
<1>1. FieldInv /\ PageMade => PageIsDescribed  BY MadeIsDescribed
<1>2. QED  BY <1>1, FieldInduction, PageInduction, PTL

\* The field raises only for a negative number, an offset on a broken cursor,
\* or, over a queryset, crossed cursors.
THEOREM LegalArguments == Spec => []LegalArgumentsAreServed
  BY PageInduction, PTL

\* hasNextPage and hasPreviousPage tell what a page left out on the side that
\* was cut.
THEOREM PageInfo == Spec => []PageInfoIsTrue
<1>1. FieldInv /\ PageMade => PageInfoIsTrue  BY MadeInfoIsTrue
<1>2. QED  BY <1>1, FieldInduction, PageInduction, PTL
=============================================================================
