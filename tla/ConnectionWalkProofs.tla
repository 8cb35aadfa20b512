------------------------ MODULE ConnectionWalkProofs ------------------------
(***************************************************************************)
(* Theorems about ConnectionWalk, for any number of rows and deletions and *)
(* any size of a page.                                                     *)
(***************************************************************************)
EXTENDS ConnectionWalk, SequenceTheorems, TLAPS

\* Neither assertion of connection_resolver fails on a page of the walk.
LEMMA NotRefused == TypeOK /\ Bounded => ~Refused(Args, limit, FALSE)
<1> USE OptionAssumption, WalkAssumption
<1> SUFFICES ASSUME TypeOK, Bounded PROVE ~Refused(Args, limit, FALSE)
  OBVIOUS
<1>1. Args.offset = None  BY DEF Args
<1>2. {Args.first, Args.last} \subseteq {None, size}  BY DEF Args
<1>3. size # None /\ limit # None => ~(size > limit)
  BY DEF TypeOK, Bounded
<1>4. QED  BY <1>1, <1>2, <1>3 DEF Refused, Truthy

\* A forward page begins behind the cursor, or at the end.
LEMMA ForwardPage ==
    ASSUME direction = "forward", TypeOK, NEW n \in Nat
    PROVE  LET first == IF size = None THEN limit ELSE size
               start == IF cursor = None THEN 0 ELSE Least(cursor + 1, n)
               end   == IF first = None THEN n ELSE Least(n, start + first)
           IN  /\ PageStart(Args, n, limit) = start /\ start \in 0..n
               /\ EndOffset(Args, n, limit) = end /\ end \in start..n
               /\ first = None \/ first \in Nat \ {0}
               /\ HasNext(Args, n, limit) <=> first # None /\ end < n
               /\ ~SliceRaises(Args, n, limit, "queryset")
<1> USE OptionAssumption, WalkAssumption
<1> DEFINE first == IF size = None THEN limit ELSE size
           start == IF cursor = None THEN 0 ELSE Least(cursor + 1, n)
           end   == IF first = None THEN n ELSE Least(n, start + first)
<1>1. /\ Args.first = size /\ Args.last = None /\ Args.offset = None
      /\ Args.after = cursor /\ Args.before = None
  BY DEF Args
<1>2. cursor = None \/ cursor \in Nat  BY DEF TypeOK
<1>3. first = None \/ first \in Nat \ {0}  BY DEF TypeOK
<1>4. FirstOrLimit(Args, limit) = first  BY <1>1 DEF FirstOrLimit
<1>5. After(Args) = cursor  BY <1>1 DEF After, Truthy
<1>6. OffsetOr(After(Args), -1) = IF cursor = None THEN -1 ELSE cursor
  BY <1>2, <1>5 DEF OffsetOr
<1>7. start \in 0..n  BY <1>2 DEF Least
<1>8. SliceStart(Args, n) = start  BY <1>2, <1>6 DEF SliceStart, Least
<1>9. StartOffset(Args, n) = start
  BY <1>2, <1>6, <1>8 DEF StartOffset, Greatest, Least
<1>10. PageStart(Args, n, limit) = start  BY <1>1, <1>9 DEF PageStart
<1>11. OffsetOr(Args.before, n) = n  BY <1>1 DEF OffsetOr
<1> HIDE DEF start, first
<1>12. EndOffset(Args, n, limit) = end  BY <1>4, <1>9, <1>11 DEF EndOffset
<1>13. end \in start..n  BY <1>3, <1>7 DEF Least
<1>14. HasNext(Args, n, limit) <=> first # None /\ end < n
  BY <1>4, <1>11, <1>12 DEF HasNext
<1>15. ~SliceRaises(Args, n, limit, "queryset")
  BY <1>7, <1>8, <1>12, <1>13 DEF SliceRaises
<1>16. QED  BY <1>3, <1>7, <1>10, <1>12, <1>13, <1>14, <1>15 DEF start, first

\* A backward page ends before the cursor.
LEMMA BackwardPage ==
    ASSUME direction = "backward", TypeOK, Bounded, NEW n \in Nat
    PROVE  LET end   == IF cursor = None THEN n ELSE Least(n, cursor)
               start == Greatest(0, end - size)
           IN  /\ size \in Nat \ {0}
               /\ PageStart(Args, n, limit) = start /\ start \in 0..end
               /\ EndOffset(Args, n, limit) = end /\ end \in 0..n
               /\ HasPrevious(Args, n, limit) <=> start > 0
               /\ ~SliceRaises(Args, n, limit, "queryset")
<1> USE OptionAssumption, WalkAssumption
<1> DEFINE end   == IF cursor = None THEN n ELSE Least(n, cursor)
           start == Greatest(0, end - size)
<1>1. /\ Args.first = None /\ Args.last = size /\ Args.offset = None
      /\ Args.after = None /\ Args.before = cursor
  BY DEF Args
<1>2. cursor = None \/ cursor \in Nat  BY DEF TypeOK
<1>3. size \in Nat \ {0}  BY DEF TypeOK, Bounded
<1>4. FirstOrLimit(Args, limit) = None  BY <1>1, <1>3 DEF FirstOrLimit
<1>5. After(Args) = None /\ OffsetOr(After(Args), -1) = -1
  BY <1>1 DEF After, Truthy, OffsetOr
<1>6. SliceStart(Args, n) = 0 /\ StartOffset(Args, n) = 0
  BY <1>5 DEF SliceStart, StartOffset, Greatest, Least
<1>7. end \in 0..n  BY <1>2 DEF Least
<1>8. OffsetOr(Args.before, n) = IF cursor = None THEN n ELSE cursor
  BY <1>1, <1>2 DEF OffsetOr
<1>9. EndOffset(Args, n, limit) = end
  <2> DEFINE before == OffsetOr(Args.before, n)
  <2>1. EndOffset(Args, n, limit) = IF 0 <= before /\ before < n THEN before ELSE n
    BY <1>4 DEF EndOffset
  <2> HIDE DEF before
  <2>2. CASE cursor = None  BY <1>8, <2>1, <2>2 DEF before
  <2>3. CASE cursor # None  BY <1>2, <1>8, <2>1, <2>3 DEF before, Least
  <2>4. QED  BY <2>2, <2>3
<1> HIDE DEF end
<1>10. start \in 0..end  BY <1>3, <1>7 DEF Greatest
<1>11. PageStart(Args, n, limit) = start
  BY <1>1, <1>3, <1>6, <1>9 DEF PageStart
<1>12. HasPrevious(Args, n, limit) <=> start > 0
  BY <1>1, <1>3, <1>5, <1>11 DEF HasPrevious
<1>13. ~SliceRaises(Args, n, limit, "queryset")  BY <1>6, <1>7, <1>9 DEF SliceRaises
<1>14. QED  BY <1>3, <1>7, <1>9, <1>10, <1>11, <1>12, <1>13 DEF end
-----------------------------------------------------------------------------
\* A slice of the table.
LEMMA RowsShown ==
    ASSUME NEW S, table \in Seq(S), NEW s \in Nat, NEW e \in 0..Len(table)
    PROVE  LET rows == SubSeq(table, s + 1, e)
           IN  /\ rows \in Seq(S) /\ Len(rows) = IF s < e THEN e - s ELSE 0
               /\ \A i \in DOMAIN rows :
                    i \in 1..(e - s) /\ s + i \in DOMAIN table /\ rows[i] = table[s + i]
<1> DEFINE rows == SubSeq(table, s + 1, e)
<1>1. Len(table) \in Nat /\ DOMAIN table = 1..Len(table)  BY LenProperties
<1>2. \A i \in (s + 1)..e : table[i] \in S  BY <1>1, ElementOfSeq
<1>3. /\ rows \in Seq(S)
      /\ Len(rows) = IF s + 1 <= e THEN e - (s + 1) + 1 ELSE 0
      /\ \A i \in 1..(e - (s + 1) + 1) : rows[i] = table[s + 1 + i - 1]
  <2>1. s + 1 \in Int /\ e \in Int  BY <1>1
  <2>2. QED  BY <1>2, <2>1, SubSeqProperties
<1>4. DOMAIN rows = 1..Len(rows)  BY <1>3, LenProperties
<1> HIDE DEF rows
<1>5. Len(rows) = IF s < e THEN e - s ELSE 0  BY <1>1, <1>3
<1>6. ASSUME NEW i \in DOMAIN rows
      PROVE  i \in 1..(e - s) /\ s + i \in DOMAIN table /\ rows[i] = table[s + i]
  <2>1. i \in 1..(e - s) /\ s + i \in 1..Len(table)  BY <1>1, <1>4, <1>5
  <2>2. i \in 1..(e - (s + 1) + 1) /\ s + 1 + i - 1 = s + i  BY <1>1, <2>1
  <2>3. QED  BY <1>1, <1>3, <2>1, <2>2
<1>7. QED  BY <1>3, <1>5, <1>6 DEF rows

\* One row more, at any place.
LEMMA RowInserted ==
    ASSUME NEW S, NEW rows \in Seq(S), NEW i \in 1..(Len(rows) + 1), NEW r \in S
    PROVE  LET t == InsertAt(rows, i, r)
           IN  /\ t \in Seq(S) /\ Len(t) = Len(rows) + 1
               /\ \A j \in 1..(Len(rows) + 1) :
                    t[j] = IF j < i THEN rows[j] ELSE IF j = i THEN r ELSE rows[j - 1]
<1> DEFINE n == Len(rows)
           front == SubSeq(rows, 1, i - 1)
           back == SubSeq(rows, i, n)
<1>1. n \in Nat /\ \A j \in 1..n : rows[j] \in S  BY LenProperties, ElementOfSeq
<1>2. front \in Seq(S) /\ Len(front) = i - 1 /\ \A j \in 1..(i - 1) : front[j] = rows[j]
  <2>1. \A j \in 1..(i - 1) : rows[j] \in S  BY <1>1
  <2>2. /\ front \in Seq(S) /\ Len(front) = IF 1 <= i - 1 THEN i - 1 - 1 + 1 ELSE 0
        /\ \A j \in 1..(i - 1 - 1 + 1) : front[j] = rows[1 + j - 1]
    BY <1>1, <2>1, SubSeqProperties
  <2> HIDE DEF front, n
  <2>3. Len(front) = i - 1  BY <1>1, <2>2 DEF n
  <2>4. \A j \in 1..(i - 1) : j \in 1..(i - 1 - 1 + 1) /\ 1 + j - 1 = j  BY <1>1 DEF n
  <2>5. QED  BY <2>2, <2>3, <2>4
<1>3. /\ back \in Seq(S) /\ Len(back) = n - i + 1
      /\ \A j \in 1..(n - i + 1) : back[j] = rows[i + j - 1]
  <2>1. \A j \in i..n : rows[j] \in S  BY <1>1
  <2>2. /\ back \in Seq(S) /\ Len(back) = IF i <= n THEN n - i + 1 ELSE 0
        /\ \A j \in 1..(n - i + 1) : back[j] = rows[i + j - 1]
    BY <1>1, <2>1, SubSeqProperties
  <2> HIDE DEF back, n
  <2>3. Len(back) = n - i + 1
    <3>1. i \in Int /\ i <= n + 1  BY <1>1 DEF n
    <3>2. \A x, y \in Int : x <= y + 1 => (IF x <= y THEN y - x + 1 ELSE 0) = y - x + 1
      OBVIOUS
    <3>3. QED  BY <1>1, <2>2, <3>1, <3>2
  <2>4. QED  BY <2>2, <2>3
<1>4. <<r>> \in Seq(S) /\ Len(<<r>>) = 1 /\ <<r>>[1] = r  OBVIOUS
<1> DEFINE head == front \o <<r>>
<1> HIDE DEF front, back
<1>5. /\ head \in Seq(S) /\ Len(head) = i
      /\ \A j \in 1..i : head[j] = IF j < i THEN rows[j] ELSE r
  <2>1. /\ head \in Seq(S) /\ Len(head) = Len(front) + 1
        /\ \A j \in 1..(Len(front) + 1) :
             head[j] = IF j <= Len(front) THEN front[j] ELSE <<r>>[j - Len(front)]
    BY <1>2, <1>4, ConcatProperties
  <2> HIDE DEF head
  <2>2. QED  BY <1>1, <1>2, <1>4, <2>1
<1> HIDE DEF head
<1> DEFINE t == head \o back
<1>6. /\ t \in Seq(S) /\ Len(t) = Len(head) + Len(back)
      /\ \A j \in 1..(Len(head) + Len(back)) :
           t[j] = IF j <= Len(head) THEN head[j] ELSE back[j - Len(head)]
  BY <1>3, <1>5, ConcatProperties
<1>7. InsertAt(rows, i, r) = t  BY DEF InsertAt, t, head, front, back
<1> HIDE DEF t, n
<1>8. Len(head) + Len(back) = n + 1  BY <1>1, <1>3, <1>5
<1>9. ASSUME NEW j \in 1..(n + 1)
      PROVE  t[j] = IF j < i THEN rows[j] ELSE IF j = i THEN r ELSE rows[j - 1]
  <2>1. CASE j <= i  BY <1>1, <1>5, <1>6, <1>8, <2>1
  <2>2. CASE j > i
    <3>1. j - i \in 1..(n - i + 1) /\ i + (j - i) - 1 = j - 1  BY <1>1, <2>2
    <3>2. t[j] = back[j - i]  BY <1>1, <1>5, <1>6, <1>8, <2>2
    <3>3. back[j - i] = rows[j - 1]  BY <1>3, <3>1
    <3>4. QED  BY <1>1, <2>2, <3>2, <3>3
  <2>3. QED  BY <1>1, <2>1, <2>2
<1>10. QED  BY <1>6, <1>7, <1>8, <1>9 DEF n

\* One row less.
LEMMA RowRemoved ==
    ASSUME NEW S, NEW rows \in Seq(S), NEW i \in DOMAIN rows
    PROVE  LET t == RemoveAt(rows, i)
           IN  /\ t \in Seq(S) /\ Len(t) = Len(rows) - 1 /\ i \in 1..Len(rows)
               /\ \A j \in 1..(Len(rows) - 1) :
                    t[j] = IF j < i THEN rows[j] ELSE rows[j + 1]
<1> DEFINE n == Len(rows)
           front == SubSeq(rows, 1, i - 1)
           back == SubSeq(rows, i + 1, n)
<1>1. n \in Nat /\ i \in 1..n /\ \A j \in 1..n : rows[j] \in S
  BY LenProperties, ElementOfSeq
<1>2. front \in Seq(S) /\ Len(front) = i - 1 /\ \A j \in 1..(i - 1) : front[j] = rows[j]
  <2>1. \A j \in 1..(i - 1) : rows[j] \in S  BY <1>1
  <2>2. /\ front \in Seq(S) /\ Len(front) = IF 1 <= i - 1 THEN i - 1 - 1 + 1 ELSE 0
        /\ \A j \in 1..(i - 1 - 1 + 1) : front[j] = rows[1 + j - 1]
    BY <1>1, <2>1, SubSeqProperties
  <2> HIDE DEF front, n
  <2>3. Len(front) = i - 1  BY <1>1, <2>2
  <2>4. \A j \in 1..(i - 1) : j \in 1..(i - 1 - 1 + 1) /\ 1 + j - 1 = j  BY <1>1
  <2>5. QED  BY <2>2, <2>3, <2>4
<1>3. back \in Seq(S) /\ Len(back) = n - i /\ \A j \in 1..(n - i) : back[j] = rows[i + j]
  <2>1. \A j \in (i + 1)..n : rows[j] \in S  BY <1>1
  <2>2. /\ back \in Seq(S) /\ Len(back) = IF i + 1 <= n THEN n - (i + 1) + 1 ELSE 0
        /\ \A j \in 1..(n - (i + 1) + 1) : back[j] = rows[i + 1 + j - 1]
    BY <1>1, <2>1, SubSeqProperties
  <2> HIDE DEF back, n
  <2>3. Len(back) = n - i
    <3>1. \A x, y \in Int : x <= y => (IF x + 1 <= y THEN y - (x + 1) + 1 ELSE 0) = y - x
      OBVIOUS
    <3>2. QED  BY <1>1, <2>2, <3>1
  <2>4. \A j \in 1..(n - i) : j \in 1..(n - (i + 1) + 1) /\ i + 1 + j - 1 = i + j
    BY <1>1
  <2>5. QED  BY <2>2, <2>3, <2>4
<1> DEFINE t == front \o back
<1>4. RemoveAt(rows, i) = t  BY DEF RemoveAt
<1> HIDE DEF front, back
<1>5. /\ t \in Seq(S) /\ Len(t) = Len(front) + Len(back)
      /\ \A j \in 1..(Len(front) + Len(back)) :
           t[j] = IF j <= Len(front) THEN front[j] ELSE back[j - Len(front)]
  BY <1>2, <1>3, ConcatProperties
<1> HIDE DEF t, n
<1>6. Len(front) + Len(back) = n - 1  BY <1>1, <1>2, <1>3
<1>7. ASSUME NEW j \in 1..(n - 1)
      PROVE  t[j] = IF j < i THEN rows[j] ELSE rows[j + 1]
  <2>1. CASE j < i  BY <1>1, <1>2, <1>5, <1>6, <2>1
  <2>2. CASE ~(j < i)
    <3>1. j - (i - 1) \in 1..(n - i) /\ i + (j - (i - 1)) = j + 1  BY <1>1, <2>2
    <3>2. t[j] = back[j - (i - 1)]  BY <1>1, <1>2, <1>5, <1>6, <2>2
    <3>3. back[j - (i - 1)] = rows[j + 1]  BY <1>3, <3>1
    <3>4. QED  BY <1>1, <2>2, <3>2, <3>3
  <2>3. QED  BY <2>1, <2>2
<1>8. QED  BY <1>1, <1>4, <1>5, <1>6, <1>7 DEF n

\* What agrees with the beginning of a sequence is its beginning.
LEMMA IsPrefixOf ==
    ASSUME NEW S, NEW s \in Seq(S), NEW t \in Seq(S), Len(s) <= Len(t),
           \A i \in 1..Len(s) : s[i] = t[i]
    PROVE  s = SubSeq(t, 1, Len(s))
<1> DEFINE n == Len(s)
           p == SubSeq(t, 1, n)
<1>1. n \in Nat /\ Len(t) \in Nat  BY LenProperties
<1>2. \A i \in 1..n : t[i] \in S  BY <1>1, ElementOfSeq
<1>3. /\ p \in Seq(S) /\ Len(p) = IF 1 <= n THEN n - 1 + 1 ELSE 0
      /\ \A i \in 1..(n - 1 + 1) : p[i] = t[1 + i - 1]
  BY <1>1, <1>2, SubSeqProperties
<1> HIDE DEF p
<1>4. Len(p) = n /\ \A i \in 1..n : p[i] = t[i]
  <2>1. \A i \in 1..n : i \in 1..(n - 1 + 1) /\ 1 + i - 1 = i  BY <1>1
  <2>2. QED  BY <1>1, <1>3, <2>1
<1>5. s = p  BY <1>3, <1>4, SeqEqual
<1>6. QED  BY <1>5 DEF p
-----------------------------------------------------------------------------
\* What a forward slice does: its page begins behind the cursor, and is empty
\* only at the end of what was counted.
LEMMA ForwardSlice ==
    ASSUME WalkInv, Slice, direction = "forward"
    PROVE  \E start, E \in Nat, rows \in Seq(1..added) :
             /\ start = IF cursor = None THEN 0 ELSE Least(cursor + 1, counted)
             /\ start <= E /\ E <= counted /\ (E < counted => start < E)
             /\ LET e == Least(E, Len(table))
                IN  /\ Len(rows) = IF start < e THEN e - start ELSE 0
                    /\ \A i \in 1..Len(rows) :
                         start + i \in 1..Len(table) /\ rows[i] = table[start + i]
             /\ seen' = seen \o rows
             /\ cursor' = IF rows = <<>> THEN None ELSE start + Len(rows) - 1
             /\ phase' = IF E = counted THEN "done"
                         ELSE IF rows = <<>> THEN "lost" ELSE "asking"
<1> USE WalkAssumption, OptionAssumption
<1> DEFINE n == counted
           m == Len(table)
           first == IF size = None THEN limit ELSE size
           start == IF cursor = None THEN 0 ELSE Least(cursor + 1, n)
           E == IF first = None THEN n ELSE Least(n, start + first)
           e == Least(E, m)
           rows == SubSeq(table, start + 1, e)
<1>1. /\ TypeOK /\ n \in Nat /\ table \in Seq(1..added) /\ m \in Nat
      /\ DOMAIN table = 1..m
  BY LenProperties DEF WalkInv, TypeOK, Numbered
<1>2. /\ PageStart(Args, n, limit) = start /\ start \in 0..n
      /\ EndOffset(Args, n, limit) = E /\ E \in start..n
      /\ first = None \/ first \in Nat \ {0}
      /\ HasNext(Args, n, limit) <=> first # None /\ E < n
      /\ ~SliceRaises(Args, n, limit, "queryset")
  BY <1>1, ForwardPage
<1>3. E < n => start < E /\ first # None
  <2>1. first # None /\ Least(n, start + first) < n => Least(n, start + first) = start + first
    BY <1>1, <1>2 DEF Least
  <2>2. QED  BY <1>1, <1>2, <2>1
<1>4. PageEnd(Args, n, m, limit, "queryset") = e  BY <1>2 DEF PageEnd
<1> HIDE DEF start, E, first
<1>5. e \in 0..m  BY <1>1, <1>2 DEF Least
<1>6. start \in Nat /\ E \in Nat /\ start <= E /\ E <= n  BY <1>1, <1>2
<1>7. /\ rows \in Seq(1..added) /\ Len(rows) = IF start < e THEN e - start ELSE 0
      /\ \A i \in DOMAIN rows : start + i \in DOMAIN table /\ rows[i] = table[start + i]
  BY <1>1, <1>5, <1>6, RowsShown
<1>8. DOMAIN rows = 1..Len(rows)  BY <1>7, LenProperties
<1>9. /\ seen' = seen \o rows
      /\ cursor' = IF rows = <<>> THEN None ELSE start + Len(rows) - 1
      /\ phase' = IF ~(first # None /\ E < n) THEN "done"
                  ELSE IF rows = <<>> THEN "lost" ELSE "asking"
  BY <1>2, <1>4 DEF Slice
<1>10. phase' = IF E = counted THEN "done" ELSE IF rows = <<>> THEN "lost" ELSE "asking"
  BY <1>1, <1>3, <1>6, <1>9
<1> HIDE DEF rows
<1>11. start = IF cursor = None THEN 0 ELSE Least(cursor + 1, counted)  BY DEF start
<1>12. start \in Nat /\ E \in Nat /\ rows \in Seq(1..added)  BY <1>6, <1>7
<1> USE <1>12
<1> WITNESS start \in Nat, E \in Nat, rows \in Seq(1..added)
<1>13. QED  BY <1>1, <1>3, <1>6, <1>7, <1>8, <1>9, <1>10, <1>11

\* What a backward slice does: its page ends before the cursor, and is empty
\* only if it ends at the first row.
LEMMA BackwardSlice ==
    ASSUME WalkInv, Slice, direction = "backward"
    PROVE  \E start, E \in Nat, rows \in Seq(1..added) :
             /\ E = IF cursor = None THEN counted ELSE Least(counted, cursor)
             /\ start <= E /\ E <= counted /\ (E > 0 => start < E)
             /\ LET e == Least(E, Len(table))
                IN  /\ Len(rows) = IF start < e THEN e - start ELSE 0
                    /\ \A i \in 1..Len(rows) :
                         start + i \in 1..Len(table) /\ rows[i] = table[start + i]
             /\ seen' = rows \o seen
             /\ cursor' = IF rows = <<>> THEN None ELSE start
             /\ phase' = IF start = 0 THEN "done"
                         ELSE IF rows = <<>> THEN "lost" ELSE "asking"
<1> USE WalkAssumption, OptionAssumption
<1> DEFINE n == counted
           m == Len(table)
           E == IF cursor = None THEN n ELSE Least(n, cursor)
           start == Greatest(0, E - size)
           e == Least(E, m)
           rows == SubSeq(table, start + 1, e)
<1>1. /\ TypeOK /\ Bounded /\ n \in Nat /\ table \in Seq(1..added) /\ m \in Nat
      /\ DOMAIN table = 1..m
  BY LenProperties DEF WalkInv, TypeOK, Numbered
<1>2. /\ size \in Nat \ {0}
      /\ PageStart(Args, n, limit) = start /\ start \in 0..E
      /\ EndOffset(Args, n, limit) = E /\ E \in 0..n
      /\ HasPrevious(Args, n, limit) <=> start > 0
      /\ ~SliceRaises(Args, n, limit, "queryset")
  BY <1>1, BackwardPage
<1>3. PageEnd(Args, n, m, limit, "queryset") = e  BY <1>2 DEF PageEnd
<1> HIDE DEF E
<1>4. E > 0 => start < E  BY <1>2 DEF Greatest
<1> HIDE DEF start
<1>5. e \in 0..m  BY <1>1, <1>2 DEF Least
<1>6. start \in Nat /\ E \in Nat /\ start <= E /\ E <= n  BY <1>1, <1>2
<1>7. /\ rows \in Seq(1..added) /\ Len(rows) = IF start < e THEN e - start ELSE 0
      /\ \A i \in DOMAIN rows : start + i \in DOMAIN table /\ rows[i] = table[start + i]
  BY <1>1, <1>5, <1>6, RowsShown
<1>8. DOMAIN rows = 1..Len(rows)  BY <1>7, LenProperties
<1>9. /\ seen' = rows \o seen
      /\ cursor' = IF rows = <<>> THEN None ELSE start
      /\ phase' = IF ~(start > 0) THEN "done"
                  ELSE IF rows = <<>> THEN "lost" ELSE "asking"
  BY <1>2, <1>3 DEF Slice
<1>10. phase' = IF start = 0 THEN "done" ELSE IF rows = <<>> THEN "lost" ELSE "asking"
  BY <1>6, <1>9
<1> HIDE DEF rows
<1>11. E = IF cursor = None THEN counted ELSE Least(counted, cursor)  BY DEF E
<1>12. start \in Nat /\ E \in Nat /\ rows \in Seq(1..added)  BY <1>6, <1>7
<1> USE <1>12
<1> WITNESS start \in Nat, E \in Nat, rows \in Seq(1..added)
<1>13. QED  BY <1>1, <1>4, <1>6, <1>7, <1>8, <1>9, <1>10, <1>11

\* A walk begins with nothing seen.
LEMMA InitWalk == Init => WalkInv
<1> USE WalkAssumption, OptionAssumption
<1> SUFFICES ASSUME Init PROVE WalkInv
  OBVIOUS
<1>1. added \in Nat /\ added <= MaxRows  BY DEF Init
<1>2. /\ table \in Seq(1..added) /\ Len(table) = added /\ DOMAIN table = 1..added
      /\ \A i \in 1..added : table[i] = i
  <2>1. \A i \in 1..added : i \in 1..added  OBVIOUS
  <2>2. table \in Seq(1..added) /\ Len(table) = added
    BY <1>1, <2>1, IsASeq DEF Init
  <2>3. QED  BY <2>2 DEF Init
<1>3. /\ seen = <<>> /\ Len(seen) = 0 /\ DOMAIN seen = {} /\ \A S : seen \in Seq(S)
  BY EmptySeq DEF Init
<1>4. table \in Seq(1..MaxRows)
  <2>1. \A i \in 1..added : i \in 1..MaxRows  BY <1>1
  <2>2. QED  BY <1>1, <2>1, IsASeq DEF Init
<1>5. TypeOK
  <2>1. moved \in BOOLEAN /\ shifted \in BOOLEAN  BY Zenon DEF Init
  <2>2. QED  BY <1>1, <1>3, <1>4, <2>1 DEF Init, TypeOK
<1>6. Numbered  BY <1>1, <1>2, <1>3 DEF Init, Numbered
<1>7. QED
  BY <1>1, <1>2, <1>3, <1>5, <1>6 DEF Init, WalkInv, Bounded, SeenIsBehind, CursorAtEdge,
     Running, MoreToCome, SeenFromStart, EndIsTheEnd, NoRowTwice, NeverLost

\* Counting changes nothing that was seen, and sees all rows up to the cursor.
LEMMA CountWalk == WalkInv /\ Count => WalkInv'
<1> SUFFICES ASSUME WalkInv, Count PROVE WalkInv'
  OBVIOUS
<1> USE WalkAssumption, OptionAssumption
<1>1. phase = "asking"
      /\ UNCHANGED <<query, table, added, deletes, cursor, seen, moved, shifted>>
  BY DEF Count
<1>2. phase' = "counted" /\ counted' = Len(table)
  BY NotRefused DEF Count, WalkInv
<1>3. /\ Len(table) = added - deletes /\ added \in Nat /\ deletes \in Nat
      /\ added <= MaxRows /\ Len(table) \in Nat /\ DOMAIN table = 1..Len(table)
      /\ cursor = None \/ cursor \in Nat
  BY LenProperties DEF WalkInv, Numbered, TypeOK
<1>4. TypeOK'  BY <1>1, <1>2, <1>3 DEF WalkInv, TypeOK, query
<1>5. Bounded' /\ Numbered' /\ SeenFromStart' /\ NoRowTwice'
  BY <1>1, <1>2, <1>3 DEF WalkInv, Bounded, Numbered, SeenFromStart, NoRowTwice, Running, query
<1>6. SeenIsBehind'
  BY <1>1, <1>2 DEF WalkInv, SeenIsBehind, StillToRead, Running, query
<1>7. CursorAtEdge'
  BY <1>1, <1>2, <1>3 DEF WalkInv, CursorAtEdge, Running, query
<1>8. MoreToCome'
  BY <1>1, <1>2, <1>3 DEF WalkInv, MoreToCome, Running, query
<1>9. EndIsTheEnd' /\ NeverLost'
  BY <1>1, <1>2 DEF EndIsTheEnd, NeverLost
<1>10. QED  BY <1>4, <1>5, <1>6, <1>7, <1>8, <1>9 DEF WalkInv

\* A row added is new, and moves those behind it one place on.
LEMMA AddWalk == WalkInv /\ AddRow => WalkInv'
<1> SUFFICES ASSUME WalkInv, AddRow PROVE WalkInv'
  OBVIOUS
<1> USE WalkAssumption, OptionAssumption
<1> DEFINE m == Len(table)
<1>1. PICK k \in 1..(m + 1) :
        /\ table' = InsertAt(table, k, added + 1)
        /\ moved' = (moved \/ UpToCursor(k))
        /\ shifted' = (shifted \/ (direction = "forward" /\ UpToCursor(k)))
  BY DEF AddRow
<1>2. /\ added' = added + 1 /\ added < MaxRows
      /\ UNCHANGED <<query, deletes, phase, cursor, counted, seen>>
  BY DEF AddRow
<1>0. /\ moved' \in BOOLEAN /\ shifted' \in BOOLEAN
      /\ ~moved' => ~moved /\ ~UpToCursor(k)
      /\ ~shifted' => ~shifted /\ ~(direction = "forward" /\ UpToCursor(k))
  BY <1>1, Zenon
<1>3. /\ added \in Nat /\ deletes \in Nat /\ m = added - deletes /\ added <= MaxRows
      /\ table \in Seq(1..added) /\ seen \in Seq(1..added)
      /\ counted \in Nat /\ counted <= added
      /\ cursor = None \/ cursor \in Nat
      /\ direction \in {"forward", "backward"}
  BY DEF WalkInv, TypeOK, Numbered
<1>4. /\ m \in Nat /\ DOMAIN table = 1..m /\ Len(seen) \in Nat /\ DOMAIN seen = 1..Len(seen)
  BY <1>3, LenProperties
<1>5. table \in Seq(1..(added + 1)) /\ seen \in Seq(1..(added + 1))
  BY <1>3, SeqMonotonic
<1>6. /\ table' \in Seq(1..(added + 1)) /\ Len(table') = m + 1
      /\ \A j \in 1..(m + 1) :
           table'[j] = IF j < k THEN table[j] ELSE IF j = k THEN added + 1 ELSE table[j - 1]
  <2> DEFINE Ids == 1..(added + 1)
             new == added + 1
             t == InsertAt(table, k, new)
  <2>1. table' = t /\ new \in Ids /\ table \in Seq(Ids)  BY <1>1, <1>3, <1>5
  <2> HIDE DEF m, Ids, new
  <2>2. k \in 1..(Len(table) + 1)  BY DEF m
  <2>3. /\ t \in Seq(Ids) /\ Len(t) = Len(table) + 1
        /\ \A j \in 1..(Len(table) + 1) :
             t[j] = IF j < k THEN table[j] ELSE IF j = k THEN new ELSE table[j - 1]
    BY <2>1, <2>2, RowInserted
  <2> HIDE DEF t
  <2>4. QED  BY <2>1, <2>3 DEF m, Ids, new
<1>7. DOMAIN table' = 1..(m + 1)  BY <1>6, LenProperties
<1>8. /\ \A i \in 1..m : table[i] \in 1..added
      /\ \A i \in 1..Len(seen) : seen[i] \in 1..added
  BY <1>3, ElementOfSeq
<1>9. \A i, j \in 1..m : i # j => table[i] # table[j]  BY <1>4 DEF WalkInv, Numbered
<1> HIDE DEF m
<1>10. \* A row of the new table is the new one, or one of the old on its side of it.
       ASSUME NEW j \in 1..(m + 1)
       PROVE  \/ j = k /\ table'[j] = added + 1
              \/ j < k /\ j \in 1..m /\ table'[j] = table[j]
              \/ j > k /\ j - 1 \in 1..m /\ table'[j] = table[j - 1]
  BY <1>4, <1>6
<1>11. TypeOK'
  <2>1. table' \in Seq(1..MaxRows)  BY <1>2, <1>3, <1>6, SeqMonotonic
  <2>2. QED  BY <1>2, <1>3, <1>0, <2>1 DEF WalkInv, TypeOK, query
<1>12. Numbered'
  <2>1. ASSUME NEW i \in 1..(m + 1), NEW j \in 1..(m + 1), i < j
        PROVE  table'[i] # table'[j]
    <3>1. CASE i = k
      BY <1>3, <1>8, <1>10, <2>1, <3>1
    <3>2. CASE j = k
      BY <1>3, <1>8, <1>10, <2>1, <3>2
    <3>3. CASE i # k /\ j # k
      BY <1>4, <1>9, <1>10, <2>1, <3>3
    <3>4. QED  BY <3>1, <3>2, <3>3
  <2>2. \A i, j \in 1..(m + 1) : i # j => table'[i] # table'[j]
    BY <1>4, <2>1
  <2>3. Len(table') = added' - deletes' /\ counted' <= added'  BY <1>2, <1>3, <1>6
  <2>4. QED
    BY <1>2, <1>5, <1>6, <1>7, <2>2, <2>3 DEF WalkInv, Numbered, Running, query
<1>13. SeenIsBehind'
  <2> SUFFICES ASSUME ~shifted', Running, cursor # None,
                      NEW i \in 1..Len(seen), NEW j \in 1..(m + 1), StillToRead(j)
               PROVE  seen[i] # table'[j]
    BY <1>2, <1>4, <1>7 DEF SeenIsBehind, StillToRead, Running, query
  <2>1. ~shifted /\ (direction = "forward" => k > cursor + 1)
    BY <1>0, <1>3 DEF UpToCursor
  <2>2. \A x \in 1..m : StillToRead(x) => seen[i] # table[x]
    BY <1>4, <2>1 DEF WalkInv, SeenIsBehind
  <2>3. CASE j = k  BY <1>3, <1>8, <1>10, <2>3
  <2>4. CASE j < k  BY <1>10, <2>2, <2>4
  <2>5. CASE j > k
    <3>1. j - 1 \in 1..m /\ table'[j] = table[j - 1]  BY <1>10, <2>5
    <3>2. StillToRead(j - 1)  BY <1>3, <1>4, <2>1, <2>5 DEF StillToRead
    <3>3. QED  BY <2>2, <3>1, <3>2
  <2>6. QED  BY <1>4, <2>3, <2>4, <2>5
<1>14. CursorAtEdge'
  <2> SUFFICES ASSUME Running, cursor # None, ~moved'
               PROVE  /\ seen # <<>> /\ cursor + 1 \in 1..(m + 1)
                      /\ table'[cursor + 1] =
                           IF direction = "forward" THEN seen[Len(seen)] ELSE seen[1]
                      /\ phase = "counted" => cursor < counted
    BY <1>2, <1>7 DEF CursorAtEdge, Running, query
  <2>1. ~moved /\ cursor + 1 < k  BY <1>0, <1>3 DEF UpToCursor
  <2>2. /\ seen # <<>> /\ cursor + 1 \in 1..m
        /\ table[cursor + 1] = IF direction = "forward" THEN seen[Len(seen)] ELSE seen[1]
        /\ phase = "counted" => cursor < counted
    BY <1>4, <2>1 DEF WalkInv, CursorAtEdge
  <2>3. cursor + 1 \in 1..(m + 1)  BY <1>4, <2>2
  <2>4. table'[cursor + 1] = table[cursor + 1]  BY <1>6, <2>1, <2>3
  <2>5. QED  BY <2>2, <2>3, <2>4
<1>15. MoreToCome'
  <2> SUFFICES ASSUME deletes = 0, Running, cursor # None
               PROVE  LET n == IF phase = "counted" THEN counted ELSE m + 1
                      IN  IF direction = "forward" THEN cursor + 1 < n
                          ELSE 0 < cursor /\ cursor < n
    BY <1>2, <1>6 DEF MoreToCome, Running, query
  <2>1. LET n == IF phase = "counted" THEN counted ELSE m
        IN  IF direction = "forward" THEN cursor + 1 < n ELSE 0 < cursor /\ cursor < n
    BY DEF WalkInv, MoreToCome, m
  <2>2. QED  BY <1>3, <1>4, <2>1
<1>16. SeenFromStart'
  <2> SUFFICES ASSUME deletes = 0, direction = "forward", ~shifted'
               PROVE  /\ Len(seen) = IF cursor = None THEN 0 ELSE cursor + 1
                      /\ Len(seen) <= m + 1
                      /\ \A i \in 1..Len(seen) : seen[i] = table'[i]
    BY <1>2, <1>4, <1>6 DEF SeenFromStart, query
  <2>1. ~shifted /\ (cursor # None => cursor + 1 < k)  BY <1>0, <1>3 DEF UpToCursor
  <2>2. /\ Len(seen) = IF cursor = None THEN 0 ELSE cursor + 1
        /\ Len(seen) <= m
        /\ \A i \in 1..Len(seen) : seen[i] = table[i]
    BY <1>4, <2>1 DEF WalkInv, SeenFromStart, m
  <2>3. ASSUME NEW i \in 1..Len(seen) PROVE seen[i] = table'[i]
    <3>1. i < k /\ i \in 1..(m + 1)  BY <1>3, <1>4, <2>1, <2>2
    <3>2. QED  BY <1>6, <2>2, <3>1
  <2>4. QED  BY <1>4, <2>2, <2>3
<1>17. EndIsTheEnd'
  <2> SUFFICES ASSUME deletes = 0, phase = "done"
               PROVE  IF direction = "forward"
                      THEN shifted' \/ seen = SubSeq(table', 1, counted)
                      ELSE moved' \/ counted = 0 \/ (seen # <<>> /\ seen[1] = table'[1])
    BY <1>2 DEF EndIsTheEnd, query
  <2>1. CASE direction = "forward" /\ ~shifted'
    <3>1. ~shifted  BY <1>0, <2>1
    <3>2. seen = SubSeq(table, 1, counted)
      BY <2>1, <3>1 DEF WalkInv, EndIsTheEnd
    <3>3. Len(seen) = counted
      <4>1. counted <= m  BY <1>3
      <4>2. \A i \in 1..counted : table[i] \in 1..added  BY <1>3, <1>4, <1>8, <4>1
      <4>3. Len(SubSeq(table, 1, counted)) = IF 1 <= counted THEN counted - 1 + 1 ELSE 0
        BY <1>3, <4>2, SubSeqProperties
      <4> HIDE DEF m
      <4>4. QED  BY <1>3, <3>2, <4>3
    <3>4. Len(seen) <= Len(table') /\ \A i \in 1..Len(seen) : seen[i] = table'[i]
      BY <1>2, <1>4, <1>16, <2>1 DEF SeenFromStart, query
    <3>5. seen = SubSeq(table', 1, Len(seen))  BY <1>5, <1>6, <3>4, IsPrefixOf
    <3>6. QED  BY <2>1, <3>3, <3>5
  <2>2. CASE direction = "backward" /\ ~moved' /\ counted # 0
    <3>1. ~moved /\ (cursor # None => cursor + 1 < k)  BY <1>0, <1>3, <2>2 DEF UpToCursor
    <3>2. cursor # None  BY <2>2 DEF WalkInv, Numbered
    <3>3. seen # <<>> /\ seen[1] = table[1]
      BY <2>2, <3>1 DEF WalkInv, EndIsTheEnd
    <3>4. 1 \in 1..(m + 1) /\ 1 < k  BY <1>3, <1>4, <3>1, <3>2
    <3>5. QED  BY <1>6, <2>2, <3>3, <3>4
  <2>3. QED  BY <1>3, <2>1, <2>2
<1>18. NoRowTwice'
  <2>1. ~shifted' => ~shifted  BY <1>0
  <2>2. QED  BY <1>2, <2>1 DEF WalkInv, NoRowTwice
<1>19. Bounded' /\ NeverLost'
  BY <1>2 DEF WalkInv, Bounded, NeverLost, query
<1>20. QED
  BY <1>11, <1>12, <1>13, <1>14, <1>15, <1>16, <1>17, <1>18, <1>19 DEF WalkInv

\* A deletion moves the rows behind it one place to the front: each position
\* then holds the row it held, or the next one.
LEMMA DeleteWalk == WalkInv /\ DeleteRow => WalkInv'
<1> SUFFICES ASSUME WalkInv, DeleteRow PROVE WalkInv'
  OBVIOUS
<1> USE WalkAssumption, OptionAssumption
<1> DEFINE m == Len(table)
<1>1. PICK k \in DOMAIN table :
        /\ table' = RemoveAt(table, k)
        /\ moved' = (moved \/ UpToCursor(k))
        /\ shifted' = (shifted \/ (direction = "backward" /\ UpToCursor(k + 1)))
  BY DEF DeleteRow
<1>2. /\ deletes < MaxDeletes /\ deletes' = deletes + 1
      /\ UNCHANGED <<query, added, phase, cursor, counted, seen>>
  BY DEF DeleteRow
<1>0. /\ moved' \in BOOLEAN /\ shifted' \in BOOLEAN
      /\ ~moved' => ~moved /\ ~UpToCursor(k)
      /\ ~shifted' => ~shifted /\ ~(direction = "backward" /\ UpToCursor(k + 1))
  BY <1>1, Zenon
<1>3. /\ added \in Nat /\ deletes \in Nat /\ m = added - deletes /\ added <= MaxRows
      /\ table \in Seq(1..added) /\ seen \in Seq(1..added)
      /\ cursor = None \/ cursor \in Nat
      /\ direction \in {"forward", "backward"}
  BY DEF WalkInv, TypeOK, Numbered
<1>4. /\ m \in Nat /\ DOMAIN table = 1..m /\ Len(seen) \in Nat /\ DOMAIN seen = 1..Len(seen)
  BY <1>3, LenProperties
<1>5. /\ table' \in Seq(1..added) /\ Len(table') = m - 1 /\ k \in 1..m
      /\ \A j \in 1..(m - 1) : table'[j] = IF j < k THEN table[j] ELSE table[j + 1]
  <2>1. table' = RemoveAt(table, k)  BY <1>1
  <2> HIDE DEF m
  <2> DEFINE t == RemoveAt(table, k)
  <2>2. /\ t \in Seq(1..added) /\ Len(t) = Len(table) - 1 /\ k \in 1..Len(table)
        /\ \A j \in 1..(Len(table) - 1) : t[j] = IF j < k THEN table[j] ELSE table[j + 1]
    BY <1>3, RowRemoved
  <2> HIDE DEF t
  <2>3. table' = t  BY <2>1 DEF t
  <2>4. QED  BY <2>2, <2>3 DEF m
<1>6. DOMAIN table' = 1..(m - 1)  BY <1>5, LenProperties
<1>7. \A i, j \in 1..m : i # j => table[i] # table[j]  BY <1>4 DEF WalkInv, Numbered
<1>8. deletes' # 0  BY <1>2, <1>3
<1> HIDE DEF m
<1>9. TypeOK'
  <2>1. table' \in Seq(1..MaxRows)  BY <1>3, <1>5, SeqMonotonic
  <2>2. QED  BY <1>2, <1>3, <1>0, <2>1 DEF WalkInv, TypeOK, query
<1>10. Numbered'
  <2>1. ASSUME NEW i \in 1..(m - 1), NEW j \in 1..(m - 1), i < j
        PROVE  table'[i] # table'[j]
    <3>1. i \in 1..m /\ j \in 1..m /\ i + 1 \in 1..m /\ j + 1 \in 1..m  BY <1>4
    <3>2. QED  BY <1>4, <1>5, <1>7, <2>1, <3>1
  <2>2. \A i, j \in 1..(m - 1) : i # j => table'[i] # table'[j]  BY <1>4, <2>1
  <2>3. m - 1 = added - (deletes + 1)  BY <1>3
  <2>4. QED
    BY <1>2, <1>5, <1>6, <1>8, <2>2, <2>3 DEF WalkInv, Numbered, Running, query
<1>11. SeenIsBehind'
  <2> SUFFICES ASSUME ~shifted', Running, cursor # None,
                      NEW i \in 1..Len(seen), NEW j \in 1..(m - 1), StillToRead(j)
               PROVE  seen[i] # table'[j]
    BY <1>2, <1>4, <1>6 DEF SeenIsBehind, StillToRead, Running, query
  <2>1. ~shifted /\ (direction = "backward" => k > cursor)
    <3>1. k + 1 > cursor + 1 => k > cursor  BY <1>3, <1>5
    <3>2. direction = "backward" => ~(k + 1 <= cursor + 1)  BY <1>0 DEF UpToCursor
    <3>3. QED  BY <1>0, <1>3, <1>5, <3>1, <3>2
  <2>2. \A x \in 1..m : StillToRead(x) => seen[i] # table[x]
    BY <1>4, <2>1 DEF WalkInv, SeenIsBehind
  <2>3. j \in 1..m /\ j + 1 \in 1..m  BY <1>4
  <2>4. CASE j < k
    <3>1. table'[j] = table[j]  BY <1>5, <2>4
    <3>2. QED  BY <2>2, <2>3, <3>1
  <2>5. CASE ~(j < k)
    <3>1. StillToRead(j + 1)
      <4>1. cursor \in Nat /\ k \in Nat /\ j \in Nat  BY <1>3, <1>4, <1>5
      <4>2. CASE direction = "forward"  BY <4>1, <4>2 DEF StillToRead
      <4>3. CASE direction = "backward"
        <5>1. k > cursor  BY <2>1, <4>3
        <5>2. j <= cursor  BY <4>3 DEF StillToRead
        <5>3. QED  BY <2>5, <4>1, <5>1, <5>2
      <4>4. QED  BY <1>3, <4>2, <4>3
    <3>2. QED  BY <1>5, <2>2, <2>3, <2>5, <3>1
  <2>6. QED  BY <2>4, <2>5
<1>12. CursorAtEdge'
  <2> SUFFICES ASSUME Running, cursor # None, ~moved'
               PROVE  /\ seen # <<>> /\ cursor + 1 \in 1..(m - 1)
                      /\ table'[cursor + 1] =
                           IF direction = "forward" THEN seen[Len(seen)] ELSE seen[1]
                      /\ phase = "counted" => cursor < counted
    BY <1>2, <1>6 DEF CursorAtEdge, Running, query
  <2>1. ~moved /\ cursor + 1 < k  BY <1>0, <1>3, <1>5 DEF UpToCursor
  <2>2. /\ seen # <<>> /\ cursor + 1 \in 1..m
        /\ table[cursor + 1] = IF direction = "forward" THEN seen[Len(seen)] ELSE seen[1]
        /\ phase = "counted" => cursor < counted
    BY <1>4, <2>1 DEF WalkInv, CursorAtEdge
  <2>3. cursor + 1 \in 1..(m - 1)  BY <1>4, <1>5, <2>1, <2>2
  <2>4. table'[cursor + 1] = table[cursor + 1]  BY <1>5, <2>1, <2>3
  <2>5. QED  BY <2>2, <2>3, <2>4
<1>13. MoreToCome' /\ SeenFromStart' /\ EndIsTheEnd' /\ NeverLost'
  BY <1>8 DEF MoreToCome, SeenFromStart, EndIsTheEnd, NeverLost
<1>14. NoRowTwice'
  <2>1. ~shifted' => ~shifted  BY <1>0
  <2>2. QED  BY <1>2, <2>1 DEF WalkInv, NoRowTwice
<1>15. Bounded'
  BY <1>2 DEF WalkInv, Bounded, query
<1>16. QED
  BY <1>9, <1>10, <1>11, <1>12, <1>13, <1>14, <1>15 DEF WalkInv

\* A forward page goes on behind what was seen: what it shows is new unless a
\* row was moved there, and while nothing is deleted it leaves nothing out.
LEMMA SliceForward == WalkInv /\ Slice /\ direction = "forward" => WalkInv'
<1> SUFFICES ASSUME WalkInv, Slice, direction = "forward" PROVE WalkInv'
  OBVIOUS
<1> USE WalkAssumption, OptionAssumption
<1> DEFINE n == counted
           m == Len(table)
           L == Len(seen)
<1>1. PICK start, E \in Nat, rows \in Seq(1..added) :
        /\ start = IF cursor = None THEN 0 ELSE Least(cursor + 1, n)
        /\ start <= E /\ E <= n /\ (E < n => start < E)
        /\ LET e == Least(E, m)
           IN  /\ Len(rows) = IF start < e THEN e - start ELSE 0
               /\ \A i \in 1..Len(rows) : start + i \in 1..m /\ rows[i] = table[start + i]
        /\ seen' = seen \o rows
        /\ cursor' = IF rows = <<>> THEN None ELSE start + Len(rows) - 1
        /\ phase' = IF E = n THEN "done" ELSE IF rows = <<>> THEN "lost" ELSE "asking"
  BY ForwardSlice
<1>2. /\ phase = "counted" /\ moved' = FALSE
      /\ UNCHANGED <<query, table, added, deletes, counted, shifted>>
  BY DEF Slice
<1> DEFINE k == Len(rows)
<1>3. /\ added \in Nat /\ deletes \in Nat /\ m = added - deletes /\ added <= MaxRows
      /\ n \in Nat /\ n <= added /\ table \in Seq(1..added) /\ seen \in Seq(1..added)
      /\ cursor = None \/ cursor \in Nat
      /\ TypeOK /\ Running
      /\ cursor = None <=> seen = <<>>
  BY <1>2 DEF WalkInv, TypeOK, Numbered, Running
<1>4. /\ m \in Nat /\ DOMAIN table = 1..m /\ L \in Nat /\ DOMAIN seen = 1..L
      /\ k \in Nat /\ DOMAIN rows = 1..k /\ (rows = <<>> <=> k = 0)
      /\ (seen = <<>> <=> L = 0)
  BY <1>1, <1>3, LenProperties, EmptySeq
<1>5. \* Positions.
      /\ start \in Nat /\ E \in Nat /\ start <= E /\ E <= n
      /\ k > 0 => /\ start + k <= E /\ start + k <= m
                  /\ start < n
                  /\ cursor # None => start = cursor + 1
      /\ m >= E => k = E - start
  <2>1. \A x, y \in Int : Least(x, y) <= x /\ Least(x, y) <= y /\ Least(x, y) \in {x, y}
                          /\ (x <= y => Least(x, y) = x)
    BY DEF Least
  <2>2. k = IF start < Least(E, m) THEN Least(E, m) - start ELSE 0  BY <1>1
  <2>3. k > 0 => start < Least(E, m) /\ k = Least(E, m) - start  BY <2>2
  <2> HIDE DEF k, m, n
  <2>4. Least(E, m) \in Int /\ Least(E, m) <= E /\ Least(E, m) <= m /\ n \in Nat /\ m \in Nat
        /\ (m >= E => Least(E, m) = E)
    BY <1>3, <1>4, <2>1 DEF n, m
  <2>5. start <= E /\ E <= n  BY <1>1 DEF n
  <2>6. k > 0 => start + k <= E /\ start + k <= m /\ start < n
    BY <1>1, <2>3, <2>4, <2>5
  <2>7. cursor # None => start = Least(cursor + 1, n) /\ cursor + 1 \in Int
    BY <1>1, <1>3 DEF n
  <2>8. cursor # None /\ start < n => start = cursor + 1
    BY <2>1, <2>4, <2>7
  <2>9. m >= E => k = E - start
    BY <1>1, <2>2, <2>4, <2>5
  <2>10. QED  BY <1>1, <2>5, <2>6, <2>8, <2>9
<1>6. /\ seen' \in Seq(1..added) /\ Len(seen') = L + k
      /\ \A i \in 1..(L + k) : seen'[i] = IF i <= L THEN seen[i] ELSE rows[i - L]
  <2>1. seen' = seen \o rows /\ seen \in Seq(1..added) /\ rows \in Seq(1..added)
    BY <1>1, <1>3
  <2> HIDE DEF k, L, m, n
  <2>2. QED  BY <2>1, ConcatProperties DEF k, L
<1>7. DOMAIN seen' = 1..(L + k)  BY <1>6, LenProperties
<1> HIDE DEF k, m, n, L
<1>8. ASSUME NEW i \in 1..(L + k)
      PROVE  \/ i \in 1..L /\ seen'[i] = seen[i]
             \/ /\ i > L /\ i - L \in 1..k /\ start + (i - L) \in 1..m
                /\ seen'[i] = table[start + (i - L)]
  <2>1. CASE i <= L  BY <1>4, <1>6, <2>1
  <2>2. CASE ~(i <= L)
    <3>1. i - L \in 1..k /\ i > L  BY <1>4, <2>2
    <3>2. seen'[i] = rows[i - L]  BY <1>6, <2>2
    <3>3. start + (i - L) \in 1..m /\ rows[i - L] = table[start + (i - L)]
      BY <1>1, <3>1 DEF k, m
    <3>4. QED  BY <3>1, <3>2, <3>3
  <2>3. QED  BY <2>1, <2>2
<1>9. \A i, j \in 1..m : i # j => table[i] # table[j]
  BY <1>4 DEF WalkInv, Numbered
<1>10. \* What was seen is not where the page goes on.
       ASSUME ~shifted, NEW i \in 1..L, NEW j \in 1..m, j > start, k > 0
       PROVE  seen[i] # table[j]
  <2>1. cursor # None  BY <1>3, <1>4
  <2>2. cursor \in Nat /\ j >= cursor + 2  BY <1>3, <1>5, <1>10, <2>1
  <2>3. StillToRead(j)  BY <2>2 DEF StillToRead
  <2>4. QED  BY <1>3, <1>4, <1>10, <2>1, <2>3 DEF WalkInv, SeenIsBehind
<1>11. NoRowTwice'
  <2> SUFFICES ASSUME ~shifted, NEW i \in 1..(L + k), NEW j \in 1..(L + k), i < j
               PROVE  seen'[i] # seen'[j]
    <3>1. \A i, j \in Int : i # j => i < j \/ j < i  OBVIOUS
    <3>2. L + k \in Nat  BY <1>4
    <3>3. shifted' = shifted  BY <1>2
    <3>4. QED  BY <1>7, <3>1, <3>2, <3>3 DEF NoRowTwice
  <2>1. CASE j <= L
    <3>1. i \in 1..L /\ j \in 1..L  BY <1>4, <2>1
    <3>2. seen[i] # seen[j]  BY <1>4, <3>1 DEF WalkInv, NoRowTwice
    <3>3. QED  BY <1>4, <1>8, <3>1, <3>2
  <2>2. CASE ~(j <= L)
    <3>1. /\ start + (j - L) \in 1..m /\ seen'[j] = table[start + (j - L)]
          /\ start + (j - L) > start /\ k > 0
      BY <1>4, <1>5, <1>8, <2>2
    <3>2. CASE i <= L
      <4>1. i \in 1..L /\ seen'[i] = seen[i]  BY <1>4, <1>8, <3>2
      <4>2. QED  BY <1>10, <3>1, <4>1
    <3>3. CASE ~(i <= L)
      <4>1. start + (i - L) \in 1..m /\ seen'[i] = table[start + (i - L)]
        BY <1>4, <1>8, <3>3
      <4>2. start + (i - L) # start + (j - L)  BY <1>4, <1>5
      <4>3. QED  BY <1>9, <3>1, <4>1, <4>2
    <3>4. QED  BY <3>2, <3>3
  <2>3. QED  BY <2>1, <2>2
<1>12. \* A client that asks on has a cursor at the end of its page.
       ASSUME phase' = "asking"
       PROVE  /\ k > 0 /\ E < n /\ cursor' = start + k - 1 /\ cursor' \in Nat
              /\ cursor' # None /\ seen' # <<>>
  <2>1. rows # <<>> /\ E # n  BY <1>1, <1>12 DEF n
  <2>2. k > 0 /\ cursor' = start + k - 1  BY <1>1, <1>4, <2>1 DEF k
  <2>3. E < n  BY <1>3, <1>5, <2>1
  <2>4. cursor' \in Nat  BY <1>4, <1>5, <2>2
  <2>5. Len(seen') # 0  BY <1>4, <1>6, <2>2
  <2>6. seen' # <<>>  BY <2>5, EmptySeq
  <2>7. QED  BY <2>2, <2>3, <2>4, <2>6
<1>13. phase' # "counted"  BY <1>1 DEF n
<1>14. SeenIsBehind'
  <2> SUFFICES ASSUME ~shifted, phase' = "asking",
                      NEW i \in 1..(L + k), NEW j \in 1..m, j >= cursor' + 2
               PROVE  seen'[i] # table[j]
    BY <1>2, <1>4, <1>7, <1>13 DEF SeenIsBehind, StillToRead, Running, query
  <2>1. k > 0 /\ j > start + k  BY <1>4, <1>5, <1>12
  <2>2. CASE i <= L
    <3>1. i \in 1..L /\ seen'[i] = seen[i] /\ j > start  BY <1>4, <1>5, <1>8, <2>1, <2>2
    <3>2. QED  BY <1>10, <2>1, <3>1
  <2>3. CASE ~(i <= L)
    <3>1. start + (i - L) \in 1..m /\ seen'[i] = table[start + (i - L)] /\ i - L \in 1..k
      BY <1>4, <1>8, <2>3
    <3>2. start + (i - L) # j  BY <1>4, <1>5, <2>1, <3>1
    <3>3. QED  BY <1>9, <3>1, <3>2
  <2>4. QED  BY <2>2, <2>3
<1>15. CursorAtEdge'
  <2> SUFFICES ASSUME phase' = "asking"
               PROVE  /\ seen' # <<>> /\ cursor' + 1 \in 1..m
                      /\ table[cursor' + 1] = seen'[Len(seen')]
    BY <1>2, <1>4, <1>13 DEF CursorAtEdge, Running, query
  <2>1. cursor' + 1 = start + k /\ start + k \in 1..m  BY <1>4, <1>5, <1>12
  <2>2. L + k \in 1..(L + k) /\ ~(L + k <= L) /\ (L + k) - L = k  BY <1>4, <1>12
  <2>3. seen'[L + k] = table[start + k]  BY <1>8, <2>2
  <2>4. QED  BY <1>6, <1>12, <2>1, <2>3
<1>16. deletes = 0 => m = added /\ E <= m /\ k = E - start
  BY <1>3, <1>4, <1>5
<1>17. MoreToCome'
  <2> SUFFICES ASSUME deletes = 0, phase' = "asking" PROVE cursor' + 1 < m
    BY <1>2, <1>13 DEF MoreToCome, Running, query, m
  <2>1. QED  BY <1>3, <1>4, <1>5, <1>12, <1>16
<1>18. \* While nothing is deleted, an empty page is the only page.
       ASSUME deletes = 0, k = 0 PROVE cursor = None /\ E = n /\ n = 0
  <2>1. start = E  BY <1>5, <1>16, <1>18
  <2>2. E = n  BY <1>1, <1>3, <1>5, <2>1 DEF n
  <2>3. cursor = None
    <3>1. cursor # None => cursor + 1 < n
      BY <1>2, <1>3, <1>18 DEF WalkInv, MoreToCome, n
    <3>2. cursor # None => start = cursor + 1  BY <1>1, <1>3, <3>1 DEF Least, n
    <3>3. QED  BY <1>3, <2>1, <2>2, <3>1, <3>2
  <2>4. QED  BY <1>1, <2>1, <2>2, <2>3
<1>19. SeenFromStart'
  <2> SUFFICES ASSUME deletes = 0, ~shifted
               PROVE  /\ L + k = IF cursor' = None THEN 0 ELSE cursor' + 1
                      /\ L + k <= m
                      /\ \A i \in 1..(L + k) : seen'[i] = table[i]
    BY <1>2, <1>6, <1>7 DEF SeenFromStart, query, m
  <2>1. /\ L = IF cursor = None THEN 0 ELSE cursor + 1
        /\ L <= m /\ \A i \in 1..L : seen[i] = table[i]
    BY <1>4 DEF WalkInv, SeenFromStart, L, m
  <2>2. CASE k = 0
    <3>1. cursor = None /\ cursor' = None  BY <1>1, <1>4, <1>18, <2>2
    <3>2. L = 0  BY <2>1, <3>1
    <3>3. QED  BY <1>4, <2>2, <3>1, <3>2
  <2>3. CASE k > 0
    <3>1. start = L  BY <1>1, <1>5, <2>1, <2>3
    <3>2. cursor' = start + k - 1 /\ cursor' # None
      <4>1. cursor' = start + k - 1  BY <1>1, <1>4, <2>3 DEF k
      <4>2. QED  BY <1>4, <1>5, <4>1
    <3>3. ASSUME NEW i \in 1..(L + k) PROVE seen'[i] = table[i]
      <4>1. start + (i - L) = i  BY <1>4, <3>1
      <4>2. QED  BY <1>8, <2>1, <4>1
    <3>4. QED  BY <1>4, <1>5, <2>3, <3>1, <3>2, <3>3
  <2>4. QED  BY <1>4, <2>2, <2>3
<1>20. EndIsTheEnd'
  <2> SUFFICES ASSUME deletes = 0, phase' = "done", ~shifted
               PROVE  seen' = SubSeq(table, 1, n)
    BY <1>2 DEF EndIsTheEnd, query, n
  <2>1. E = n  BY <1>1, <1>4 DEF n
  <2>2. /\ Len(seen') = IF cursor' = None THEN 0 ELSE cursor' + 1
        /\ Len(seen') <= m /\ \A i \in 1..Len(seen') : seen'[i] = table[i]
    BY <1>2, <1>6, <1>7, <1>19 DEF SeenFromStart, query, m
  <2>3. Len(seen') = n
    <3>1. CASE k = 0
      <4>1. cursor' = None /\ n = 0  BY <1>1, <1>4, <1>18, <3>1
      <4>2. QED  BY <2>2, <4>1
    <3>2. CASE k > 0
      <4>1. cursor' = start + k - 1  BY <1>1, <1>4, <3>2 DEF k
      <4>2. cursor' \in Nat /\ cursor' # None /\ cursor' + 1 = start + k
        BY <1>4, <1>5, <3>2, <4>1
      <4>3. start + k = n  BY <1>4, <1>5, <1>16, <2>1
      <4>4. QED  BY <2>2, <4>2, <4>3
    <3>3. QED  BY <1>4, <3>1, <3>2
  <2>4. seen' = SubSeq(table, 1, Len(seen'))  BY <1>3, <1>6, <2>2, IsPrefixOf DEF m
  <2>5. QED  BY <2>3, <2>4
<1>21. NeverLost'
  <2> SUFFICES ASSUME deletes = 0 PROVE phase' \notin {"lost", "failed"}
    BY <1>2 DEF NeverLost
  <2>1. k = 0 => E = n  BY <1>18
  <2>2. QED  BY <1>1, <1>4, <2>1 DEF n
<1>22. TypeOK'
  <2>1. cursor' \in {None} \cup (0..MaxRows)
    <3>1. k > 0 => start + k - 1 \in 0..MaxRows
      BY <1>3, <1>4, <1>5
    <3>2. QED  BY <1>1, <1>4, <3>1 DEF k
  <2>2. seen' \in Seq(1..MaxRows)  BY <1>3, <1>6, SeqMonotonic
  <2>3. phase' \in {"asking", "done", "lost"}  BY <1>1
  <2>4. QED  BY <1>2, <1>3, <2>1, <2>2, <2>3 DEF TypeOK, query
<1>23. Numbered'
  <2>1. Running' => (cursor' = None <=> seen' = <<>>)
    BY <1>12, <1>13 DEF Running
  <2>2. QED  BY <1>2, <1>6, <2>1 DEF WalkInv, Numbered, query
<1>24. Bounded'  BY <1>2 DEF WalkInv, Bounded, query
<1>25. QED
  BY <1>11, <1>14, <1>15, <1>17, <1>19, <1>20, <1>21, <1>22, <1>23, <1>24 DEF WalkInv

\* A backward page ends before what was seen; while nothing is deleted, the last
\* of them begins with the first row.
LEMMA SliceBackward == WalkInv /\ Slice /\ direction = "backward" => WalkInv'
<1> SUFFICES ASSUME WalkInv, Slice, direction = "backward" PROVE WalkInv'
  OBVIOUS
<1> USE WalkAssumption, OptionAssumption
<1> DEFINE n == counted
           m == Len(table)
           L == Len(seen)
<1>1. PICK start, E \in Nat, rows \in Seq(1..added) :
        /\ E = IF cursor = None THEN n ELSE Least(n, cursor)
        /\ start <= E /\ E <= n /\ (E > 0 => start < E)
        /\ LET e == Least(E, m)
           IN  /\ Len(rows) = IF start < e THEN e - start ELSE 0
               /\ \A i \in 1..Len(rows) : start + i \in 1..m /\ rows[i] = table[start + i]
        /\ seen' = rows \o seen
        /\ cursor' = IF rows = <<>> THEN None ELSE start
        /\ phase' = IF start = 0 THEN "done" ELSE IF rows = <<>> THEN "lost" ELSE "asking"
  BY BackwardSlice
<1>2. /\ phase = "counted" /\ moved' = FALSE
      /\ UNCHANGED <<query, table, added, deletes, counted, shifted>>
  BY DEF Slice
<1> DEFINE k == Len(rows)
<1>3. /\ added \in Nat /\ deletes \in Nat /\ m = added - deletes /\ added <= MaxRows
      /\ n \in Nat /\ n <= added /\ table \in Seq(1..added) /\ seen \in Seq(1..added)
      /\ cursor = None \/ cursor \in Nat
      /\ TypeOK /\ Running
      /\ cursor = None <=> seen = <<>>
  BY <1>2 DEF WalkInv, TypeOK, Numbered, Running
<1>4. /\ m \in Nat /\ DOMAIN table = 1..m /\ L \in Nat /\ DOMAIN seen = 1..L
      /\ k \in Nat /\ DOMAIN rows = 1..k /\ (rows = <<>> <=> k = 0)
      /\ (seen = <<>> <=> L = 0)
  BY <1>1, <1>3, LenProperties, EmptySeq
<1>5. /\ k > 0 => start + k <= E /\ start + k <= m /\ (cursor # None => E <= cursor)
      /\ m >= E => k = E - start
      /\ cursor # None /\ cursor < n /\ cursor < m =>
           E = cursor /\ (k > 0 => start + k = cursor)
  <2>1. k = IF start < Least(E, m) THEN Least(E, m) - start ELSE 0  BY <1>1
  <2> HIDE DEF k, m, n
  <2>2. n \in Nat /\ m \in Nat /\ k \in Nat  BY <1>3, <1>4
  <2>3. E = (IF cursor = None THEN n ELSE Least(n, cursor)) /\ start <= E /\ E <= n
    BY <1>1 DEF n
  <2>4. /\ start \in Nat /\ E \in Nat /\ (cursor = None \/ cursor \in Nat)
        /\ start <= E /\ E <= n
    BY <1>1, <1>3 DEF n
  <2>5. \A x, y \in Int : Least(x, y) <= x /\ Least(x, y) <= y /\ Least(x, y) \in {x, y}
                          /\ (x <= y => Least(x, y) = x) /\ (y <= x => Least(x, y) = y)
    BY DEF Least
  <2>6. Least(E, m) \in Int /\ Least(E, m) <= E /\ Least(E, m) <= m
        /\ (m >= E => Least(E, m) = E)
    BY <2>2, <2>4, <2>5
  <2>7. cursor # None => E <= cursor /\ (cursor < n => E = cursor)
    BY <2>2, <2>3, <2>4, <2>5
  <2>8. k > 0 => start + k = Least(E, m)
    BY <2>1, <2>2, <2>4, <2>6
  <2>9. m >= E => k = E - start
    BY <2>1, <2>2, <2>4, <2>6
  <2>10. QED  BY <2>2, <2>4, <2>6, <2>7, <2>8, <2>9
<1>6. /\ seen' \in Seq(1..added) /\ Len(seen') = k + L
      /\ \A i \in 1..(k + L) : seen'[i] = IF i <= k THEN rows[i] ELSE seen[i - k]
  <2>1. seen' = rows \o seen /\ seen \in Seq(1..added) /\ rows \in Seq(1..added)
    BY <1>1, <1>3
  <2> HIDE DEF k, L, m, n
  <2>2. QED  BY <2>1, ConcatProperties DEF k, L
<1>7. DOMAIN seen' = 1..(k + L)  BY <1>6, LenProperties
<1> HIDE DEF k, m, n, L
<1>8. ASSUME NEW i \in 1..(k + L)
      PROVE  \/ /\ i \in 1..k /\ start + i \in 1..m /\ seen'[i] = table[start + i]
             \/ i > k /\ i - k \in 1..L /\ seen'[i] = seen[i - k]
  <2>1. CASE i <= k
    <3>1. i \in 1..k /\ seen'[i] = rows[i]  BY <1>4, <1>6, <2>1
    <3>2. start + i \in 1..m /\ rows[i] = table[start + i]  BY <1>1, <3>1 DEF k, m
    <3>3. QED  BY <3>1, <3>2
  <2>2. CASE ~(i <= k)  BY <1>4, <1>6, <2>2
  <2>3. QED  BY <2>1, <2>2
<1>9. \A i, j \in 1..m : i # j => table[i] # table[j]
  BY <1>4 DEF WalkInv, Numbered
<1>10. \* What was seen is not before the cursor.
       ASSUME ~shifted, NEW i \in 1..L, NEW j \in 1..m, j <= start + k, k > 0
       PROVE  seen[i] # table[j]
  <2>1. cursor # None  BY <1>3, <1>4
  <2>2. cursor \in Nat /\ j <= cursor  BY <1>1, <1>3, <1>4, <1>5, <1>10, <2>1
  <2>3. StillToRead(j)  BY <2>2 DEF StillToRead
  <2>4. QED  BY <1>3, <1>4, <1>10, <2>1, <2>3 DEF WalkInv, SeenIsBehind
<1>11. NoRowTwice'
  <2> SUFFICES ASSUME ~shifted, NEW i \in 1..(k + L), NEW j \in 1..(k + L), i < j
               PROVE  seen'[i] # seen'[j]
    <3>1. \A i, j \in Int : i # j => i < j \/ j < i  OBVIOUS
    <3>2. k + L \in Nat  BY <1>4
    <3>3. shifted' = shifted  BY <1>2
    <3>4. QED  BY <1>7, <3>1, <3>2, <3>3 DEF NoRowTwice
  <2>1. CASE i > k
    <3>1. i - k \in 1..L /\ j - k \in 1..L /\ i - k # j - k
          /\ seen'[i] = seen[i - k] /\ seen'[j] = seen[j - k]
      BY <1>4, <1>8, <2>1
    <3>2. seen[i - k] # seen[j - k]  BY <1>4, <3>1 DEF WalkInv, NoRowTwice
    <3>3. QED  BY <3>1, <3>2
  <2>2. CASE ~(i > k)
    <3>1. /\ start + i \in 1..m /\ seen'[i] = table[start + i]
          /\ start + i <= start + k /\ k > 0
      BY <1>1, <1>4, <1>8, <2>2
    <3>2. CASE j > k
      <4>1. j - k \in 1..L /\ seen'[j] = seen[j - k]  BY <1>4, <1>8, <3>2
      <4>2. QED  BY <1>10, <3>1, <4>1
    <3>3. CASE ~(j > k)
      <4>1. start + j \in 1..m /\ seen'[j] = table[start + j]
        BY <1>4, <1>8, <3>3
      <4>2. start + i # start + j  BY <1>1, <1>4
      <4>3. QED  BY <1>9, <3>1, <4>1, <4>2
    <3>4. QED  BY <3>2, <3>3
  <2>3. QED  BY <2>1, <2>2
<1>12. \* A client that asks on has a cursor at the beginning of its page.
       ASSUME phase' = "asking"
       PROVE  k > 0 /\ cursor' = start /\ start > 0 /\ cursor' # None /\ seen' # <<>>
  <2>1. rows # <<>> /\ start # 0  BY <1>1, <1>12
  <2>2. k > 0 /\ cursor' = start /\ start > 0  BY <1>1, <1>4, <2>1
  <2>3. Len(seen') # 0  BY <1>4, <1>6, <2>2
  <2>4. seen' # <<>>  BY <2>3, EmptySeq
  <2>5. QED  BY <1>1, <2>2, <2>4
<1>13. phase' # "counted"  BY <1>1
<1>14. SeenIsBehind'
  <2> SUFFICES ASSUME ~shifted, phase' = "asking",
                      NEW i \in 1..(k + L), NEW j \in 1..m, j <= cursor'
               PROVE  seen'[i] # table[j]
    BY <1>2, <1>4, <1>7, <1>13 DEF SeenIsBehind, StillToRead, Running, query
  <2>1. k > 0 /\ j <= start /\ j <= start + k  BY <1>1, <1>4, <1>12
  <2>2. CASE i > k
    <3>1. i - k \in 1..L /\ seen'[i] = seen[i - k]  BY <1>4, <1>8, <2>2
    <3>2. QED  BY <1>10, <2>1, <3>1
  <2>3. CASE ~(i > k)
    <3>1. start + i \in 1..m /\ seen'[i] = table[start + i] /\ i \in 1..k
      BY <1>4, <1>8, <2>3
    <3>2. start + i # j  BY <1>1, <1>4, <2>1, <3>1
    <3>3. QED  BY <1>9, <3>1, <3>2
  <2>4. QED  BY <2>2, <2>3
<1>15. k > 0 => /\ start + 1 \in 1..m /\ seen' # <<>> /\ seen'[1] = table[start + 1]
                /\ start < m
  <2> SUFFICES ASSUME k > 0 PROVE /\ start + 1 \in 1..m /\ seen' # <<>>
                                  /\ seen'[1] = table[start + 1] /\ start < m
    OBVIOUS
  <2>1. 1 \in 1..(k + L) /\ ~(1 > k)  BY <1>4
  <2>2. start + 1 \in 1..m /\ seen'[1] = table[start + 1]  BY <1>8, <2>1
  <2>3. Len(seen') # 0  BY <1>4, <1>6
  <2>4. seen' # <<>>  BY <2>3, EmptySeq
  <2>5. start < m  BY <1>4, <2>2
  <2>6. QED  BY <2>2, <2>4, <2>5
<1>16. CursorAtEdge'
  <2> SUFFICES ASSUME phase' = "asking"
               PROVE  /\ seen' # <<>> /\ cursor' + 1 \in 1..m
                      /\ table[cursor' + 1] = seen'[1]
    BY <1>2, <1>4, <1>13 DEF CursorAtEdge, Running, query
  <2>1. QED  BY <1>12, <1>15
<1>17. MoreToCome'
  <2> SUFFICES ASSUME phase' = "asking" PROVE 0 < cursor' /\ cursor' < m
    BY <1>2, <1>13 DEF MoreToCome, Running, query, m
  <2>1. QED  BY <1>12, <1>15
<1>18. \* While nothing is deleted, only an empty count makes an empty page.
       ASSUME deletes = 0, k = 0 PROVE start = 0 /\ n = 0
  <2>1. m >= E  BY <1>1, <1>3, <1>4, <1>18 DEF n
  <2>2. k = E - start  BY <1>5, <2>1
  <2>3. E = 0 /\ start = 0  BY <1>1, <1>18, <2>2
  <2>4. CASE cursor = None  BY <1>1, <2>3, <2>4 DEF n
  <2>5. CASE cursor # None
    <3>1. 0 < cursor /\ cursor < n
      BY <1>2, <1>3, <1>18, <2>5 DEF WalkInv, MoreToCome, n
    <3>2. E = cursor  BY <1>1, <1>3, <2>5, <3>1 DEF Least, n
    <3>3. QED  BY <1>3, <2>3, <3>1, <3>2
  <2>6. QED  BY <2>3, <2>4, <2>5
<1>19. EndIsTheEnd'
  <2> SUFFICES ASSUME deletes = 0, phase' = "done", n # 0
               PROVE  seen' # <<>> /\ seen'[1] = table[1]
    BY <1>2 DEF EndIsTheEnd, query, n
  <2>1. k > 0  BY <1>4, <1>18
  <2>2. start = 0  BY <1>1, <1>4, <2>1
  <2>3. QED  BY <1>15, <2>1, <2>2
<1>20. NeverLost'
  <2> SUFFICES ASSUME deletes = 0 PROVE phase' \notin {"lost", "failed"}
    BY <1>2 DEF NeverLost
  <2>1. k = 0 => start = 0  BY <1>18
  <2>2. QED  BY <1>1, <1>4, <2>1
<1>21. TypeOK'
  <2>1. cursor' \in {None} \cup (0..MaxRows)
    <3>1. start \in 0..MaxRows  BY <1>1, <1>3 DEF n
    <3>2. QED  BY <1>1, <3>1
  <2>2. seen' \in Seq(1..MaxRows)  BY <1>3, <1>6, SeqMonotonic
  <2>3. phase' \in {"asking", "done", "lost"}  BY <1>1
  <2>4. QED  BY <1>2, <1>3, <2>1, <2>2, <2>3 DEF TypeOK, query
<1>22. Numbered'
  <2>1. Running' => (cursor' = None <=> seen' = <<>>)
    BY <1>12, <1>13 DEF Running
  <2>2. deletes = 0 /\ n # 0 => cursor' # None
    <3>1. k > 0 => cursor' = start  BY <1>1, <1>4
    <3>2. QED  BY <1>4, <1>18, <3>1
  <2>3. QED  BY <1>2, <1>6, <2>1, <2>2 DEF WalkInv, Numbered, query, n
<1>23. Bounded' /\ SeenFromStart'
  BY <1>2 DEF WalkInv, Bounded, SeenFromStart, query
<1>24. QED
  BY <1>11, <1>14, <1>16, <1>17, <1>19, <1>20, <1>21, <1>22, <1>23 DEF WalkInv
-----------------------------------------------------------------------------
\* The invariant holds in every reachable state.
THEOREM WalkInduction == Spec => []WalkInv
<1>1. WalkInv /\ [Next]_vars => WalkInv'
  <2> SUFFICES ASSUME WalkInv, [Next]_vars PROVE WalkInv'
    OBVIOUS
  <2>1. CASE Count  BY <2>1, CountWalk
  <2>2. CASE Slice
    <3>1. direction \in {"forward", "backward"}  BY DEF WalkInv, TypeOK
    <3>2. QED  BY <2>2, <3>1, SliceForward, SliceBackward
  <2>3. CASE AddRow  BY <2>3, AddWalk
  <2>4. CASE DeleteRow  BY <2>4, DeleteWalk
  <2>5. CASE UNCHANGED vars
    <3>1. TypeOK' /\ Bounded' /\ Numbered' /\ SeenIsBehind' /\ CursorAtEdge'
      BY <2>5 DEF vars, WalkInv, TypeOK, Bounded, Numbered, SeenIsBehind, StillToRead,
         CursorAtEdge, Running
    <3>2. MoreToCome' /\ SeenFromStart' /\ EndIsTheEnd' /\ NoRowTwice' /\ NeverLost'
      BY <2>5 DEF vars, WalkInv, MoreToCome, SeenFromStart, Running, EndIsTheEnd,
         NoRowTwice, NeverLost
    <3>3. QED  BY <3>1, <3>2 DEF WalkInv
  <2>6. QED  BY <2>1, <2>2, <2>3, <2>4, <2>5 DEF Next, Client
<1>2. QED  BY <1>1, InitWalk, PTL DEF Spec

\* However many rows are deleted anywhere and added behind the cursors of a
\* forward walk, no row is on two of its pages; nor on two pages of a backward
\* walk, however many are added anywhere and deleted behind its cursors.
THEOREM NoRowIsSeenTwice == Spec => []NoRowTwice
<1>1. WalkInv => NoRowTwice  BY DEF WalkInv
<1>2. QED  BY <1>1, WalkInduction, PTL

\* A page goes on at the row next to the last one seen, unless that row was
\* moved since the page before.
THEOREM PagesFitTogether == Spec => PagesFit
<1> USE OptionAssumption
<1> DEFINE Joined ==
      IF seen = <<>> THEN direction = "forward" => seen'[1] = table[1]
      ELSE moved \/ \E i \in 1..(Len(table) - 1) :
             IF direction = "forward"
             THEN table[i] = seen[Len(seen)] /\ table[i + 1] = seen'[Len(seen) + 1]
             ELSE table[i + 1] = seen[1] /\ table[i] = seen'[Len(seen') - Len(seen)]
<1>1. WalkInv /\ [Next]_vars => [seen' # seen => Joined]_vars
  <2> SUFFICES ASSUME WalkInv, Slice, seen' # seen PROVE Joined
    BY DEF Next, Client, Count, AddRow, DeleteRow, vars
  <2> DEFINE m == Len(table)
             L == Len(seen)
  <2>1. /\ phase = "counted" /\ Running /\ table \in Seq(1..added) /\ seen \in Seq(1..added)
        /\ counted \in Nat /\ (cursor = None \/ cursor \in Nat)
        /\ direction \in {"forward", "backward"}
        /\ cursor = None <=> seen = <<>>
    BY DEF Slice, WalkInv, TypeOK, Numbered, Running
  <2>2. /\ m \in Nat /\ DOMAIN table = 1..m /\ L \in Nat  BY <2>1, LenProperties
  <2>3. cursor # None /\ ~moved =>
          /\ cursor + 1 \in 1..m /\ cursor < counted
          /\ table[cursor + 1] = IF direction = "forward" THEN seen[L] ELSE seen[1]
    BY <2>1, <2>2 DEF WalkInv, CursorAtEdge
  <2>4. CASE direction = "forward"
    <3>1. PICK start, E \in Nat, rows \in Seq(1..added) :
            /\ start = IF cursor = None THEN 0 ELSE Least(cursor + 1, counted)
            /\ \A i \in 1..Len(rows) : start + i \in 1..m /\ rows[i] = table[start + i]
            /\ seen' = seen \o rows
      BY <2>4, ForwardSlice
    <3>2. rows # <<>>  BY <2>1, <3>1, ConcatEmptySeq
    <3>3. Len(rows) \in Nat \ {0}  BY <3>1, <3>2, LenProperties, EmptySeq
    <3>4. seen'[L + 1] = rows[1]
      <4>1. \A i \in 1..(Len(seen) + Len(rows)) :
              (seen \o rows)[i] = IF i <= Len(seen) THEN seen[i] ELSE rows[i - Len(seen)]
        BY <2>1, <3>1, ConcatProperties
      <4>2. L + 1 \in 1..(L + Len(rows)) /\ ~(L + 1 <= L) /\ L + 1 - L = 1
        BY <2>2, <3>3
      <4>3. QED  BY <3>1, <4>1, <4>2
    <3>5. rows[1] = table[start + 1] /\ start + 1 \in 1..m
      <4>1. 1 \in 1..Len(rows)  BY <3>3
      <4>2. QED  BY <3>1, <4>1
    <3> HIDE DEF m
    <3>6. CASE seen = <<>>
      <4>1. L = 0 /\ start = 0  BY <2>1, <3>1, <3>6, EmptySeq
      <4>2. QED  BY <3>4, <3>5, <3>6, <4>1
    <3>7. CASE seen # <<>> /\ ~moved
      <4>1. start = cursor + 1  BY <2>1, <2>3, <3>1, <3>7 DEF Least
      <4>2. cursor \in Nat /\ cursor + 1 \in 1..(m - 1) /\ start + 1 = cursor + 1 + 1
        BY <2>1, <2>2, <2>3, <3>5, <3>7, <4>1
      <4>3. table[cursor + 1] = seen[Len(seen)] /\ table[cursor + 1 + 1] = seen'[Len(seen) + 1]
        BY <2>1, <2>3, <2>4, <3>4, <3>5, <3>7, <4>2
      <4>4. QED  BY <2>4, <3>7, <4>2, <4>3 DEF m
    <3>8. CASE seen # <<>> /\ moved  BY <3>8
    <3>9. QED  BY <3>6, <3>7, <3>8
  <2>5. CASE direction = "backward" /\ seen # <<>> /\ ~moved
    <3>1. PICK start, E \in Nat, rows \in Seq(1..added) :
            /\ E = IF cursor = None THEN counted ELSE Least(counted, cursor)
            /\ start <= E /\ E <= counted
            /\ Len(rows) = IF start < Least(E, m) THEN Least(E, m) - start ELSE 0
            /\ \A i \in 1..Len(rows) : start + i \in 1..m /\ rows[i] = table[start + i]
            /\ seen' = rows \o seen
      BY <2>5, BackwardSlice
    <3>2. rows # <<>>  BY <2>1, <3>1, ConcatEmptySeq
    <3> DEFINE k == Len(rows)
    <3>3. k \in Nat \ {0}  BY <3>1, <3>2, LenProperties, EmptySeq
    <3>4. cursor # None /\ cursor < counted /\ cursor < m /\ cursor \in Nat
      BY <2>1, <2>2, <2>3, <2>5
    <3>5. start + k = cursor
      <4>1. k = IF start < Least(E, m) THEN Least(E, m) - start ELSE 0  BY <3>1
      <4> HIDE DEF k, m
      <4>2. E = cursor  BY <2>1, <2>2, <3>1, <3>4 DEF Least
      <4>3. Least(E, m) = cursor  BY <3>4, <4>2 DEF Least
      <4>4. QED  BY <3>1, <3>3, <3>4, <4>1, <4>3
    <3>6. /\ Len(seen') = k + L
          /\ \A i \in 1..(k + L) : seen'[i] = IF i <= k THEN rows[i] ELSE seen[i - k]
      <4>1. seen' = rows \o seen  BY <3>1
      <4>2. QED  BY <2>1, <4>1, ConcatProperties
    <3>7. k \in 1..Len(rows) /\ k \in 1..(k + L) /\ k <= k  BY <2>2, <3>3
    <3>8. rows[k] = table[start + k]  BY <3>1, <3>7
    <3> HIDE DEF k, m, L
    <3>9. Len(seen') - L = k  BY <2>2, <3>3, <3>6
    <3>10. seen'[Len(seen') - L] = table[cursor]  BY <3>5, <3>6, <3>7, <3>8, <3>9
    <3>11. cursor \in 1..(m - 1)  BY <2>2, <3>1, <3>3, <3>4, <3>5
    <3>12. table[cursor + 1] = seen[1]  BY <2>3, <2>5, <3>4
    <3>13. QED  BY <2>5, <3>10, <3>11, <3>12 DEF m, L
  <2>6. CASE direction = "backward" /\ (seen = <<>> \/ moved)  BY <2>6
  <2>7. QED  BY <2>1, <2>4, <2>5, <2>6
<1>2. QED  BY <1>1, WalkInduction, PTL DEF Spec, PagesFit

\* While nothing is deleted, a walk told that there is no more has come to the
\* end.
THEOREM EndOfWalk == Spec => []EndIsTheEnd
<1>1. WalkInv => EndIsTheEnd  BY DEF WalkInv
<1>2. QED  BY <1>1, WalkInduction, PTL

\* While nothing is deleted, a walk neither fails nor loses its cursor.
THEOREM WalkGoesOn == Spec => []NeverLost
<1>1. WalkInv => NeverLost  BY DEF WalkInv
<1>2. QED  BY <1>1, WalkInduction, PTL
=============================================================================
