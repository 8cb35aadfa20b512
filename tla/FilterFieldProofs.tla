------------------------- MODULE FilterFieldProofs -------------------------
(***************************************************************************)
(* Proofs about FilterField, for any well-formed filtersets and any rows:  *)
(* an argument that means nothing is refused, the others are served, and   *)
(* the answer holds the rows the arguments describe.                       *)
(***************************************************************************)
EXTENDS FilterField, SequenceTheorems, FiniteSetTheorems, WellFoundedInduction, TLAPS

-----------------------------------------------------------------------------
(* What the client may give.                                               *)

\* The value of an argument: null, one atom or a list of atoms, as the type
\* of the argument says.
LEMMA InputShape ==
    ASSUME NEW t, t.list \in BOOLEAN, NEW d \in Inputs(t)
    PROVE  /\ d.is = IF t.list THEN "list" ELSE "one"
           /\ d \in Values
           /\ ~t.list => \E a \in 0..4 : d.of = <<a>>
<1>1. Atoms(t) \subseteq 0..4 /\ {1, 2} \subseteq 0..4
  BY DEF Atoms
<1>2. CASE t.list
  <2>1. PICK q \in BoundedSeq(Atoms(t), 2) \cup {<<1, 1, 2>>} : d = Value(t, q)
    BY <1>2 DEF Inputs
  <2>2. q \in Seq(0..4)
    <3>1. CASE q = <<1, 1, 2>>
      BY <3>1
    <3>2. CASE q \in BoundedSeq(Atoms(t), 2)
      <4>1. PICK m \in 0..2 : q \in [1..m -> Atoms(t)]
        BY <3>2 DEF BoundedSeq, SeqOf
      <4>2. q \in [1..m -> 0..4] /\ m \in Nat
        BY <1>1, <4>1
      <4>3. QED
        BY <4>2
    <3>3. QED
      BY <2>1, <3>1, <3>2
  <2>3. QED
    BY <1>2, <2>1, <2>2 DEF Value, Values
<1>3. CASE ~t.list
  <2>1. PICK a \in Atoms(t) : d = Value(t, <<a>>)
    BY <1>3 DEF Inputs
  <2>2. a \in 0..4 /\ <<a>> \in Seq(0..4)
    BY <1>1, <2>1
  <2>3. QED
    BY <1>3, <2>1, <2>2 DEF Value, Values
<1>4. QED
  BY <1>2, <1>3

\* Which arguments are lists.
LEMMA ArgumentShape ==
    ASSUME NEW f, WellFormed(f)
    PROVE  LET t == ArgumentType(f) IN
           /\ t.list \in BOOLEAN
           /\ Class(f) \in {"list", "range", "array"} => t.list
           /\ f.class = "id" => ~t.list
           /\ f.class = "ids" /\ ~t.list => "related" \in registered
           /\ f.attr \in Single /\ f.lookup \in {"exact", "isnull"} => ~t.list
           /\ f.method = "only_first" => ~t.list
<1> USE DEF WellFormed, Single
<1>1. Class(f) = f.class \/ (f.class = "csv" /\ Class(f) \in {"list", "range"})
  BY DEF Class
<1>2. NoType.list = FALSE /\ \A t : Of(t).list = FALSE /\ ListOf(t).list = TRUE
  BY DEF NoType, Of, ListOf
<1>3. /\ ModelType(f).list \in BOOLEAN
      /\ ModelType(f).list => f.attr = "tags"
      /\ f.attr = "friends" /\ ModelType(f) # NoType => "related" \in registered
  <2>1. CASE f.lookup = "isnull"
    BY <1>2, <2>1 DEF ModelType
  <2>2. CASE f.lookup # "isnull" /\ f.attr \in {"owner", "friends"}
    BY <1>2, <2>2 DEF ModelType
  <2>3. CASE f.lookup # "isnull" /\ f.attr \in {"age", "choice", "tags"}
    <3>1. OwnType["age"].list = FALSE /\ OwnType["choice"].list = FALSE /\ OwnType["tags"].list = TRUE
      BY <1>2 DEF OwnType
    <3>2. ModelType(f) = IF "own" \in registered THEN OwnType[f.attr] ELSE NoType
      BY <2>3 DEF ModelType
    <3>3. QED
      BY <1>2, <2>3, <3>1, <3>2
  <2>4. QED
    BY <2>1, <2>2, <2>3
<1>4. FormType(f).list \in BOOLEAN /\ (FormType(f).list <=> f.class = "ids")
  BY <1>2 DEF FormType
<1> DEFINE guessed == IF f.declared /\ Class(f) \notin Typed THEN NoType ELSE ModelType(f)
           type == IF guessed = NoType THEN FormType(f) ELSE guessed
<1>5. ArgumentType(f) =
        IF Class(f) \in Typed /\ f.input_type # NoType THEN f.input_type
        ELSE IF Class(f) \in {"list", "range"} THEN ListOf(type) ELSE type
  BY DEF ArgumentType
<1>6. /\ type.list \in BOOLEAN
      /\ type.list => f.class = "ids" \/ f.attr = "tags"
      /\ f.class = "ids" /\ ~type.list => "related" \in registered
  BY <1>2, <1>3, <1>4
<1> HIDE DEF type
<1>7. ArgumentType(f).list \in BOOLEAN
  BY <1>2, <1>5, <1>6
<1>8. Class(f) \in {"list", "range", "array"} => ArgumentType(f).list
  <2>1. CASE f.input_type = NoType
    BY <1>1, <1>2, <1>5, <2>1
  <2>2. CASE f.input_type # NoType
    BY <1>1, <1>5, <2>2 DEF Typed
  <2>3. QED
    BY <2>1, <2>2
<1>9. /\ f.class = "id" => ~ArgumentType(f).list
      /\ f.class = "ids" /\ ~ArgumentType(f).list => "related" \in registered
  BY <1>1, <1>5, <1>6 DEF Typed
<1>10. f.attr \in Single /\ f.lookup \in {"exact", "isnull"} => ~ArgumentType(f).list
  BY <1>1, <1>5, <1>6
<1>11. f.method = "only_first" => ~ArgumentType(f).list
  <2>1. Of("Boolean") # NoType
    BY DEF Of, NoType
  <2>2. QED
    BY <1>1, <1>2, <1>5, <2>1 DEF Typed
<1>12. QED
  BY <1>7, <1>8, <1>9, <1>10, <1>11

\* What an argument may be for a filter.
Suits(f, d) ==
    /\ d \in Values
    /\ d.is = "null" => d.of = <<>>
    /\ d.is = "one" => ~ArgumentType(f).list /\ \E a \in 0..4 : d.of = <<a>>
    /\ d.is = "list" => ArgumentType(f).list

\* The client gives nothing else.
LEMMA GivenSuits ==
    ASSUME NEW f, WellFormed(f), NEW d \in Inputs(ArgumentType(f)) \cup {Null}
    PROVE  Suits(f, d)
<1>1. ArgumentType(f).list \in BOOLEAN
  BY ArgumentShape
<1>2. CASE d = Null
  BY <1>2 DEF Null, Suits, Values
<1>3. CASE d \in Inputs(ArgumentType(f))
  BY <1>1, <1>3, InputShape DEF Suits
<1>4. QED
  BY <1>2, <1>3

\* convert_enum changes nothing but what the database is given for an enum.
LEMMA Converted ==
    ASSUME NEW f, NEW d, Suits(f, d)
    PROVE  LET e == ConvertEnum(d) IN
           /\ e.is = d.is /\ e.of = d.of /\ ~e.enum
           /\ IsEmpty(e) <=> IsEmpty(d)
           /\ IsEmptyList(e) <=> IsEmptyList(d)
BY DEF Suits, Values, ConvertEnum, IsEmpty, IsEmptyList

-----------------------------------------------------------------------------
(* The form.                                                               *)

\* What each class of filter refuses.
LEMMA RefusesByClass ==
    ASSUME NEW f, NEW d
    PROVE  /\ Class(f) = "id" => (Refuses(f, d) <=> RefusesId(f, d))
           /\ Class(f) = "ids" => (Refuses(f, d) <=> RefusesIds(f, d))
           /\ Class(f) = "range" => (Refuses(f, d) <=> RefusesRange(f, d))
           /\ Class(f) \notin {"id", "ids", "range"} =>
                (Refuses(f, d) <=> f.required /\ IsEmpty(d))
BY DEF Refuses

\* Of what means something, only ids that became a single ID are refused.
LEMMA RefusedIsMeaningless ==
    ASSUME NEW f, WellFormed(f), NEW d, Suits(f, d), Refuses(f, ConvertEnum(d))
    PROVE  \/ Meaningless(f, d)
           \/ f.class = "ids" /\ "related" \in registered /\ ~IsEmpty(d)
<1> DEFINE e == ConvertEnum(d)
<1>1. e.is = d.is /\ e.of = d.of /\ (IsEmpty(e) <=> IsEmpty(d))
  BY Converted
<1>2. d.of \in Seq(0..4) /\ d.is \in {"null", "one", "list"}
  BY DEF Suits, Values
<1> HIDE DEF e
<1>3. CASE f.required /\ IsEmpty(d)
  BY <1>3 DEF Meaningless
<1>4. CASE ~(f.required /\ IsEmpty(d)) /\ Class(f) = "id"
  <2>1. f.class = "id"
    BY <1>4 DEF Class
  <2>2. d.is # "list"
    BY <2>1, ArgumentShape DEF Suits
  <2>3. ~IsEmpty(d) /\ BadId(d.of[1])
    BY <1>1, <1>4, RefusesByClass DEF RefusesId, e
  <2>4. PICK a \in 0..4 : d.of = <<a>>
    BY <1>2, <2>2, <2>3 DEF Suits, IsEmpty
  <2>5. a = Undecodable
    BY <1>2, <2>2, <2>3, <2>4 DEF IsEmpty, BadId, Suits
  <2>6. a \in ToSet(d.of)
    BY <2>4 DEF ToSet
  <2>7. QED
    BY <2>1, <2>5, <2>6 DEF Meaningless
<1>5. CASE ~(f.required /\ IsEmpty(d)) /\ Class(f) = "ids"
  <2>1. f.class = "ids"
    BY <1>5 DEF Class
  <2>2. ~IsEmpty(d) /\ (d.is # "list" \/ \E i \in DOMAIN d.of : BadId(d.of[i]))
    BY <1>1, <1>5, RefusesByClass DEF RefusesIds, e
  <2>3. CASE d.is # "list"
    <3>1. d.is = "one"
      BY <1>2, <2>2, <2>3 DEF IsEmpty
    <3>2. QED
      BY <2>1, <2>2, <3>1, ArgumentShape DEF Suits
  <2>4. CASE d.is = "list"
    <3>1. PICK i \in DOMAIN d.of : BadId(d.of[i])
      BY <2>2, <2>4
    <3>2. d.of[i] \in ToSet(d.of)
      BY <3>1 DEF ToSet
    <3>3. QED
      BY <2>1, <2>4, <3>1, <3>2 DEF Meaningless, BadId
  <2>5. QED
    BY <2>3, <2>4
<1>6. CASE ~(f.required /\ IsEmpty(d)) /\ Class(f) = "range"
  <2>1. d.is # "null" /\ Len(d.of) # 2
    BY <1>1, <1>6, RefusesByClass DEF RefusesRange, IsEmpty, e
  <2>2. f.lookup = "range"
    BY <1>6 DEF WellFormed
  <2>3. QED
    BY <2>1, <2>2 DEF Meaningless
<1>7. CASE ~(f.required /\ IsEmpty(d)) /\ Class(f) \notin {"id", "ids", "range"}
  BY <1>1, <1>7, RefusesByClass DEF e
<1>8. QED
  BY <1>3, <1>4, <1>5, <1>6, <1>7

-----------------------------------------------------------------------------
(* The filters.                                                            *)

\* What each class of filter narrows by.
LEMMA NarrowsByClass ==
    ASSUME NEW f, NEW d
    PROVE  /\ Class(f) \notin {"list", "array"} => (Narrows(f, d) <=> ~IsEmpty(d))
           /\ Class(f) \in {"list", "array"} /\ f.method # "none" =>
                (Narrows(f, d) <=> d.is # "null")
           /\ Class(f) = "list" /\ f.method = "none" =>
                (Narrows(f, d) <=> d.is # "null" /\ ~(IsEmptyList(d) /\ f.exclude))
           /\ Class(f) = "array" /\ f.method = "none" =>
                (Narrows(f, d) <=> ~IsEmpty(d) \/ IsEmptyList(d))
BY DEF Narrows, MethodNarrows, ListNarrows, ArrayNarrows

\* What each lookup compares.
LEMMA LookupByAttribute ==
    ASSUME NEW f, WellFormed(f), NEW d, NEW row
    PROVE  LET v == row[f.attr] IN
           /\ f.attr = "friends" => (Lookup(f, d, row) <=> ToSet(d.of) \cap v # {})
           /\ f.attr = "tags" => (Lookup(f, d, row) <=> ToSet(d.of) \subseteq v)
           /\ f.attr \in Single /\ f.lookup = "isnull" =>
                (Lookup(f, d, row) <=> (d.of[1] = 1 <=> v = Missing))
           /\ f.attr \in Single /\ f.lookup = "exact" => (Lookup(f, d, row) <=> v = d.of[1])
           /\ f.attr \in Single /\ f.lookup = "in" => (Lookup(f, d, row) <=> v \in ToSet(d.of))
           /\ f.attr \in Single /\ f.lookup = "range" =>
                (Lookup(f, d, row) <=> d.of[1] <= v /\ v <= d.of[2])
           /\ Lookup(f, d, row) \in BOOLEAN
<1> USE DEF Lookup, Single
<1>1. CASE f.attr = "friends"
  BY <1>1
<1>2. CASE f.attr = "tags"
  BY <1>2
<1>3. CASE f.attr \in Single /\ f.lookup = "isnull"
  BY <1>3
<1>4. CASE f.attr \in Single /\ f.lookup = "exact"
  BY <1>4
<1>5. CASE f.attr \in Single /\ f.lookup = "in"
  BY <1>5
<1>6. CASE f.attr \in Single /\ f.lookup = "range"
  BY <1>6
<1>7. QED
  BY <1>1, <1>2, <1>3, <1>4, <1>5, <1>6 DEF WellFormed

\* A filter lets the rows be exactly where the argument asks nothing, and a list
\* filter where nothing is excluded.
LEMMA NarrowsUnlessNothingAsked ==
    ASSUME NEW f, WellFormed(f), f.method # "only_first", NEW d, Suits(f, d)
    PROVE  ~Narrows(f, ConvertEnum(d)) <=>
             \/ AsksNothing(f, d)
             \/ Class(f) = "list" /\ f.method = "none" /\ IsEmptyList(d) /\ f.exclude
<1> DEFINE e == ConvertEnum(d)
<1>1. e.is = d.is /\ e.of = d.of /\ (IsEmpty(e) <=> IsEmpty(d)) /\ (IsEmptyList(e) <=> IsEmptyList(d))
  BY Converted
<1> HIDE DEF e
<1>2. d.is \in {"null", "one", "list"}
  BY DEF Suits, Values
<1>3. Class(f) \in {"list", "array"} => d.is # "one"
  BY ArgumentShape DEF Suits
<1>4. d.is = "one" => (IsEmpty(d) <=> d.of[1] = Empty)
  BY DEF Suits, IsEmpty, IsEmptyList
<1>5. /\ IsEmptyList(d) => d.is = "list"
      /\ IsEmpty(d) <=> d.is = "null" \/ IsEmptyList(d) \/ (d.is = "one" /\ d.of[1] = Empty)
  BY <1>2, <1>4 DEF IsEmpty, IsEmptyList
<1>6. AsksNothing(f, d) <=>
        \/ d.is = "null"
        \/ d.is = "one" /\ d.of[1] = Empty
        \/ IsEmptyList(d) /\ Class(f) \notin {"list", "array"}
  BY DEF AsksNothing
<1>7. CASE Class(f) \notin {"list", "array"}
  BY <1>1, <1>5, <1>6, <1>7, NarrowsByClass DEF e
<1>8. CASE Class(f) \in {"list", "array"} /\ f.method # "none"
  BY <1>1, <1>2, <1>3, <1>6, <1>8, NarrowsByClass DEF e
<1>9. CASE Class(f) = "list" /\ f.method = "none"
  BY <1>1, <1>2, <1>3, <1>6, <1>9, NarrowsByClass DEF e
<1>10. CASE Class(f) = "array" /\ f.method = "none"
  BY <1>1, <1>2, <1>3, <1>5, <1>6, <1>10, NarrowsByClass DEF e
<1>11. QED
  BY <1>7, <1>8, <1>9, <1>10

\* What means nothing is refused by the form, or by the database as a key.
LEMMA MeaninglessIsJudged ==
    ASSUME NEW f, WellFormed(f), NEW d, Suits(f, d), Meaningless(f, d)
    PROVE  Refuses(f, ConvertEnum(d)) \/ BadKey(<<f, ConvertEnum(d)>>)
<1> DEFINE e == ConvertEnum(d)
<1>1. e.is = d.is /\ e.of = d.of /\ (IsEmpty(e) <=> IsEmpty(d))
  BY Converted
<1>2. d.of \in Seq(0..4) /\ d.is \in {"null", "one", "list"}
  BY DEF Suits, Values
<1> HIDE DEF e
<1>3. \A a \in ToSet(d.of) : \E i \in DOMAIN d.of : d.of[i] = a
  BY DEF ToSet
<1>4. CASE f.required /\ IsEmpty(d)
  <2>1. Len(<<>>) = 0 /\ Len(<<Empty>>) = 1
    OBVIOUS
  <2>2. d.is # "null" => Len(d.of) # 2
    BY <1>4, <2>1 DEF IsEmpty, IsEmptyList
  <2>3. RefusesRange(f, e)
    BY <1>1, <1>4, <2>2 DEF RefusesRange
  <2>4. QED
    BY <1>1, <1>4, <2>3, RefusesByClass DEF RefusesId, RefusesIds, e
<1>5. CASE f.class = "id" /\ Undecodable \in ToSet(d.of)
  <2>1. Class(f) = "id"
    BY <1>5 DEF Class
  <2>2. d.is # "list" /\ d.is # "null"
    BY <1>3, <1>5, ArgumentShape DEF Suits
  <2>3. PICK a \in 0..4 : d.of = <<a>>
    BY <1>2, <2>2 DEF Suits
  <2>4. a = Undecodable
    BY <1>3, <1>5, <2>3
  <2>5. ~IsEmpty(d) /\ BadId(d.of[1])
    BY <2>2, <2>3, <2>4 DEF IsEmpty, IsEmptyList, BadId, Undecodable, Empty
  <2>6. QED
    BY <1>1, <2>1, <2>5, RefusesByClass DEF RefusesId, e
<1>6. CASE f.class = "ids" /\ (Undecodable \in ToSet(d.of) \/ (d.is = "list" /\ Empty \in ToSet(d.of)))
  <2>1. Class(f) = "ids"
    BY <1>6 DEF Class
  <2>2. PICK i \in DOMAIN d.of : d.of[i] = Undecodable \/ (d.is = "list" /\ d.of[i] = Empty)
    BY <1>3, <1>6
  <2>3. d.is # "null" /\ ~IsEmptyList(d)
    BY <2>2 DEF Suits, IsEmptyList
  <2>4. CASE d.is = "list"
    <3>1. ~IsEmpty(d) /\ BadId(d.of[i])
      BY <2>2, <2>3, <2>4 DEF IsEmpty, BadId
    <3>2. QED
      BY <1>1, <2>1, <3>1, RefusesByClass DEF RefusesIds, e
  <2>5. CASE d.is = "one"
    <3>1. d.of # <<Empty>>
      BY <2>2, <2>5 DEF Undecodable, Empty
    <3>2. ~IsEmpty(d)
      BY <2>3, <2>5, <3>1 DEF IsEmpty
    <3>3. QED
      BY <1>1, <2>1, <2>5, <3>2, RefusesByClass DEF RefusesIds, e
  <2>6. QED
    BY <1>2, <2>3, <2>4, <2>5
<1>7. CASE f.lookup = "range" /\ d.is # "null" /\ Len(d.of) # 2
  BY <1>1, <1>7, RefusesByClass DEF RefusesRange, WellFormed, e
<1>8. CASE LooksAtKeys(f) /\ ~AsksNothing(f, d) /\ \E a \in ToSet(d.of) : NoKey(f, a)
  <2>1. ToSet(d.of) # {}
    BY <1>8
  <2>2. ~IsEmptyList(d)
    BY <1>3, <2>1 DEF IsEmptyList
  <2>3. Narrows(f, e)
    BY <1>8, <2>2, NarrowsUnlessNothingAsked DEF LooksAtKeys, e
  <2>4. QED
    BY <1>1, <1>8, <2>3 DEF BadKey, e
<1>9. QED
  BY <1>4, <1>5, <1>6, <1>7, <1>8 DEF Meaningless

\* The lookup of a filter finds the rows the argument means.
LEMMA LookupFindsMatches ==
    ASSUME NEW f, WellFormed(f), f.method # "only_first", NEW d, Suits(f, d),
           ~AsksNothing(f, d), ~Refuses(f, ConvertEnum(d)), NEW row \in Rows
    PROVE  Lookup(f, ConvertEnum(d), row) <=> Matches(f, d, row)
<1> DEFINE e == ConvertEnum(d)
           v == row[f.attr]
<1>1. e.is = d.is /\ e.of = d.of
  BY Converted
<1> HIDE DEF e
<1>2. d.is \in {"one", "list"} /\ d.of \in Seq(0..4)
  BY DEF AsksNothing, Suits, Values
<1>3. f.attr \in Single => v \in Int
  BY FilterAssumption
<1>4. CASE f.attr \in {"friends", "tags"}
  BY <1>1, <1>4, LookupByAttribute DEF Matches, WellFormed, e
<1>5. CASE f.attr \in Single /\ f.lookup = "isnull"
  BY <1>1, <1>5, LookupByAttribute DEF Matches, Single, e
<1>6. CASE f.attr \in Single /\ f.lookup = "exact"
  <2>1. d.is = "one"
    BY <1>2, <1>6, ArgumentShape DEF Suits
  <2>2. PICK a \in 0..4 : d.of = <<a>>
    BY <2>1 DEF Suits
  <2>3. v \in ToSet(d.of) <=> v = d.of[1]
    BY <2>2 DEF ToSet
  <2>4. QED
    BY <1>1, <1>6, <2>3, LookupByAttribute DEF Matches, Single, e
<1>7. CASE f.attr \in Single /\ f.lookup = "in"
  BY <1>1, <1>7, LookupByAttribute DEF Matches, Single, e
<1>8. CASE f.attr \in Single /\ f.lookup = "range"
  <2>1. Class(f) = "range"
    BY <1>8 DEF WellFormed
  <2>2. Len(d.of) = 2
    BY <1>1, <1>2, <2>1, RefusesByClass DEF RefusesRange, e
  <2>3. d.of[1] \in Int /\ d.of[2] \in Int
    BY <1>2, <2>2
  <2>4. v \in d.of[1]..d.of[2] <=> d.of[1] <= v /\ v <= d.of[2]
    BY <1>3, <1>8, <2>3
  <2>5. QED
    BY <1>1, <1>8, <2>4, LookupByAttribute DEF Matches, Single, e
<1>9. QED
  BY <1>4, <1>5, <1>6, <1>7, <1>8 DEF WellFormed

\* So a filter leaves a row exactly if the argument holds of it.
LEMMA FilterLeavesWhatHolds ==
    ASSUME NEW f, WellFormed(f), f.method # "only_first", NEW d, Suits(f, d),
           ~Refuses(f, ConvertEnum(d)), NEW row \in Rows
    PROVE  (Narrows(f, ConvertEnum(d)) => (Lookup(f, ConvertEnum(d), row) # f.exclude))
             <=> Holds(f, d, row)
<1> DEFINE e == ConvertEnum(d)
<1>1. f.exclude \in BOOLEAN /\ Lookup(f, e, row) \in BOOLEAN
  BY LookupByAttribute DEF WellFormed
<1>2. Matches(f, d, row) \in BOOLEAN
  BY DEF Matches
<1>3. CASE AsksNothing(f, d)
  BY <1>3, NarrowsUnlessNothingAsked DEF Holds
<1>4. CASE ~AsksNothing(f, d) /\ Narrows(f, e)
  <2>1. Lookup(f, e, row) <=> Matches(f, d, row)
    BY <1>4, LookupFindsMatches
  <2>2. Holds(f, d, row) <=> (Matches(f, d, row) <=> ~f.exclude)
    BY <1>4 DEF Holds
  <2> HIDE DEF e
  <2>3. QED
    BY <1>1, <1>4, <2>1, <2>2 DEF e
<1>5. CASE ~AsksNothing(f, d) /\ ~Narrows(f, e)
  <2>1. Class(f) = "list" /\ IsEmptyList(d) /\ f.exclude
    BY <1>5, NarrowsUnlessNothingAsked
  <2>2. ToSet(d.of) = {}
    BY <2>1 DEF IsEmptyList, ToSet
  <2>3. f.lookup \notin {"exact", "isnull", "range"} \/ f.attr = "friends"
    BY <2>1 DEF WellFormed
  <2>4. f.attr # "tags"
    BY <2>1 DEF WellFormed
  <2>5. ~Matches(f, d, row)
    BY <2>2, <2>3, <2>4 DEF Matches, WellFormed
  <2>6. QED
    BY <1>5, <2>1, <2>5 DEF Holds
<1>6. QED
  BY <1>3, <1>4, <1>5

-----------------------------------------------------------------------------
(* All the filters, one after the other.                                   *)

\* A set of natural numbers has a least one: the intervals 0..x are finite, and
\* strict inclusion of finite sets is well-founded.
LEMMA LeastNumber ==
    ASSUME NEW T, T \subseteq Nat, T # {}
    PROVE  \E x \in T : \A y \in T : x <= y
<1> DEFINE intervals == {0..x : x \in T}
           finite == FiniteSubsetsOf(Nat)
<1>1. IsWellFoundedOn(StrictSubsetOrdering(Nat), finite)
  BY FS_StrictSubsetOrderingWellFounded
<1>2. \A x \in T : 0..x \in finite
  <2> SUFFICES ASSUME NEW x \in T PROVE 0..x \in finite
    OBVIOUS
  <2>1. x \in Int /\ 0..x \subseteq Nat
    OBVIOUS
  <2>2. IsFiniteSet(0..x)
    BY <2>1, FS_Interval
  <2>3. QED
    BY <2>1, <2>2 DEF FiniteSubsetsOf
<1>3. intervals \subseteq finite /\ intervals # {}
  BY <1>2
<1>4. \E I \in intervals : \A J \in intervals : ~(<<J, I>> \in StrictSubsetOrdering(Nat))
  <2> HIDE DEF intervals, finite
  <2>1. QED
    BY <1>1, <1>3, WFMin
<1>5. PICK x \in T : \A y \in T : ~(<<0..y, 0..x>> \in StrictSubsetOrdering(Nat))
  BY <1>4
<1>6. ASSUME NEW y \in T, y < x PROVE FALSE
  <2>1. x \in Nat /\ y \in Nat
    OBVIOUS
  <2>2. 0..y \subseteq 0..x /\ x \in 0..x /\ x \notin 0..y
    BY <1>6, <2>1
  <2>3. 0..y \in SUBSET Nat /\ 0..x \in SUBSET Nat
    BY <2>1
  <2>4. <<0..y, 0..x>> \in StrictSubsetOrdering(Nat)
    BY <2>2, <2>3 DEF StrictSubsetOrdering
  <2>5. QED
    BY <1>5, <2>4
<1>7. \A y \in T : x <= y
  BY <1>6
<1>8. QED
  BY <1>7

\* Two functions that begin alike and go on alike are alike.
LEMMA StepByStep ==
    ASSUME NEW n \in Nat, NEW g, NEW h, g[0] = h[0],
           \A i \in 1..n : g[i - 1] = h[i - 1] => g[i] = h[i]
    PROVE  \A i \in 0..n : g[i] = h[i]
<1> DEFINE T == {i \in 0..n : g[i] # h[i]}
<1>1. SUFFICES ASSUME T # {} PROVE FALSE
  OBVIOUS
<1>2. PICK x \in T : \A y \in T : x <= y
  <2>1. T \subseteq Nat
    OBVIOUS
  <2> HIDE DEF T
  <2>2. QED
    BY <1>1, <2>1, LeastNumber
<1>3. x \in 1..n
  BY <1>2
<1>4. x - 1 \in 0..n /\ ~(x <= x - 1)
  BY <1>3
<1>5. g[x - 1] = h[x - 1]
  BY <1>2, <1>4
<1>6. QED
  BY <1>3, <1>5

\* The filters give what any sequence of row sets ends with that begins with the
\* rows and goes on as the filters do.
LEMMA FilteredIsLast ==
    ASSUME NEW rows, NEW steps, Len(steps) \in Nat,
           NEW g, g = [i \in 0..Len(steps) |-> g[i]], g[0] = rows,
           \A i \in 1..Len(steps) : g[i] = Narrowed(g[i - 1], steps[i])
    PROVE  Filtered(rows, steps) = g[Len(steps)]
<1> DEFINE n == Len(steps)
           Follows(a) == a = [i \in 0..n |-> IF i = 0 THEN rows ELSE Narrowed(a[i - 1], steps[i])]
           after == CHOOSE a : Follows(a)
<1>1. Filtered(rows, steps) = after[n]
  BY DEF Filtered
<1>2. Follows(g)
  <2>1. \A i \in 0..n : i # 0 => i \in 1..n
    OBVIOUS
  <2>2. \A i \in 0..n : g[i] = IF i = 0 THEN rows ELSE Narrowed(g[i - 1], steps[i])
    BY <2>1
  <2>3. QED
    BY <2>2
<1>3. Follows(after)
  <2> HIDE DEF Follows
  <2>1. QED
    BY <1>2
<1>4. after[0] = rows /\ \A i \in 1..n : after[i] = Narrowed(after[i - 1], steps[i])
  <2> HIDE DEF after
  <2>1. 0 \in 0..n /\ \A i \in 1..n : i \in 0..n /\ i # 0
    OBVIOUS
  <2>2. QED
    BY <1>3, <2>1
<1>5. \A i \in 0..n : after[i] = g[i]
  <2> HIDE DEF after, n
  <2>1. n \in Nat /\ \A i \in 1..n : g[i] = Narrowed(g[i - 1], steps[i])
    BY DEF n
  <2>2. \A i \in 1..n : after[i - 1] = g[i - 1] => after[i] = g[i]
    BY <1>4, <2>1
  <2>3. n \in Nat /\ after[0] = g[0]
    BY <1>4, <2>1
  <2>4. QED
    BY ONLY <2>2, <2>3, StepByStep
<1>6. n \in 0..n
  OBVIOUS
<1>7. QED
  BY <1>1, <1>5, <1>6

\* The rows that are left after some of the filters, as the client sees it.
Wanted(i) == {r \in Visible(table) : \A j \in 1..i : Holds(filterset[j], input[j], r)}
Sliced(i) == \E j \in 1..i : filterset[j].method = "only_first" /\ input[j].of = <<1>>
Left(i) == IF Sliced(i) THEN First(Wanted(i)) ELSE Wanted(i)

\* What the filterset was given.
LEMMA RequestSuits ==
    ASSUME Requested, Len(input) = Len(filterset), NEW i \in DOMAIN filterset
    PROVE  /\ DOMAIN filterset = 1..Len(filterset) /\ Len(filterset) \in Nat
           /\ WellFormed(filterset[i]) /\ Suits(filterset[i], input[i])
           /\ Steps[i] = <<filterset[i], ConvertEnum(input[i])>>
<1>1. DOMAIN filterset = 1..Len(filterset) /\ Len(filterset) \in Nat /\ WellFormed(filterset[i])
  BY FilterAssumption DEF Requested
<1>2. i \in DOMAIN input
  BY <1>1 DEF Requested
<1>3. input[i] \in Inputs(ArgumentType(filterset[i])) \cup {Null}
  BY <1>2 DEF Requested, Arguments
<1>4. Suits(filterset[i], input[i])
  BY <1>1, <1>3, GivenSuits
<1>5. QED
  BY <1>1, <1>4 DEF Steps

\* An empty list that narrows leaves no row.
LEMMA EmptyListHasNoRow ==
    ASSUME NEW f, WellFormed(f), NEW d, Suits(f, d),
           Narrows(f, ConvertEnum(d)), GivesNone(f, ConvertEnum(d)), NEW row
    PROVE  Lookup(f, ConvertEnum(d), row) = f.exclude
<1> DEFINE e == ConvertEnum(d)
<1>1. e.of = <<>> /\ Class(f) = "list" /\ f.method = "none" /\ IsEmptyList(e)
  BY DEF GivesNone, IsEmptyList
<1>2. f.exclude = FALSE
  BY <1>1, NarrowsByClass DEF WellFormed, e
<1>3. ToSet(e.of) = {}
  BY <1>1 DEF ToSet
<1>4. f.attr \in Single /\ f.lookup = "in"
  BY <1>1 DEF WellFormed, Class, Single
<1> HIDE DEF e
<1>5. ~Lookup(f, e, row)
  BY <1>3, <1>4, LookupByAttribute
<1>6. QED
  BY <1>2, <1>5, LookupByAttribute DEF e

\* A filter that slices is one that its argument makes narrow.
LEMMA SlicingNarrows ==
    ASSUME NEW f, WellFormed(f), NEW d, Suits(f, d), Slices(<<f, d>>)
    PROVE  Narrows(f, ConvertEnum(d))
<1>1. Class(f) = "typed" /\ d.of = <<1>>
  BY DEF Slices, WellFormed, Class
<1>2. d.is # "null" /\ ~IsEmptyList(d) /\ d.of # <<Empty>>
  BY <1>1 DEF Suits, IsEmptyList, Empty
<1>3. ~IsEmpty(ConvertEnum(d))
  BY <1>2, Converted DEF IsEmpty
<1>4. QED
  BY <1>1, <1>3, NarrowsByClass

\* Each filter leaves what is left after it.
LEMMA OneFilterMore ==
    ASSUME Requested, Len(input) = Len(filterset), ~Fails, NEW i \in 1..Len(filterset)
    PROVE  Left(i) = Narrowed(Left(i - 1), Steps[i])
<1> DEFINE f == filterset[i]
           d == input[i]
           e == ConvertEnum(d)
<1>1. i \in DOMAIN filterset /\ DOMAIN filterset = 1..Len(filterset) /\ Len(filterset) \in Nat
  BY FilterAssumption DEF Requested
<1>2. WellFormed(f) /\ Suits(f, d) /\ Steps[i] = <<f, e>>
  BY <1>1, RequestSuits
<1>3. ~Refuses(f, e)
  BY <1>1 DEF Fails, Invalid
<1>4. 1..i = (1..(i - 1)) \cup {i}
  BY <1>1
<1>5. Wanted(i) = {r \in Wanted(i - 1) : Holds(f, d, r)}
  BY <1>4 DEF Wanted
<1>6. Sliced(i) <=> Sliced(i - 1) \/ (f.method = "only_first" /\ d.of = <<1>>)
  BY <1>4 DEF Sliced
<1>7. Wanted(i - 1) \subseteq Rows /\ Left(i - 1) \subseteq Wanted(i - 1)
  BY DEF Wanted, Visible, Left, First, Requested
<1>8. e.of = d.of /\ ~e.enum
  BY <1>2, Converted
<1>9. Narrowed(Left(i - 1), Steps[i]) =
        IF ~Narrows(f, e) THEN Left(i - 1)
        ELSE IF f.method = "only_first"
        THEN IF d.of = <<1>> THEN First(Left(i - 1)) ELSE Left(i - 1)
        ELSE {r \in Left(i - 1) : Lookup(f, e, r) # f.exclude}
  <2> HIDE DEF f, d, e
  <2>1. Steps[i][1] = f /\ Steps[i][2] = e
    BY <1>2
  <2>2. Slices(Steps[i]) <=> f.method = "only_first" /\ d.of = <<1>>
    BY <1>8, <2>1 DEF Slices
  <2>3. Narrowed(Left(i - 1), Steps[i]) =
          IF ~Narrows(f, e) THEN Left(i - 1)
          ELSE IF f.method = "only_first"
          THEN IF Slices(Steps[i]) THEN First(Left(i - 1)) ELSE Left(i - 1)
          ELSE {r \in Left(i - 1) : ~e.enum /\ (Lookup(f, e, r) # f.exclude)}
    BY <2>1 DEF Narrowed
  <2>4. {r \in Left(i - 1) : ~e.enum /\ (Lookup(f, e, r) # f.exclude)}
          = {r \in Left(i - 1) : Lookup(f, e, r) # f.exclude}
    BY <1>8
  <2>5. QED
    BY <2>2, <2>3, <2>4
<1> HIDE DEF f, d, e
<1>10. CASE f.method = "only_first"
  <2>1. \A r : Holds(f, d, r)
    BY <1>10 DEF Holds, AsksNothing
  <2>2. Wanted(i) = Wanted(i - 1)
    BY <1>5, <2>1
  <2>3. d.of = <<1>> => Narrows(f, e)
    BY <1>2, <1>10, SlicingNarrows DEF e, Slices
  <2>4. Narrowed(Left(i - 1), Steps[i]) = IF d.of = <<1>> THEN First(Left(i - 1)) ELSE Left(i - 1)
    BY <1>9, <1>10, <2>3
  <2>5. First(First(Wanted(i))) = First(Wanted(i))
    BY DEF First
  <2>6. QED
    BY <1>6, <1>10, <2>2, <2>4, <2>5 DEF Left
<1>11. CASE f.method # "only_first"
  <2>1. \A r \in Rows : (Narrows(f, e) => (Lookup(f, e, r) # f.exclude)) <=> Holds(f, d, r)
    BY <1>2, <1>3, <1>11, FilterLeavesWhatHolds DEF e
  <2>2. Sliced(i) <=> Sliced(i - 1)
    BY <1>6, <1>11
  <2>3. CASE Sliced(i - 1)
    <3>1. PICK j \in 1..(i - 1) : filterset[j].method = "only_first" /\ input[j].of = <<1>>
      BY <2>3 DEF Sliced
    <3>2. j \in DOMAIN filterset /\ j < i
      BY <1>1
    <3>3. Slices(Steps[j])
      <4>1. Suits(filterset[j], input[j]) /\ Steps[j] = <<filterset[j], ConvertEnum(input[j])>>
        BY <3>2, RequestSuits
      <4>2. ConvertEnum(input[j]).of = <<1>>
        BY <3>1, <4>1, Converted
      <4>3. QED
        BY <3>1, <4>1, <4>2 DEF Slices
    <3>4. DOMAIN Steps = DOMAIN filterset
      BY DEF Steps
    <3>5. ~Narrows(f, e) \/ GivesNone(f, e)
      BY <1>1, <1>2, <1>11, <3>2, <3>3, <3>4 DEF Fails, AfterSlice
    <3>6. CASE ~Narrows(f, e)
      <4>1. Wanted(i) = Wanted(i - 1)
        BY <1>5, <1>7, <2>1, <3>6
      <4>2. QED
        BY <1>9, <2>2, <3>6, <4>1 DEF Left
    <3>7. CASE Narrows(f, e) /\ GivesNone(f, e)
      <4>1. \A r \in Rows : Lookup(f, e, r) = f.exclude
        BY <1>2, <3>7, EmptyListHasNoRow DEF e
      <4>2. Wanted(i) = {}
        BY <1>5, <1>7, <2>1, <3>7, <4>1
      <4>3. Left(i) = {}
        BY <4>2 DEF Left, First
      <4>4. Narrowed(Left(i - 1), Steps[i]) = {}
        BY <1>7, <1>9, <1>11, <3>7, <4>1
      <4>5. QED
        BY <4>3, <4>4
    <3>8. QED
      BY <3>5, <3>6, <3>7
  <2>4. CASE ~Sliced(i - 1)
    <3>1. Left(i) = Wanted(i) /\ Left(i - 1) = Wanted(i - 1)
      BY <2>2, <2>4 DEF Left
    <3>2. CASE Narrows(f, e)
      BY <1>5, <1>7, <1>9, <1>11, <2>1, <3>1, <3>2
    <3>3. CASE ~Narrows(f, e)
      BY <1>5, <1>7, <1>9, <2>1, <3>1, <3>3
    <3>4. QED
      BY <3>2, <3>3
  <2>5. QED
    BY <2>3, <2>4
<1>12. QED
  BY <1>10, <1>11

\* All of them leave what the arguments describe.
LEMMA FiltersDescribe ==
    ASSUME Requested, Len(input) = Len(filterset), ~Fails
    PROVE  Filtered(Visible(table), Steps) = Described(table)
<1> DEFINE n == Len(filterset)
           g == [i \in 0..n |-> Left(i)]
<1>1. DOMAIN filterset = 1..n /\ n \in Nat
  BY FilterAssumption DEF Requested
<1>2. Len(Steps) = n
  BY <1>1 DEF Steps
<1>3. g[0] = Visible(table)
  <2>1. Left(0) = Visible(table)
    BY DEF Left, Sliced, Wanted
  <2>2. QED
    BY <1>1, <2>1
<1>4. \A i \in 1..n : g[i] = Narrowed(g[i - 1], Steps[i])
  <2> SUFFICES ASSUME NEW i \in 1..n PROVE g[i] = Narrowed(g[i - 1], Steps[i])
    OBVIOUS
  <2>1. g[i] = Left(i) /\ g[i - 1] = Left(i - 1)
    BY <1>1
  <2>2. QED
    BY <2>1, OneFilterMore
<1>5. g = [i \in 0..n |-> g[i]]
  OBVIOUS
<1>6. Filtered(Visible(table), Steps) = g[n]
  <2> HIDE DEF g
  <2>1. QED
    BY <1>1, <1>2, <1>3, <1>4, <1>5, FilteredIsLast
<1>7. g[n] = Left(n)
  BY <1>1
<1>8. Left(n) = Described(table)
  <2>1. Wanted(n) = {r \in table : r.visible /\ \A i \in DOMAIN filterset :
                                      Holds(filterset[i], input[i], r)}
    BY <1>1 DEF Wanted, Visible
  <2>2. Sliced(n) <=> \E i \in DOMAIN filterset :
                        filterset[i].method = "only_first" /\ input[i].of = <<1>>
    BY <1>1 DEF Sliced
  <2>3. QED
    BY <2>1, <2>2 DEF Described, Left
<1>9. QED
  BY <1>6, <1>7, <1>8

-----------------------------------------------------------------------------
(* The invariant.                                                          *)

\* The types of the arguments depend on the filterset and the registry.
LEMMA TypesStand == UNCHANGED <<filterset, registered>> => Arguments' = Arguments
BY DEF Arguments, Inputs, Atoms, ArgumentType, ModelType

\* The filterset's judgement depends on what the request has.
LEMMA JudgementStands == UNCHANGED request => Fails' = Fails /\ Steps' = Steps
<1> SUFFICES ASSUME UNCHANGED request PROVE Fails' = Fails /\ Steps' = Steps
  OBVIOUS
<1>1. Steps' = Steps
  BY DEF request, Steps
<1>2. Invalid' = Invalid
  BY DEF request, Invalid
<1>3. Fails' = Fails
  BY <1>1, <1>2 DEF request, Fails
<1>4. QED
  BY <1>1, <1>3

\* The client's next argument is one more of its type.
LEMMA GivingKeepsRequest == FilterInv /\ GiveArgument => FilterInv'
<1> SUFFICES ASSUME FilterInv, GiveArgument PROVE FilterInv'
  OBVIOUS
<1>1. Requested /\ Judged
  BY DEF FilterInv
<1> DEFINE f == filterset[Len(input) + 1]
<1>2. PICK d \in Inputs(ArgumentType(f)) \cup {Null} : input' = Append(input, d)
  BY DEF GiveArgument
<1>3. /\ Len(input) \in Nat /\ Len(filterset) \in Nat /\ Len(input) < Len(filterset)
      /\ Len(input) + 1 \in DOMAIN filterset
  BY <1>1, FilterAssumption DEF Requested, GiveArgument
<1>4. d \in Values
  <2>1. WellFormed(f)
    BY <1>1, <1>3, FilterAssumption DEF Requested
  <2>2. QED
    BY <2>1, GivenSuits DEF Suits
<1>5. input' \in Seq(Values) /\ Len(input') = Len(input) + 1 /\ Len(input') <= Len(filterset)
  BY <1>1, <1>2, <1>3, <1>4 DEF Requested
<1>6. \A i \in DOMAIN input' : input'[i] \in Arguments[i]
  <2> SUFFICES ASSUME NEW i \in DOMAIN input' PROVE input'[i] \in Arguments[i]
    OBVIOUS
  <2>1. CASE i \in DOMAIN input
    <3>1. input'[i] = input[i]
      BY <1>1, <1>2, <2>1 DEF Requested
    <3>2. QED
      BY <1>1, <2>1, <3>1 DEF Requested
  <2>2. CASE i \notin DOMAIN input
    <3>1. i = Len(input) + 1
      BY <1>1, <1>5, <2>2 DEF Requested
    <3>2. input'[i] = d
      BY <1>1, <1>2, <3>1 DEF Requested
    <3>3. Arguments[i] = Inputs(ArgumentType(f)) \cup {Null}
      BY <1>3, <3>1 DEF Arguments
    <3>4. QED
      BY <1>2, <3>2, <3>3
  <2>3. QED
    BY <2>1, <2>2
<1>7. Arguments' = Arguments
  BY TypesStand DEF GiveArgument
<1>8. Requested'
  BY <1>1, <1>5, <1>6, <1>7 DEF Requested, GiveArgument
<1>9. phase = "asked"
  BY <1>1, <1>3 DEF Judged
<1>10. Judged'
  BY <1>9 DEF Judged, GiveArgument
<1>11. QED
  BY <1>8, <1>10 DEF FilterInv

\* The other steps leave what the request has.
LEMMA RequestStands ==
    ASSUME Requested, UNCHANGED request, table' \subseteq table
    PROVE  Requested'
<1>1. Arguments' = Arguments
  BY TypesStand DEF request
<1>2. QED
  BY <1>1 DEF Requested, request

\* The inductive invariant of a filter connection field.
THEOREM FilterInduction == Spec => []FilterInv
<1>1. Init => FilterInv
  <2> SUFFICES ASSUME Init PROVE FilterInv
    OBVIOUS
  <2>1. Len(filterset) \in Nat
    BY FilterAssumption DEF Init
  <2>2. input \in Seq(Values) /\ Len(input) = 0 /\ DOMAIN input = {}
    BY DEF Init
  <2>3. QED
    BY <2>1, <2>2 DEF Init, FilterInv, Requested, Judged
<1>2. FilterInv /\ [Next]_vars => FilterInv'
  <2> SUFFICES ASSUME FilterInv, [Next]_vars PROVE FilterInv'
    OBVIOUS
  <2>1. CASE GiveArgument
    BY <2>1, GivingKeepsRequest
  <2>2. ASSUME UNCHANGED request, table' \subseteq table, Judged' PROVE FilterInv'
    BY <2>2, RequestStands DEF FilterInv
  <2>3. CASE Refuse
    BY <2>2, <2>3, JudgementStands DEF Refuse, Asked, FilterInv, Judged, request
  <2>4. CASE Filter
    BY <2>2, <2>4, JudgementStands DEF Filter, Asked, FilterInv, Judged, request
  <2>5. CASE Evaluate
    BY <2>2, <2>5, JudgementStands DEF Evaluate, FilterInv, Judged, request
  <2>6. CASE DeleteRow
    BY <2>2, <2>6, JudgementStands DEF DeleteRow, FilterInv, Judged, request
  <2>7. CASE UNCHANGED vars
    BY <2>2, <2>7, JudgementStands DEF vars, FilterInv, Judged, request
  <2>8. QED
    BY <2>1, <2>3, <2>4, <2>5, <2>6, <2>7 DEF Next
<1>3. QED
  BY <1>1, <1>2, PTL DEF Spec

\* An argument that means nothing never becomes a query without it.
THEOREM MeaninglessArguments == Spec => []MeaninglessIsRefused
<1>1. FilterInv => MeaninglessIsRefused
  <2> SUFFICES ASSUME FilterInv, phase \in {"filtered", "answered"}, NEW i \in DOMAIN filterset,
                      Meaningless(filterset[i], input[i])
               PROVE  FALSE
    BY DEF MeaninglessIsRefused
  <2>1. Requested /\ Len(input) = Len(filterset) /\ ~Fails
    BY DEF FilterInv, Judged
  <2>2. /\ WellFormed(filterset[i]) /\ Suits(filterset[i], input[i])
        /\ Steps[i] = <<filterset[i], ConvertEnum(input[i])>>
    BY <2>1, RequestSuits
  <2>3. Refuses(filterset[i], ConvertEnum(input[i])) \/ BadKey(Steps[i])
    BY <2>2, MeaninglessIsJudged
  <2>4. i \in DOMAIN Steps
    BY DEF Steps
  <2>5. QED
    BY <2>1, <2>3, <2>4 DEF Fails, Invalid
<1>2. QED
  BY <1>1, FilterInduction, PTL

\* Whatever else suits its type is served, unless a filter comes after one that
\* slices, or several ids became a single one.
THEOREM MeaningfulArguments == Spec => []MeaningfulIsServed
<1>1. FilterInv => MeaningfulIsServed
  <2> SUFFICES ASSUME FilterInv, phase = "refused", iterable = "queryset"
               PROVE  \E i \in DOMAIN filterset :
                        \/ Meaningless(filterset[i], input[i])
                        \/ \E j \in i + 1..Len(filterset) :
                             /\ filterset[i].method = "only_first" /\ input[i].of = <<1>>
                             /\ ~AsksNothing(filterset[j], input[j])
                             /\ ~GivesNone(filterset[j], input[j])
                        \/ filterset[i].class = "ids" /\ "related" \in registered
                             /\ ~IsEmpty(input[i])
    BY DEF MeaningfulIsServed
  <2>1. Requested /\ Len(input) = Len(filterset) /\ Fails
    BY DEF FilterInv, Judged
  <2>2. DOMAIN Steps = DOMAIN filterset
    BY DEF Steps
  <2>3. \A i \in DOMAIN filterset :
          /\ DOMAIN filterset = 1..Len(filterset) /\ Len(filterset) \in Nat
          /\ WellFormed(filterset[i]) /\ Suits(filterset[i], input[i])
          /\ Steps[i] = <<filterset[i], ConvertEnum(input[i])>>
    BY <2>1, RequestSuits
  <2>4. CASE Invalid
    <3>1. PICK i \in DOMAIN filterset : Refuses(filterset[i], ConvertEnum(input[i]))
      BY <2>4 DEF Invalid
    <3>2. \/ Meaningless(filterset[i], input[i])
          \/ filterset[i].class = "ids" /\ "related" \in registered /\ ~IsEmpty(input[i])
      BY <2>3, <3>1, RefusedIsMeaningless
    <3>3. QED
      BY <3>2
  <2>5. CASE AfterSlice(Steps)
    <3>1. PICK i \in DOMAIN filterset, j \in DOMAIN filterset :
             /\ i < j /\ Slices(Steps[i])
             /\ Narrows(Steps[j][1], Steps[j][2]) /\ ~GivesNone(Steps[j][1], Steps[j][2])
             /\ Steps[j][1].method # "only_first"
      BY <2>2, <2>5 DEF AfterSlice
    <3>2. Steps[i] = <<filterset[i], ConvertEnum(input[i])>> /\ Suits(filterset[i], input[i])
      BY <2>3
    <3>3. filterset[i].method = "only_first" /\ ConvertEnum(input[i]).of = <<1>>
      BY <3>1, <3>2 DEF Slices
    <3>4. input[i].of = <<1>>
      BY <3>2, <3>3, Converted
    <3>5. Steps[j][1] = filterset[j] /\ Steps[j][2] = ConvertEnum(input[j])
      BY <2>3
    <3>6. ~AsksNothing(filterset[j], input[j])
      BY <2>3, <3>1, <3>5, NarrowsUnlessNothingAsked
    <3>7. ~GivesNone(filterset[j], input[j])
      BY <2>3, <3>1, <3>5, Converted DEF GivesNone
    <3>8. j \in i + 1..Len(filterset)
      BY <2>3, <3>1
    <3>9. QED
      BY <3>3, <3>4, <3>6, <3>7, <3>8
  <2>6. CASE \E i \in DOMAIN Steps : BadKey(Steps[i])
    <3>1. PICK i \in DOMAIN filterset : BadKey(Steps[i])
      BY <2>2, <2>6
    <3>2. Steps[i] = <<filterset[i], ConvertEnum(input[i])>> /\ Suits(filterset[i], input[i])
      BY <2>3
    <3>3. ConvertEnum(input[i]).of = input[i].of
      BY <3>2, Converted
    <3>4. /\ LooksAtKeys(filterset[i]) /\ Narrows(filterset[i], ConvertEnum(input[i]))
          /\ \E a \in ToSet(input[i].of) : NoKey(filterset[i], a)
      BY <3>1, <3>2, <3>3 DEF BadKey
    <3>5. ~AsksNothing(filterset[i], input[i])
      BY <2>3, <3>2, <3>4, NarrowsUnlessNothingAsked DEF LooksAtKeys
    <3>6. QED
      BY <3>4, <3>5 DEF Meaningless
  <2>7. QED
    BY <2>1, <2>4, <2>5, <2>6 DEF Fails
<1>2. QED
  BY <1>1, FilterInduction, PTL

\* The answer holds the rows the arguments describe, when the query is made.
THEOREM AnswersDescribed == Spec => AnswerIsDescribed
<1>1. FilterInv /\ [Next]_vars => [phase' = "answered" => answer' = Described(table)]_vars
  <2> SUFFICES ASSUME FilterInv, Next, phase' = "answered"
               PROVE  answer' = Described(table) \/ UNCHANGED vars
    OBVIOUS
  <2>1. CASE Evaluate
    <3>1. Requested /\ Len(input) = Len(filterset) /\ ~Fails /\ query = Steps
      BY <2>1 DEF FilterInv, Judged, Evaluate
    <3>2. answer' = Filtered(Visible(table), Steps)
      BY <2>1, <3>1 DEF Evaluate
    <3>3. QED
      BY <3>1, <3>2, FiltersDescribe
  <2>2. CASE GiveArgument
    <3>1. phase = "answered" /\ Len(input) < Len(filterset) /\ Len(input) = Len(filterset)
      BY <2>2 DEF GiveArgument, FilterInv, Judged
    <3>2. Len(filterset) \in Nat
      BY FilterAssumption DEF FilterInv, Requested
    <3>3. QED
      BY <3>1, <3>2
  <2>3. CASE Refuse \/ Filter \/ DeleteRow
    BY <2>3 DEF Refuse, Filter, DeleteRow
  <2>4. QED
    BY <2>1, <2>2, <2>3 DEF Next
<1>2. QED
  BY <1>1, FilterInduction, PTL DEF Spec, AnswerIsDescribed
=============================================================================
