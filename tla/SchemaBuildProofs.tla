------------------------- MODULE SchemaBuildProofs -------------------------
(***************************************************************************)
(* Proofs about what is done with a schema before it serves a request:     *)
(* the settings are read, types are defined as they say, and the command   *)
(* graphql_schema dumps it.  For any dictionaries and any overrides: what  *)
(* one object answers comes from one dictionary, the newest object answers *)
(* by the dictionary in force, and all enums are named in one style.  For  *)
(* any choices: the members of an enum get names of their own, and a value *)
(* sent back as it was shown is that value.  For any number of saves: a    *)
(* dump reported as done is whole, and one refused leaves the file there   *)
(* was.                                                                    *)
(***************************************************************************)
EXTENDS FieldConversion, SchemaDump, SequenceTheorems, FiniteSetTheorems,
        WellFoundedInduction, TLAPS

\* An object that answered some settings from one dictionary is such an object.
LEMMA FromOneAnswers ==
    ASSUME NEW d \in Dicts, NEW attrs \in SUBSET Attrs
    PROVE  AnsweredFrom(d, attrs) \in Answering
<1>1. <<d, attrs>> \in Dicts \X SUBSET Attrs
  OBVIOUS
<1>2. AnsweredFrom(<<d, attrs>>[1], <<d, attrs>>[2]) \in Answering
  BY <1>1 DEF Answering
<1>3. QED
  BY <1>2

\* Asked for anything, an object that answers from one dictionary still does,
\* and takes the one in force if it had none.
LEMMA ReadingKeepsSource ==
    ASSUME SettingsInv, NEW o \in DOMAIN objects, NEW attrs \in SUBSET Attrs
    PROVE  /\ AfterReading(o, attrs) \in Answering
           /\ AfterReading(o, attrs).user = UserSettings(o)
           /\ objects[o].user # <<>> => UserSettings(o) = objects[o].user
<1> DEFINE obj == objects[o]
<1>1. obj \in Answering
  BY DEF SettingsInv
<1>2. Present \in Dicts
  BY DEF SettingsInv, Present
<1>3. ASSUME NEW d \in Dicts, UserSettings(o) = <<d>>,
             DOMAIN obj.cache \subseteq Attrs,
             \A a \in DOMAIN obj.cache : obj.cache[a] = Value(d, a)
      PROVE  AfterReading(o, attrs) \in Answering
  <2> DEFINE read == {a \in attrs : ~ImportFails(d, a)} \cup DOMAIN obj.cache
  <2>1. UserSettings(o)[1] = d
    BY <1>3
  <2>2. \A a \in read : Answer(o, a) = Value(d, a)
    BY <1>3, <2>1 DEF Answer
  <2>3. AfterReading(o, attrs) = AnsweredFrom(d, read)
    BY <1>3, <2>1, <2>2 DEF AfterReading, AnsweredFrom
  <2>4. read \in SUBSET Attrs
    BY <1>3
  <2>5. QED
    BY <2>3, <2>4, FromOneAnswers
<1>4. CASE obj = New(NoDict)
  <2>1. obj.user = <<>> /\ DOMAIN obj.cache = {}
    BY <1>4 DEF New, EmptyCache
  <2>2. UserSettings(o) = <<Present>>
    BY <2>1 DEF UserSettings
  <2>3. AfterReading(o, attrs) \in Answering
    BY <1>2, <1>3, <2>1, <2>2
  <2>4. QED
    BY <2>1, <2>3 DEF AfterReading
<1>5. CASE obj # New(NoDict)
  <2>1. PICK d \in Dicts, s \in SUBSET Attrs :
           obj = [user |-> <<d>>, cache |-> [a \in s |-> Value(d, a)]]
    BY <1>1, <1>5 DEF Answering, AnsweredFrom
  <2>2. UserSettings(o) = <<d>> /\ obj.user = <<d>>
    BY <2>1 DEF UserSettings
  <2>3. DOMAIN obj.cache \subseteq Attrs /\ \A a \in DOMAIN obj.cache : obj.cache[a] = Value(d, a)
    BY <2>1
  <2>4. AfterReading(o, attrs) \in Answering
    BY <1>3, <2>2, <2>3
  <2>5. QED
    BY <2>2, <2>4 DEF AfterReading
<1>6. QED
  BY <1>4, <1>5

\* A new object answers from the value it was made for, or has answered nothing.
LEMMA NewAnswers ==
    ASSUME NEW d \in Dicts
    PROVE  New(d) \in Answering /\ New(d).user \in {<<>>, <<d>>}
<1>1. CASE d = NoDict
  BY <1>1 DEF Answering, New
<1>2. CASE d # NoDict
  <2>1. New(d) = [user |-> <<d>>, cache |-> EmptyCache]
    BY <1>2 DEF New
  <2>2. EmptyCache = [a \in {} |-> Value(d, a)]
    BY DEF EmptyCache
  <2>3. New(d) = AnsweredFrom(d, {})
    BY <2>1, <2>2 DEF AnsweredFrom
  <2>4. AnsweredFrom(d, {}) \in Answering
    BY FromOneAnswers
  <2>5. QED
    BY <2>1, <2>3, <2>4
<1>3. QED
  BY <1>1, <1>2

\* A read leaves the invariant, whichever object is asked.
LEMMA ReadKeepsInv ==
    ASSUME SettingsInv, NEW o \in DOMAIN objects, NEW attrs \in SUBSET Attrs,
           Read(o, attrs), UNCHANGED <<GRAPHENE, views>>
    PROVE  SettingsInv'
<1>1. /\ AfterReading(o, attrs) \in Answering
      /\ AfterReading(o, attrs).user = UserSettings(o)
      /\ objects[o].user # <<>> => UserSettings(o) = objects[o].user
  BY ReadingKeepsSource
<1>2. objects \in Seq(Answering) /\ objects # <<>>
  BY DEF SettingsInv
<1>3. /\ objects' \in Seq(Answering) /\ objects' # <<>> /\ Len(objects') = Len(objects)
      /\ objects'[Newest] = IF o = Newest THEN AfterReading(o, attrs) ELSE objects[Newest]
  BY <1>1, <1>2 DEF Read, Newest
<1>4. objects'[Newest].user \in {<<>>, <<Present>>}
  BY <1>1, <1>3 DEF SettingsInv, UserSettings, Newest
<1>5. QED
  BY <1>3, <1>4 DEF SettingsInv, Newest, Present

\* The invariant holds at first.
LEMMA SettingsStart == SettingsInit => SettingsInv
<1> SUFFICES ASSUME SettingsInit PROVE SettingsInv
  OBVIOUS
<1>1. New(NoDict) \in Answering /\ New(NoDict).user = <<>>
  BY DEF Answering, New
<1>2. objects \in Seq(Answering) /\ Len(objects) = 1 /\ objects # <<>> /\ objects[1].user = <<>>
  BY <1>1 DEF SettingsInit
<1>3. PICK d \in Dicts : GRAPHENE = <<d>>
  BY DEF SettingsInit
<1>4. GRAPHENE \in Seq(Dicts) /\ GRAPHENE # <<>> /\ views \in 0..1
  BY <1>3 DEF SettingsInit
<1>5. QED
  BY <1>2, <1>4 DEF SettingsInv, Newest

\* Every step of the settings keeps it.
LEMMA SettingsStep == SettingsInv /\ [SettingsNext]_settings_vars => SettingsInv'
<1> SUFFICES ASSUME SettingsInv, [SettingsNext]_settings_vars PROVE SettingsInv'
  OBVIOUS
<1>1. GRAPHENE \in Seq(Dicts) /\ GRAPHENE # <<>> /\ objects \in Seq(Answering) /\ objects # <<>>
  BY DEF SettingsInv
<1>2. ASSUME NEW d \in Dicts, Replace(d), GRAPHENE' \in Seq(Dicts), GRAPHENE' # <<>>,
             GRAPHENE'[Len(GRAPHENE')] = d, views' = views
      PROVE  SettingsInv'
  <2>1. New(d) \in Answering /\ New(d).user \in {<<>>, <<d>>}
    BY NewAnswers
  <2>2. /\ objects' \in Seq(Answering) /\ objects' # <<>>
        /\ Len(objects') = Len(objects) + 1 /\ objects'[Len(objects')] = New(d)
    BY <1>1, <1>2, <2>1 DEF Replace
  <2>3. views' \in 0..Len(objects')
    BY <1>1, <1>2, <2>2 DEF SettingsInv, Newest
  <2>4. QED
    BY <1>2, <2>1, <2>2, <2>3 DEF SettingsInv, Newest, Present
<1>3. CASE Override
  <2>1. PICK d \in Dicts : GRAPHENE' = Append(GRAPHENE, d) /\ Replace(d)
    BY <1>3 DEF Override
  <2>2. /\ GRAPHENE' \in Seq(Dicts) /\ GRAPHENE' # <<>>
        /\ GRAPHENE'[Len(GRAPHENE')] = d
    BY <1>1, <2>1
  <2>3. QED
    BY <1>2, <1>3, <2>1, <2>2 DEF Override
<1>4. CASE Restore
  <2> DEFINE n == Len(GRAPHENE) - 1
  <2>1. n \in 1..Len(GRAPHENE) /\ GRAPHENE' = SubSeq(GRAPHENE, 1, n)
    BY <1>1, <1>4 DEF Restore
  <2>2. GRAPHENE' \in Seq(Dicts) /\ Len(GRAPHENE') = n
    <3>1. /\ 1 \in Int /\ n \in Int /\ 1 <= n /\ n - 1 + 1 = n
          /\ \A i \in 1..n : GRAPHENE[i] \in Dicts
      BY <1>1, <2>1
    <3>2. /\ SubSeq(GRAPHENE, 1, n) \in Seq(Dicts)
          /\ Len(SubSeq(GRAPHENE, 1, n)) = IF 1 <= n THEN n - 1 + 1 ELSE 0
      <4> HIDE DEF n
      <4>1. QED
        BY <3>1, SubSeqProperties
    <3>3. QED
      BY <2>1, <3>1, <3>2
  <2>3. GRAPHENE' # <<>> /\ GRAPHENE'[Len(GRAPHENE')] \in Dicts
    <3>1. n \in 1..n
      BY <1>1, <2>1
    <3>2. \A s \in Seq(Dicts) : \A i \in 1..Len(s) : s # <<>> /\ s[i] \in Dicts
      OBVIOUS
    <3>3. QED
      BY <2>2, <3>1, <3>2
  <2>4. QED
    BY <1>2, <1>4, <2>2, <2>3 DEF Restore
<1>5. CASE ImportViews
  BY <1>1, <1>5 DEF ImportViews, SettingsInv, Newest, Present
<1>6. CASE ReadByViews
  <2>1. PICK attr \in Attrs : Read(views, {attr})
    BY <1>6 DEF ReadByViews
  <2>2. views \in DOMAIN objects
    BY <1>1, <1>6 DEF ReadByViews, SettingsInv, Newest
  <2>3. QED
    BY <1>6, <2>1, <2>2, ReadKeepsInv DEF ReadByViews
<1>7. CASE ReadNewest
  <2>1. PICK attr \in Attrs : Read(Newest, {attr})
    BY <1>7 DEF ReadNewest
  <2>2. Newest \in DOMAIN objects
    BY <1>1 DEF Newest
  <2>3. QED
    BY <1>7, <2>1, <2>2, ReadKeepsInv DEF ReadNewest
<1>8. CASE UNCHANGED settings_vars
  BY <1>8 DEF settings_vars, SettingsInv, Newest, Present
<1>9. QED
  BY <1>3, <1>4, <1>5, <1>6, <1>7, <1>8 DEF SettingsNext

\* The invariant is inductive.
THEOREM SettingsInduction == SettingsSpec => []SettingsInv
BY SettingsStart, SettingsStep, PTL DEF SettingsSpec

\* With the invariant, all that an object answered comes from one dictionary.
LEMMA InvKeepsSource == SettingsInv => OneSource
<1> SUFFICES ASSUME SettingsInv, NEW o \in DOMAIN objects
             PROVE  /\ objects[o].user = <<>> => objects[o].cache = EmptyCache
                    /\ \A d \in Dicts : objects[o].user = <<d>> =>
                         \A a \in DOMAIN objects[o].cache : objects[o].cache[a] = Value(d, a)
  BY DEF OneSource
<1>1. objects[o] \in Answering
  BY DEF SettingsInv
<1>2. CASE objects[o] = New(NoDict)
  BY <1>2 DEF New
<1>3. CASE objects[o] # New(NoDict)
  <2>1. PICK d \in Dicts, s \in SUBSET Attrs :
           objects[o] = [user |-> <<d>>, cache |-> [a \in s |-> Value(d, a)]]
    BY <1>1, <1>3 DEF Answering, AnsweredFrom
  <2>2. objects[o].user = <<d>> /\ DOMAIN objects[o].cache = s
        /\ \A a \in s : objects[o].cache[a] = Value(d, a)
    BY <2>1
  <2>3. QED
    BY <2>2
<1>4. QED
  BY <1>2, <1>3

\* All that one object ever answers comes from one dictionary.
THEOREM AnswersFromOneSource == SettingsSpec => []OneSource
BY InvKeepsSource, SettingsInduction, PTL

\* With it, the newest object answers by the dictionary in force.
LEMMA InvFollowsSettings == SettingsInv => NewestAnswersByPresent
<1> SUFFICES ASSUME SettingsInv, NEW a \in Attrs
             PROVE  Answer(Newest, a) = Value(Present, a)
  BY DEF NewestAnswersByPresent
<1>1. objects[Newest] \in Answering /\ objects[Newest].user \in {<<>>, <<Present>>}
  BY DEF SettingsInv, Newest
<1>2. CASE objects[Newest] = New(NoDict)
  <2>1. objects[Newest].user = <<>> /\ DOMAIN objects[Newest].cache = {}
    BY <1>2 DEF New, EmptyCache
  <2>2. QED
    BY <2>1 DEF Answer, UserSettings
<1>3. CASE objects[Newest] # New(NoDict)
  <2>1. PICK d \in Dicts, s \in SUBSET Attrs :
           objects[Newest] = [user |-> <<d>>, cache |-> [b \in s |-> Value(d, b)]]
    BY <1>1, <1>3 DEF Answering, AnsweredFrom
  <2>2. /\ objects[Newest].user = <<d>> /\ DOMAIN objects[Newest].cache = s
        /\ \A b \in s : objects[Newest].cache[b] = Value(d, b)
    BY <2>1
  <2>3. d = Present
    BY <1>1, <2>2
  <2>4. QED
    BY <2>2, <2>3 DEF Answer, UserSettings
<1>4. QED
  BY <1>2, <1>3

\* The newest object answers by the dictionary in force.
THEOREM NewestFollowsSettings == SettingsSpec => []NewestAnswersByPresent
BY InvFollowsSettings, SettingsInduction, PTL
-----------------------------------------------------------------------------
\* Any object answers everything from one dictionary, its own if it has one.
LEMMA AnswersFromOneDict ==
    ASSUME SettingsInv, NEW o \in DOMAIN objects
    PROVE  \E d \in Dicts :
             /\ UserSettings(o) = <<d>>
             /\ objects[o].user # <<>> => objects[o].user = <<d>>
             /\ \A a : Answer(o, a) = Value(d, a)
<1>1. objects[o] \in Answering /\ Present \in Dicts
  BY DEF SettingsInv, Present
<1>2. CASE objects[o] = New(NoDict)
  <2>1. objects[o].user = <<>> /\ DOMAIN objects[o].cache = {}
    BY <1>2 DEF New, EmptyCache
  <2>2. QED
    BY <1>1, <2>1 DEF UserSettings, Answer
<1>3. CASE objects[o] # New(NoDict)
  <2>1. PICK d \in Dicts, s \in SUBSET Attrs :
           objects[o] = [user |-> <<d>>, cache |-> [a \in s |-> Value(d, a)]]
    BY <1>1, <1>3 DEF Answering, AnsweredFrom
  <2>2. /\ objects[o].user = <<d>> /\ DOMAIN objects[o].cache = s
        /\ \A a \in s : objects[o].cache[a] = Value(d, a)
    BY <2>1
  <2>3. UserSettings(o) = <<d>>
    BY <2>2 DEF UserSettings
  <2>4. \A a : Answer(o, a) = Value(d, a)
    BY <2>2, <2>3 DEF Answer
  <2>5. QED
    BY <2>2, <2>3, <2>4
<1>4. QED
  BY <1>2, <1>3

\* Reading leaves every object the dictionary it has, the one read from too.
LEMMA ReadKeepsUser ==
    ASSUME SettingsInv, NEW o \in DOMAIN objects, NEW attrs, Read(o, attrs)
    PROVE  /\ DOMAIN objects' = DOMAIN objects
           /\ objects'[o].user = UserSettings(o)
           /\ \A p \in DOMAIN objects :
                objects[p].user # <<>> => objects'[p].user = objects[p].user
<1>1. objects' = [objects EXCEPT ![o] = AfterReading(o, attrs)]
  BY DEF Read
<1>2. AfterReading(o, attrs).user = UserSettings(o)
  BY DEF AfterReading
<1>3. DOMAIN objects' = DOMAIN objects
  BY <1>1
<1>4. objects'[o] = AfterReading(o, attrs)
  BY <1>1
<1>5. \A p \in DOMAIN objects : p # o => objects'[p] = objects[p]
  BY <1>1
<1>6. objects[o].user # <<>> => UserSettings(o) = objects[o].user
  BY DEF UserSettings
<1>7. QED
  BY <1>2, <1>3, <1>4, <1>5, <1>6

\* The library's object is there from the start.
LEMMA LibraryIsAnObject == SettingsInv => Library \in DOMAIN objects
BY DEF SettingsInv, Library

\* No step of the settings takes the library's object its dictionary.
LEMMA LibraryKeepsUser ==
    ASSUME SettingsInv, [SettingsNext]_settings_vars, objects[Library].user # <<>>
    PROVE  objects'[Library].user = objects[Library].user
<1>1. objects \in Seq(Answering) /\ Library \in DOMAIN objects /\ Newest \in DOMAIN objects
  BY LibraryIsAnObject DEF SettingsInv, Newest
<1>2. ASSUME NEW d, Replace(d)
      PROVE  objects'[Library] = objects[Library]
  BY <1>1, <1>2 DEF Replace, Library
<1>3. CASE Override \/ Restore
  BY <1>2, <1>3 DEF Override, Restore
<1>4. CASE ImportViews \/ UNCHANGED settings_vars
  BY <1>4 DEF ImportViews, settings_vars
<1>5. CASE ReadByViews
  <2>1. PICK attr \in Attrs : Read(views, {attr})
    BY <1>5 DEF ReadByViews
  <2>2. views \in DOMAIN objects
    BY <1>1, <1>5 DEF ReadByViews, SettingsInv, Newest
  <2>3. QED
    BY <1>1, <2>1, <2>2, ReadKeepsUser
<1>6. CASE ReadNewest
  <2>1. PICK attr \in Attrs : Read(Newest, {attr})
    BY <1>6 DEF ReadNewest
  <2>2. QED
    BY <1>1, <2>1, ReadKeepsUser
<1>7. QED
  BY <1>3, <1>4, <1>5, <1>6 DEF SettingsNext

\* The library's object keeping its dictionary, no style is added that another
\* dictionary gave.
LEMMA KeptStylesAreNamed ==
    ASSUME NamedFrom, styles' = styles,
           objects[Library].user # <<>> => objects'[Library].user = objects[Library].user
    PROVE  NamedFrom'
<1> SUFFICES ASSUME NEW s \in styles
             PROVE  \E d \in Dicts : objects'[Library].user = <<d>> /\ s = StyleOf(d)
  BY DEF NamedFrom, StyleOf, Value
<1>1. PICK d \in Dicts : objects[Library].user = <<d>> /\ s = StyleOf(d)
  BY DEF NamedFrom
<1>2. QED
  BY <1>1

\* The library reads for the definition of a type.
LEMMA DefiningKeepsInv ==
    ASSUME NamingInv, NEW attrs \in SUBSET Attrs, Read(Library, attrs),
           UNCHANGED <<GRAPHENE, views>>,
           styles' = styles \/ styles' = styles \cup {Style}
    PROVE  NamingInv'
<1>1. SettingsInv /\ NamedFrom /\ Library \in DOMAIN objects
  BY LibraryIsAnObject DEF NamingInv
<1>2. SettingsInv'
  BY <1>1, ReadKeepsInv
<1>3. PICK d \in Dicts : /\ UserSettings(Library) = <<d>>
                         /\ objects[Library].user # <<>> => objects[Library].user = <<d>>
                         /\ \A a : Answer(Library, a) = Value(d, a)
  BY <1>1, AnswersFromOneDict
<1>4. objects'[Library].user = <<d>>
  BY <1>1, <1>3, ReadKeepsUser
<1>5. Style = StyleOf(d)
  BY <1>3 DEF Style, StyleOf
<1>6. NamedFrom'
  <2> SUFFICES ASSUME NEW s \in styles'
               PROVE  \E e \in Dicts : objects'[Library].user = <<e>> /\ s = StyleOf(e)
    BY DEF NamedFrom, StyleOf, Value
  <2>1. CASE s \in styles
    <3>1. PICK e \in Dicts : objects[Library].user = <<e>> /\ s = StyleOf(e)
      BY <1>1, <2>1 DEF NamedFrom
    <3>2. QED
      BY <1>3, <1>4, <3>1
  <2>2. CASE s = Style
    BY <1>4, <1>5, <2>2
  <2>3. QED
    BY <2>1, <2>2
<1>7. QED
  BY <1>2, <1>6 DEF NamingInv

\* What a definition asks the settings, they have.
LEMMA AskedAreSettings == AskedForName \subseteq Attrs /\ {"ENUM_CONVERT"} \subseteq Attrs
BY NamingAssumption DEF AskedForName

\* The styles in use are those of the dictionary the library answers from.
THEOREM NamingInduction == Spec => []NamingInv
<1>1. Init => NamingInv
  BY SettingsStart DEF Init, NamingInv, NamedFrom
<1>2. NamingInv /\ [Next]_vars => NamingInv'
  <2> SUFFICES ASSUME NamingInv, [Next]_vars PROVE NamingInv'
    OBVIOUS
  <2>1. CASE [SettingsNext]_settings_vars /\ styles' = styles
    <3>1. SettingsInv'
      BY <2>1, SettingsStep DEF NamingInv
    <3>2. NamedFrom'
      BY <2>1, LibraryKeepsUser, KeptStylesAreNamed DEF NamingInv
    <3>3. QED
      BY <3>1, <3>2 DEF NamingInv
  <2>2. ASSUME NEW asked \in SUBSET Attrs, NameEnum(asked), UNCHANGED <<GRAPHENE, views>>
        PROVE  NamingInv'
    <3>1. asked \cup AskedForName \in SUBSET Attrs
      BY AskedAreSettings
    <3>2. /\ Read(Library, asked \cup AskedForName)
          /\ styles' = styles \/ styles' = styles \cup {Style}
      BY <2>2 DEF NameEnum
    <3>3. QED
      BY <2>2, <3>1, <3>2, DefiningKeepsInv
  <2>3. CASE DefineOther
    BY <2>2, <2>3 DEF DefineOther
  <2>4. CASE DefineType
    <3>1. PICK f \in Fields, opt \in Options :
             LET asked == IF opt = "none" THEN {"ENUM_CONVERT"} ELSE {}
             IN  NameEnum(asked) \/ (Read(Library, asked) /\ UNCHANGED styles)
      BY <2>4 DEF DefineType
    <3> DEFINE asked == IF opt = "none" THEN {"ENUM_CONVERT"} ELSE {}
    <3>2. asked \in SUBSET Attrs
      BY AskedAreSettings
    <3>3. UNCHANGED <<GRAPHENE, views>>
      BY <2>4 DEF DefineType
    <3>4. CASE NameEnum(asked)
      BY <2>2, <3>2, <3>3, <3>4
    <3>5. CASE Read(Library, asked) /\ UNCHANGED styles
      BY <3>2, <3>3, <3>5, DefiningKeepsInv
    <3>6. QED
      BY <3>1, <3>4, <3>5
  <2>5. CASE Show \/ SendBack \/ UNCHANGED vars
    BY <2>1, <2>5 DEF Show, SendBack, vars, field_vars
  <2>6. QED
    BY <2>1, <2>3, <2>4, <2>5 DEF Next, field_vars
<1>3. QED
  BY <1>1, <1>2, PTL DEF Spec

\* The library's objects answer from one source while types are defined too.
THEOREM DefinitionsKeepSource == Spec => [](OneSource /\ NewestAnswersByPresent)
<1>1. NamingInv => OneSource /\ NewestAnswersByPresent
  BY InvKeepsSource, InvFollowsSettings DEF NamingInv
<1>2. QED
  BY <1>1, NamingInduction, PTL

\* Whatever is overridden while types are defined, all enums are named in one
\* style: that of the dictionary the library's object first answered from.
THEOREM EnumsInOneStyle == Spec => []OneNamingStyle
<1>1. NamingInv => OneNamingStyle
  <2> SUFFICES ASSUME NamingInv, NEW s \in styles, NEW t \in styles PROVE s = t
    BY DEF OneNamingStyle
  <2>1. PICK d \in Dicts : objects[Library].user = <<d>> /\ s = StyleOf(d)
    BY DEF NamingInv, NamedFrom
  <2>2. PICK e \in Dicts : objects[Library].user = <<e>> /\ t = StyleOf(e)
    BY DEF NamingInv, NamedFrom
  <2>3. d = e
    BY <2>1, <2>2
  <2>4. QED
    BY <2>1, <2>2, <2>3
<1>2. QED
  BY <1>1, NamingInduction, PTL
-----------------------------------------------------------------------------
(* The names of enum members.                                              *)

\* A set of natural numbers has a least one: the intervals up to its members
\* are finite sets, which strict inclusion orders well.
LEMMA LeastIndex ==
    ASSUME NEW T, T \subseteq Nat, T # {}
    PROVE  \E x \in T : \A y \in T : x <= y
<1> DEFINE upto == {0..x : x \in T}
           finite == FiniteSubsetsOf(Nat)
           smaller == StrictSubsetOrdering(Nat)
<1>1. upto \subseteq finite /\ upto # {}
  <2> SUFFICES ASSUME NEW x \in T PROVE 0..x \in finite
    OBVIOUS
  <2>1. x \in Int /\ 0..x \subseteq Nat /\ IsFiniteSet(0..x)
    BY FS_Interval
  <2>2. QED
    BY <2>1 DEF FiniteSubsetsOf
<1>2. \E I \in upto : \A J \in upto : <<J, I>> \notin smaller
  <2> HIDE DEF upto, finite, smaller
  <2>1. IsWellFoundedOn(smaller, finite)
    BY FS_StrictSubsetOrderingWellFounded DEF finite, smaller
  <2>2. QED
    BY <1>1, <2>1, WFMin
<1>3. PICK x \in T : \A y \in T : <<0..y, 0..x>> \notin smaller
  BY <1>2
<1>4. ASSUME NEW y \in T, y < x PROVE FALSE
  <2>1. /\ 0..y \in SUBSET Nat /\ 0..x \in SUBSET Nat
        /\ 0..y \subseteq 0..x /\ x \in 0..x /\ x \notin 0..y
    BY <1>4
  <2>2. <<0..y, 0..x>> \in smaller
    BY <2>1 DEF StrictSubsetOrdering
  <2>3. QED
    BY <1>3, <2>2
<1>5. \A y \in T : x <= y
  BY <1>4
<1>6. QED
  BY <1>5

\* A sequence with some copies of an element behind it.
Copies(x, k) == [i \in 1..k |-> x]

LEMMA Lengthened ==
    ASSUME NEW n \in Seq(Parts), n # <<>>, NEW x \in Parts, NEW k \in Nat
    PROVE  LET m == n \o Copies(x, k) IN
           /\ m \in Seq(Parts) /\ m # <<>> /\ Len(m) = Len(n) + k
           /\ IF k = 0 THEN m = n ELSE m[Len(m)] = x
<1> DEFINE s == Copies(x, k)
           m == n \o s
<1>1. Len(n) > 0 /\ Len(n) \in Nat
  OBVIOUS
<1>2. s \in Seq(Parts) /\ Len(s) = k /\ \A i \in 1..k : s[i] = x
  BY DEF Copies
<1> HIDE DEF s
<1>3. /\ m \in Seq(Parts) /\ Len(m) = Len(n) + k
      /\ \A i \in 1..Len(n) + k : m[i] = IF i <= Len(n) THEN n[i] ELSE s[i - Len(n)]
  BY <1>2, ConcatProperties
<1>4. k = 0 => m = n
  BY <1>2, ConcatEmptySeq
<1>5. k # 0 => m[Len(m)] = x
  <2>1. k # 0 => /\ Len(n) + k \in 1..Len(n) + k /\ ~(Len(n) + k <= Len(n))
                 /\ Len(n) + k - Len(n) = k /\ k \in 1..k
    BY <1>1
  <2>2. QED
    BY <1>2, <1>3, <2>1
<1>6. m # <<>>
  BY <1>1, <1>3
<1>7. QED
  BY <1>3, <1>4, <1>5, <1>6 DEF s

LEMMA LengthenedParts ==
    ASSUME NEW n \in Seq(Parts), NEW x \in Parts, NEW k \in Nat
    PROVE  \A i \in 1..Len(n) + k :
             (n \o Copies(x, k))[i] = IF i <= Len(n) THEN n[i] ELSE x
<1> DEFINE s == Copies(x, k)
<1>1. s \in Seq(Parts) /\ Len(s) = k /\ \A i \in 1..k : s[i] = x
  BY DEF Copies
<1> HIDE DEF s
<1>2. \A i \in 1..Len(n) + k : (n \o s)[i] = IF i <= Len(n) THEN n[i] ELSE s[i - Len(n)]
  BY <1>1, ConcatProperties
<1>3. \A i \in 1..Len(n) + k : ~(i <= Len(n)) => i - Len(n) \in 1..k
  OBVIOUS
<1>4. QED
  BY <1>1, <1>2, <1>3 DEF s

\* A sequence with an element before it.
LEMMA Preceded ==
    ASSUME NEW S, NEW n \in Seq(S), NEW x \in S
    PROVE  LET m == <<x>> \o n IN m \in Seq(S) /\ m # <<>> /\ m[1] = x
<1>1. <<x>> \in Seq(S) /\ Len(<<x>>) = 1 /\ <<x>>[1] = x
  OBVIOUS
<1>2. Len(n) \in Nat /\ 1 \in 1..1 + Len(n)
  OBVIOUS
<1> DEFINE m == <<x>> \o n
<1>3. m \in Seq(S) /\ Len(m) = 1 + Len(n) /\ m[1] = x
  BY <1>1, <1>2, ConcatProperties
<1>4. QED
  BY <1>2, <1>3

\* A name to begin with is a name, and reserved or of underscores only if the
\* choice's is.
LEMMA ConvertedName ==
    ASSUME NEW n \in Seq(Parts), n # <<>>
    PROVE  /\ ConvertChoiceName(n) \in Seq(Parts) /\ ConvertChoiceName(n) # <<>>
           /\ Reserved(ConvertChoiceName(n)) => Reserved(n)
           /\ Underscored(ConvertChoiceName(n)) => Underscored(n)
<1> DEFINE m == <<"A">> \o n
<1>1. "A" \in Parts
  BY FieldsAssumption
<1>2. m \in Seq(Parts) /\ m # <<>> /\ m[1] = "A"
  BY <1>1, Preceded
<1> HIDE DEF m
<1>3. ~Reserved(m) /\ ~Underscored(m)
  BY <1>2 DEF Reserved, Underscored
<1>4. QED
  BY <1>2, <1>3 DEF ConvertChoiceName, m

\* The parts that are not empty, among them the numerals.
Written == Parts \ {""}

\* Suffixes make a name longer, and not reserved if there are any; it begins with
\* underscores only if the name did, or was one.
LEMMA SuffixedName ==
    ASSUME NEW n \in Seq(Parts), n # <<>>, NEW count,
           Numeral(count) \in Written, NEW k \in Nat
    PROVE  LET m == Suffixed(n, count, k) IN
           /\ m \in Seq(Parts) /\ m # <<>> /\ Len(m) = Len(n) + k
           /\ Reserved(m) => Reserved(n)
           /\ Introspective(m) => Underscored(n)
<1> DEFINE m == Suffixed(n, count, k)
           x == Numeral(count)
<1>0. m = n \o Copies(x, k) /\ x \in Written
  BY DEF Suffixed, Copies
<1> HIDE DEF m, x
<1>1. /\ m \in Seq(Parts) /\ m # <<>> /\ Len(m) = Len(n) + k
      /\ IF k = 0 THEN m = n ELSE m[Len(m)] = x
  BY <1>0, Lengthened DEF Written
<1>2. Reserved(m) => Reserved(n)
  BY <1>0, <1>1 DEF Reserved, Written
<1>3. ASSUME Introspective(m) PROVE Underscored(n)
  <2>1. Len(m) > 2
    BY <1>3 DEF Introspective
  <2>2. Underscored(m)
    BY <1>3 DEF Introspective
  <2>3. Len(n) \in Nat /\ Len(n) # 0 /\ Len(m) = Len(n) + k
    BY <1>1
  <2>4. /\ 1 \in 1..Len(n) + k /\ 2 \in 1..Len(n) + k /\ 1 <= Len(n)
        /\ 2 <= Len(n) => Len(n) > 1
    BY ONLY <2>1, <2>3, k \in Nat
  <2>5. x \in Parts /\ x # ""
    BY <1>0, Zenon DEF Written
  <2>6. \A i \in 1..Len(n) + k : m[i] = IF i <= Len(n) THEN n[i] ELSE x
    BY <1>0, <2>5, LengthenedParts
  <2>7. m[1] = n[1] /\ m[2] = IF 2 <= Len(n) THEN n[2] ELSE x
    BY ONLY <2>4, <2>6
  <2>8. m[1] = "" /\ m[2] = ""
    BY <2>2, Zenon DEF Underscored
  <2>9. 2 <= Len(n) /\ n[2] = ""
    BY <2>5, <2>7, <2>8, Zenon
  <2>10. n[1] = ""
    BY <2>7, <2>8, Zenon
  <2>11. QED
    BY <2>4, <2>9, <2>10, Zenon DEF Underscored
<1>4. QED
  BY <1>1, <1>2, <1>3 DEF m

\* Of one more suffixed names than there are names, one is new; so the loop of
\* get_choices ends, with a new name.
LEMMA DistinguishedIsNew ==
    ASSUME NEW n \in Seq(Parts), n # <<>>, NEW names, IsFiniteSet(names),
           NEW count \in Nat, Cardinality(names) <= count,
           Numeral(count) \in Written
    PROVE  LET m == Distinguished(n, names, count) IN
           /\ m \notin names /\ m \in Seq(Parts) /\ m # <<>>
           /\ Reserved(m) => Reserved(n)
           /\ Introspective(m) => Underscored(n)
<1> DEFINE free == {k \in 0..count : Suffixed(n, count, k) \notin names}
           least == CHOOSE k \in free : \A j \in free : k <= j
<1>1. ASSUME NEW j \in 0..count, NEW k \in 0..count,
             Suffixed(n, count, j) = Suffixed(n, count, k)
      PROVE  j = k
  <2>1. j \in Nat /\ k \in Nat /\ Len(n) \in Nat
    OBVIOUS
  <2>2. Len(Suffixed(n, count, j)) = Len(n) + j
    BY <2>1, SuffixedName
  <2>3. Len(Suffixed(n, count, k)) = Len(n) + k
    BY <2>1, SuffixedName
  <2>4. QED
    BY <1>1, <2>1, <2>2, <2>3
<1>2. free # {}
  <2> SUFFICES ASSUME free = {} PROVE FALSE
    OBVIOUS
  <2> DEFINE S == 0..count
             F == [k \in S |-> Suffixed(n, count, k)]
  <2>1. F \in [S -> names]
    OBVIOUS
  <2>2. \A j, k \in S : F[j] = F[k] => j = k
    BY <1>1
  <2>3. IsFiniteSet(S) /\ Cardinality(S) = count + 1
    <3>1. count \in Int /\ ~(0 > count) /\ count - 0 + 1 = count + 1
      OBVIOUS
    <3>2. QED
      BY <3>1, FS_Interval
  <2>4. Cardinality(names) \in Nat
    BY FS_CardinalityType
  <2>5. Cardinality(names) < Cardinality(S)
    BY <2>3, <2>4
  <2> HIDE DEF F, S
  <2>6. \E j, k \in S : j # k /\ F[j] = F[k]
    BY <2>1, <2>3, <2>5, FS_PigeonHole
  <2>7. QED
    BY <2>2, <2>6
<1>3. least \in free
  <2>1. free \subseteq Nat
    OBVIOUS
  <2> HIDE DEF free
  <2>2. \E k \in free : \A j \in free : k <= j
    BY <1>2, <2>1, LeastIndex
  <2>3. QED
    BY <2>2
<1>4. Distinguished(n, names, count) = Suffixed(n, count, least)
  BY DEF Distinguished
<1>5. least \in Nat /\ Suffixed(n, count, least) \notin names
  BY <1>3
<1> HIDE DEF least, free
<1>6. QED
  BY <1>4, <1>5, SuffixedName

\* The name of a choice, by the names of the choices before it.
NameAfter(choices, g, i) ==
    Distinguished(ConvertChoiceName(choices[i].const),
                  {g[j] : j \in Earlier(choices, i)},
                  Cardinality(Earlier(choices, i)))

IsNaming(choices, g, k) == g = [i \in 1..k |-> NameAfter(choices, g, i)]

LEMMA NameAfterTheSame ==
    ASSUME NEW choices, NEW g, NEW h, NEW i, \A j \in 1..i - 1 : g[j] = h[j]
    PROVE  NameAfter(choices, g, i) = NameAfter(choices, h, i)
<1>1. Earlier(choices, i) \subseteq 1..i - 1
  BY DEF Earlier
<1>2. {g[j] : j \in Earlier(choices, i)} = {h[j] : j \in Earlier(choices, i)}
  BY <1>1
<1>3. QED
  BY <1>2 DEF NameAfter

\* The choices have names: if some first ones had none, the fewest of them
\* would get theirs from the names of the others.
LEMMA NamesExist ==
    ASSUME NEW choices, NEW N \in Nat
    PROVE  \E g : IsNaming(choices, g, N)
<1> DEFINE Named(k) == \E g : IsNaming(choices, g, k)
           T == {k \in 0..N : ~Named(k)}
<1>1. Named(0)
  <2> DEFINE g == [i \in 1..0 |-> 0]
  <2>1. \A i \in 1..0 : FALSE
    OBVIOUS
  <2>2. IsNaming(choices, g, 0)
    BY <2>1 DEF IsNaming
  <2>3. QED
    BY <2>2
<1>2. ASSUME NEW k \in Nat, Named(k) PROVE Named(k + 1)
  <2>1. PICK g : IsNaming(choices, g, k)
    BY <1>2
  <2> DEFINE h == [i \in 1..k + 1 |-> IF i <= k THEN g[i] ELSE NameAfter(choices, g, i)]
  <2>2. \A i \in 1..k : h[i] = g[i]
    OBVIOUS
  <2>3. ASSUME NEW i \in 1..k + 1 PROVE h[i] = NameAfter(choices, h, i)
    <3>1. \A j \in 1..i - 1 : g[j] = h[j]
      BY <2>2
    <3> HIDE DEF h
    <3>2. NameAfter(choices, h, i) = NameAfter(choices, g, i)
      BY <3>1, NameAfterTheSame
    <3>3. CASE i <= k
      BY <2>1, <2>2, <3>2, <3>3 DEF IsNaming
    <3>4. CASE ~(i <= k)
      BY <3>2, <3>4 DEF h
    <3>5. QED
      BY <3>3, <3>4
  <2>4. h = [i \in 1..k + 1 |-> h[i]]
    OBVIOUS
  <2> HIDE DEF h
  <2>5. IsNaming(choices, h, k + 1)
    BY <2>3, <2>4 DEF IsNaming
  <2>6. QED
    BY <2>5
<1> HIDE DEF Named
<1>3. T = {}
  <2> SUFFICES ASSUME T # {} PROVE FALSE
    OBVIOUS
  <2>1. T \subseteq Nat
    OBVIOUS
  <2>2. PICK x \in T : \A y \in T : x <= y
    <3> HIDE DEF T
    <3>1. QED
      BY <2>1, LeastIndex
  <2>3. x \in Nat /\ x # 0 /\ x - 1 \in Nat /\ x - 1 \in 0..N /\ ~(x <= x - 1)
    BY <1>1
  <2>4. Named(x - 1)
    BY <2>2, <2>3
  <2>5. Named((x - 1) + 1) /\ (x - 1) + 1 = x
    BY <1>2, <2>3, <2>4
  <2>6. QED
    BY <2>5
<1>4. QED
  BY <1>3 DEF Named

LEMMA NamesUnfold ==
    ASSUME NEW S, NEW choices \in Seq(S)
    PROVE  Names(choices) = [i \in 1..Len(choices) |-> NameAfter(choices, Names(choices), i)]
<1>1. Len(choices) \in Nat /\ DOMAIN choices = 1..Len(choices)
  OBVIOUS
<1>2. Names(choices) = CHOOSE g : IsNaming(choices, g, Len(choices))
  BY <1>1 DEF Names, IsNaming, NameAfter
<1>3. \E g : IsNaming(choices, g, Len(choices))
  BY <1>1, NamesExist
<1>4. IsNaming(choices, Names(choices), Len(choices))
  BY <1>2, <1>3
<1>5. QED
  BY <1>4 DEF IsNaming

\* Choices that can be named.
Texted == Seq(Parts) \ {Null, Refused}
Named == Seq(Parts) \ {<<>>}

Nameable(choices) ==
    /\ choices \in Seq([group : Nat, text : Texted, const : Named])
    /\ \A n \in 0..Len(choices) : Numeral(n) \in Written

\* The choices before another one, in its group, and their names.
LEMMA EarlierAreFew ==
    ASSUME NEW choices, NEW N \in Nat, NEW i \in 1..N, NEW g
    PROVE  LET E == Earlier(choices, i)
               names == {g[j] : j \in E}
           IN  /\ IsFiniteSet(names) /\ Cardinality(E) \in 0..N
               /\ Cardinality(names) <= Cardinality(E)
<1> DEFINE E == Earlier(choices, i)
           names == {g[j] : j \in E}
           f == [j \in E |-> g[j]]
<1>1. IsFiniteSet(1..i - 1) /\ Cardinality(1..i - 1) <= N
  <2>1. i - 1 \in Int /\ 1 \in Int /\ i - 1 <= N /\ N >= 0
        /\ (~(1 > i - 1) => (i - 1) - 1 + 1 = i - 1)
    OBVIOUS
  <2>2. IsFiniteSet(1..i - 1)
        /\ Cardinality(1..i - 1) = IF 1 > i - 1 THEN 0 ELSE (i - 1) - 1 + 1
    BY <2>1, FS_Interval
  <2>3. QED
    BY <2>1, <2>2
<1>2. E \subseteq 1..i - 1
  BY DEF Earlier
<1>3. IsFiniteSet(E) /\ Cardinality(E) <= Cardinality(1..i - 1)
  BY <1>1, <1>2, FS_Subset
<1>4. Cardinality(E) \in Nat /\ Cardinality(1..i - 1) \in Nat
  BY <1>1, <1>3, FS_CardinalityType
<1>5. f \in Surjection(E, names)
  BY DEF Surjection
<1> HIDE DEF E, names, f
<1>6. IsFiniteSet(names) /\ Cardinality(names) <= Cardinality(E)
  BY <1>3, <1>5, FS_Surjection
<1>7. Cardinality(E) \in 0..N
  BY <1>1, <1>3, <1>4
<1>8. QED
  BY <1>6, <1>7 DEF E, names

\* A choice that can be named has a name, unlike those before it in its group,
\* and reserved or of underscores only if the text to begin with is.
LEMMA NameOfChoice ==
    ASSUME NEW choices, Nameable(choices), NEW i \in DOMAIN choices
    PROVE  /\ Names(choices)[i] # Null
           /\ Reserved(Names(choices)[i]) => Reserved(choices[i].const)
           /\ Introspective(Names(choices)[i]) => Underscored(choices[i].const)
           /\ \A j \in Earlier(choices, i) : Names(choices)[j] # Names(choices)[i]
<1> DEFINE g == Names(choices)
           E == Earlier(choices, i)
           n == ConvertChoiceName(choices[i].const)
           names == {g[j] : j \in E}
           count == Cardinality(E)
<1>1. Len(choices) \in Nat /\ i \in 1..Len(choices) /\ choices[i].const \in Named
  <2> DEFINE Choices == [group : Nat, text : Texted, const : Named]
  <2>1. choices \in Seq(Choices)
    BY DEF Nameable
  <2>2. choices[i] \in Choices => choices[i].const \in Named
    OBVIOUS
  <2> HIDE DEF Choices
  <2>3. Len(choices) \in Nat /\ i \in 1..Len(choices) /\ choices[i] \in Choices
    BY <2>1
  <2>4. QED
    BY <2>2, <2>3
<1>2. choices[i].const \in Seq(Parts) /\ choices[i].const # <<>>
  BY <1>1, Zenon DEF Named
<1>3. /\ n \in Seq(Parts) /\ n # <<>> /\ (Reserved(n) => Reserved(choices[i].const))
      /\ Underscored(n) => Underscored(choices[i].const)
  BY <1>2, ConvertedName
<1>4. IsFiniteSet(names) /\ count \in 0..Len(choices) /\ Cardinality(names) <= count
  BY <1>1, EarlierAreFew
<1>5. count \in Nat /\ Numeral(count) \in Written
  BY <1>4 DEF Nameable
<1>6. g[i] = Distinguished(n, names, count)
  <2>1. g[i] = NameAfter(choices, g, i)
    <3>1. g = [j \in 1..Len(choices) |-> NameAfter(choices, g, j)]
      BY NamesUnfold DEF Nameable
    <3> HIDE DEF g
    <3>2. QED
      BY <1>1, <3>1
  <2>2. QED
    BY <2>1 DEF NameAfter
<1> HIDE DEF g, n, names, count
<1>7. /\ g[i] \notin names /\ g[i] # <<>> /\ (Reserved(g[i]) => Reserved(n))
      /\ Introspective(g[i]) => Underscored(n)
  BY <1>3, <1>4, <1>5, <1>6, DistinguishedIsNew
<1>8. QED
  BY <1>3, <1>7 DEF g, names, Null

\* The members are the choices, named, but for those Python drops.
LEMMA MembersAre ==
    ASSUME NEW choices
    PROVE  /\ DOMAIN Members(choices) = {i \in DOMAIN choices : ~Dunder(Names(choices)[i])}
           /\ \A i \in DOMAIN Members(choices) :
                /\ Members(choices)[i][1] = Names(choices)[i]
                /\ Members(choices)[i][2] = choices[i].text
  BY DEF Members

\* An enum fails for a reserved name, or for two names in different groups.
LEMMA EnumFailsFor ==
    ASSUME NEW choices, Nameable(choices), ~MakesEnum(Members(choices))
    PROVE  \/ \E i \in DOMAIN choices : Reserved(choices[i].const)
           \/ \E i, j \in DOMAIN choices :
                /\ choices[i].group # choices[j].group
                /\ Names(choices)[i] = Names(choices)[j]
<1> DEFINE g == Names(choices)
<1>1. ASSUME NEW i \in DOMAIN choices, NEW j \in DOMAIN choices, j < i,
             choices[j].group = choices[i].group
      PROVE  g[j] # g[i]
  <2>1. DOMAIN choices = 1..Len(choices) /\ Len(choices) \in Nat
    BY DEF Nameable
  <2>2. j \in Earlier(choices, i)
    BY <1>1, <2>1 DEF Earlier
  <2>3. QED
    BY <2>2, NameOfChoice
<1>2. DOMAIN choices \subseteq Nat
  BY DEF Nameable
<1>3. ASSUME NEW i \in DOMAIN choices, NEW j \in DOMAIN choices, i # j,
             choices[i].group = choices[j].group
      PROVE  g[i] # g[j]
  <2> HIDE DEF g
  <2>1. i < j \/ j < i
    BY <1>2, <1>3
  <2>2. QED
    BY <1>1, <1>3, <2>1
<1>4. \/ \E i, j \in DOMAIN choices : g[i] = g[j] /\ i # j
      \/ \E i \in DOMAIN choices : Reserved(g[i])
  <2> DEFINE m == Members(choices)
  <2>1. DOMAIN m \subseteq DOMAIN choices /\ \A i \in DOMAIN m : m[i][1] = g[i]
    BY MembersAre
  <2> HIDE DEF m, g
  <2>2. \/ \E i, j \in DOMAIN m : m[i][1] = m[j][1] /\ i # j
        \/ \E i \in DOMAIN m : Reserved(m[i][1])
    BY DEF MakesEnum, m
  <2>3. QED
    BY <2>1, <2>2
<1>5. CASE \E i, j \in DOMAIN choices : g[i] = g[j] /\ i # j
  <2> HIDE DEF g
  <2>1. \E i, j \in DOMAIN choices : choices[i].group # choices[j].group /\ g[i] = g[j]
    BY <1>3, <1>5
  <2>2. QED
    BY <2>1 DEF g
<1>6. CASE \E i \in DOMAIN choices : Reserved(g[i])
  BY <1>6, NameOfChoice
<1>7. QED
  BY <1>4, <1>5, <1>6

\* The choices as one list can be named, and in one group are named the same.
LEMMA UngroupedAre ==
    ASSUME NEW choices, Nameable(choices)
    PROVE  /\ Nameable(Ungrouped(choices)) /\ DOMAIN Ungrouped(choices) = DOMAIN choices
           /\ \A i \in DOMAIN choices :
                /\ Ungrouped(choices)[i].group = 0
                /\ Ungrouped(choices)[i].text = choices[i].text
                /\ Ungrouped(choices)[i].const = choices[i].const
<1> DEFINE Choices == [group : Nat, text : Texted, const : Named]
           alone == Ungrouped(choices)
<1>1. choices \in Seq(Choices)
  BY DEF Nameable
<1>2. ASSUME NEW c \in Choices
      PROVE  LET d == [c EXCEPT !.group = 0] IN
             d \in Choices /\ d.group = 0 /\ d.text = c.text /\ d.const = c.const
  OBVIOUS
<1>3. ASSUME NEW i \in DOMAIN choices
      PROVE  /\ alone[i] \in Choices /\ alone[i].group = 0
             /\ alone[i].text = choices[i].text /\ alone[i].const = choices[i].const
  <2>1. alone[i] = [choices[i] EXCEPT !.group = 0]
    BY DEF Ungrouped
  <2>2. choices[i] \in Choices
    <3> HIDE DEF Choices
    <3>1. QED
      BY <1>1
  <2>3. QED
    BY <1>2, <2>1, <2>2
<1>4. DOMAIN alone = DOMAIN choices /\ DOMAIN choices = 1..Len(choices) /\ Len(choices) \in Nat
      /\ alone = [i \in DOMAIN choices |-> alone[i]]
  <2> HIDE DEF Choices
  <2>1. QED
    BY <1>1 DEF Ungrouped
<1>5. alone \in Seq(Choices) /\ Len(alone) = Len(choices)
  <2> HIDE DEF Choices, alone
  <2>1. QED
    BY <1>3, <1>4
<1>6. Nameable(alone)
  <2> HIDE DEF alone
  <2>1. QED
    BY <1>5 DEF Nameable
<1>7. QED
  BY <1>3, <1>4, <1>6

\* What begins with __ as a name is of underscores as a choice, what Python drops
\* too.
LEMMA UnderscoredName ==
    ASSUME NEW choices, Nameable(choices), NEW i \in DOMAIN choices
    PROVE  Introspective(Names(choices)[i]) \/ Dunder(Names(choices)[i]) =>
             Underscored(choices[i].const)
<1>1. ASSUME NEW n, Dunder(n) PROVE Introspective(n)
  <2>1. Len(n) > 4 /\ Underscored(n)
    BY <1>1, Zenon DEF Dunder
  <2>2. Len(n) > 2
    BY <2>1
  <2>3. QED
    BY <2>1, <2>2, Zenon DEF Introspective
<1>2. QED
  BY <1>1, NameOfChoice, Zenon

LEMMA SomeChoice ==
    ASSUME NEW choices, Nameable(choices), choices # <<>>
    PROVE  DOMAIN choices # {}
<1> DEFINE Choices == [group : Nat, text : Texted, const : Named]
<1>1. choices \in Seq(Choices)
  BY DEF Nameable
<1> HIDE DEF Choices
<1>2. DOMAIN choices = {} <=> choices = <<>>
  BY <1>1
<1>3. QED
  BY <1>2

\* A schema with the enum is refused for a choice of underscores that is a
\* member, or for choices that all are none.
LEMMA SchemaFailsFor ==
    ASSUME NEW choices, Nameable(choices), choices # <<>>, ~SchemaTakes(Members(choices))
    PROVE  \E i \in DOMAIN choices :
             /\ Underscored(choices[i].const)
             /\ \/ ~Dunder(Names(choices)[i])
                \/ \A j \in DOMAIN choices : Dunder(Names(choices)[j])
<1>1. DOMAIN choices # {}
  BY SomeChoice
<1>2. CASE DOMAIN Members(choices) = {}
  BY <1>1, <1>2, MembersAre, UnderscoredName
<1>3. CASE \E i \in DOMAIN Members(choices) : Introspective(Members(choices)[i][1])
  BY <1>3, MembersAre, UnderscoredName
<1>4. QED
  BY <1>2, <1>3 DEF SchemaTakes

LEMMA OneListFailsFor ==
    ASSUME NEW choices, Nameable(choices), choices # <<>>,
           \/ ~MakesEnum(Members(Ungrouped(choices)))
           \/ ~SchemaTakes(Members(Ungrouped(choices)))
    PROVE  \E i \in DOMAIN choices :
             Reserved(choices[i].const) \/ Underscored(choices[i].const)
<1> DEFINE alone == Ungrouped(choices)
<1>1. /\ Nameable(alone) /\ DOMAIN alone = DOMAIN choices
      /\ \A i \in DOMAIN choices : /\ alone[i].group = 0
                                  /\ alone[i].const = choices[i].const
  BY UngroupedAre
<1> HIDE DEF alone
<1>2. alone # <<>>
  <2>1. DOMAIN choices # {}
    BY SomeChoice
  <2>2. QED
    BY <1>1, <2>1
<1>3. CASE ~MakesEnum(Members(alone))
  BY <1>1, <1>3, EnumFailsFor
<1>4. CASE ~SchemaTakes(Members(alone))
  BY <1>1, <1>2, <1>4, SchemaFailsFor
<1>5. QED
  BY <1>3, <1>4 DEF alone

\* Members with names of their own: the value of the name of a value is it.
LEMMA NameStandsForValue ==
    ASSUME NEW members, MakesEnum(members), NEW i \in DOMAIN members
    PROVE  ValueOf(members, NameOf(members, members[i][2])) = members[i][2]
<1> DEFINE v == members[i][2]
           k == CHOOSE j \in DOMAIN members : members[j][2] = v
           n == members[k][1]
           named == {j \in DOMAIN members : members[j][1] = n}
           j == CHOOSE x \in named : TRUE
<1>1. k \in DOMAIN members /\ members[k][2] = v
  OBVIOUS
<1>2. k \in named
  BY <1>1
<1>3. j \in named
  BY <1>2
<1>4. j = k
  BY <1>1, <1>3 DEF MakesEnum
<1>5. NameOf(members, v) = n
  BY DEF NameOf
<1>6. ValueOf(members, n) = members[j][2]
  BY <1>2 DEF ValueOf
<1>7. QED
  BY <1>1, <1>4, <1>5, <1>6

LEMMA OneGroupNames ==
    ASSUME NEW choices, Nameable(choices), OneGroup(choices)
    PROVE  Members(Ungrouped(choices)) = Members(choices)
<1> DEFINE alone == Ungrouped(choices)
           N == Len(choices)
<1>1. /\ N \in Nat /\ DOMAIN choices = 1..N
      /\ DOMAIN alone = DOMAIN choices /\ Len(alone) = N
  <2>1. Nameable(alone) /\ DOMAIN alone = DOMAIN choices
    BY UngroupedAre
  <2> HIDE DEF alone
  <2>2. N \in Nat /\ DOMAIN choices = 1..N
    BY DEF Nameable
  <2>3. Len(alone) \in Nat /\ DOMAIN alone = 1..Len(alone)
    BY <2>1 DEF Nameable
  <2>4. Len(alone) = N
    BY <2>1, <2>2, <2>3
  <2>5. QED
    BY <2>1, <2>2, <2>4
<1>2. ASSUME NEW g, NEW i \in 1..N PROVE NameAfter(alone, g, i) = NameAfter(choices, g, i)
  <2>1. alone[i].const = choices[i].const
    BY <1>1, UngroupedAre
  <2>2. ASSUME NEW j \in 1..i - 1
        PROVE  alone[j].group = alone[i].group /\ choices[j].group = choices[i].group
    <3>1. j \in DOMAIN choices /\ i \in DOMAIN choices
      BY <1>1
    <3>2. QED
      BY <3>1, UngroupedAre DEF OneGroup
  <2> HIDE DEF alone
  <2>3. Earlier(alone, i) = Earlier(choices, i)
    BY <2>2 DEF Earlier
  <2>4. QED
    BY <2>1, <2>3 DEF NameAfter
<1>3. ASSUME NEW g PROVE IsNaming(alone, g, N) <=> IsNaming(choices, g, N)
  <2> HIDE DEF alone, N
  <2>1. [i \in 1..N |-> NameAfter(alone, g, i)] = [i \in 1..N |-> NameAfter(choices, g, i)]
    BY <1>2
  <2>2. QED
    BY <2>1 DEF IsNaming
<1>4. Names(alone) = CHOOSE g : IsNaming(alone, g, N)
  <2> HIDE DEF alone, N
  <2>1. QED
    BY <1>1 DEF Names, IsNaming, NameAfter
<1>5. Names(choices) = CHOOSE g : IsNaming(choices, g, N)
  BY <1>1 DEF Names, IsNaming, NameAfter
<1>6. Names(alone) = Names(choices)
  <2> HIDE DEF alone, N
  <2>1. (CHOOSE g : IsNaming(alone, g, N)) = CHOOSE g : IsNaming(choices, g, N)
    BY <1>3
  <2>2. QED
    BY <1>4, <1>5, <2>1
<1>7. \A i \in DOMAIN choices : alone[i].text = choices[i].text
  BY UngroupedAre
<1> HIDE DEF alone
<1>8. Members(alone) = Members(choices)
  BY <1>1, <1>6, <1>7 DEF Members
<1>9. QED
  BY <1>8 DEF alone
-----------------------------------------------------------------------------
(* A field's value, shown and sent back.                                   *)

\* A field is of a kind, and its choices can be named.
LEMMA FieldsAre ==
    ASSUME NEW f \in Fields
    PROVE  /\ f.kind \in DOMAIN OutputScalar /\ f.blank \in BOOLEAN /\ f.null \in BOOLEAN
           /\ Nameable(f.choices)
           /\ f.choices # <<>> => f.kind # "array"
<1>1. f \in Field /\ (f.choices # <<>> => f.kind # "array")
  BY FieldsAssumption
<1>2. \A n \in 0..Len(f.choices) : Numeral(n) \in Written
  BY FieldsAssumption, Zenon DEF Written
<1>3. Choice = [group : Nat, text : Texted, const : Named]
  BY Zenon DEF Choice, Texted, Named
<1> DEFINE Kinds == DOMAIN OutputScalar
<1>4. Field = [kind : Kinds, choices : Seq(Choice), blank : BOOLEAN, null : BOOLEAN]
  BY Zenon DEF Field
<1> HIDE DEF Kinds
<1>5. f.kind \in Kinds /\ f.choices \in Seq(Choice) /\ f.blank \in BOOLEAN /\ f.null \in BOOLEAN
  BY <1>1, <1>4
<1>6. QED
  BY <1>1, <1>2, <1>3, <1>5, Zenon DEF Nameable, Kinds

\* The marks are not each other.
LEMMA MarksAre ==
    /\ Null # Blank /\ Null # Refused /\ Null # Other /\ Blank # Refused /\ Blank # Other
    /\ Refused # Other
    /\ \A v \in {<<"small">>, <<"big">>, <<"value">>} :
         v # Null /\ v # Blank /\ v # Refused /\ v # Other
  BY DEF Null, Blank, Refused, Other

\* A legal value is a text that can be chosen, null or empty where the field
\* allows it, or some other value of a field without choices.
LEMMA LegalValuesAre ==
    ASSUME NEW f \in Fields, NEW v \in Legal(f)
    PROVE  /\ v # Refused /\ (v = Null => f.null) /\ (v = Blank => f.blank)
           /\ f.choices # <<>> /\ v # Null /\ v # Blank => v \in TextsOf(f.choices)
           /\ TextsOf(f.choices) = {} <=> f.choices = <<>>
           /\ Null \notin TextsOf(f.choices) /\ Refused \notin TextsOf(f.choices)
<1> DEFINE texts == TextsOf(f.choices)
<1>1. texts \subseteq Texted /\ (texts = {} <=> f.choices = <<>>)
  <2> DEFINE c == f.choices
             Choices == [group : Nat, text : Texted, const : Named]
  <2>1. c \in Seq(Choices)
    BY FieldsAre DEF Nameable
  <2>2. \A x \in Choices : x.text \in Texted
    OBVIOUS
  <2> HIDE DEF c, Choices
  <2>3. \A i \in DOMAIN c : c[i].text \in Texted
    BY <2>1, <2>2
  <2>4. DOMAIN c = {} <=> c = <<>>
    BY <2>1
  <2>5. TextsOf(c) \subseteq Texted /\ (TextsOf(c) = {} <=> c = <<>>)
    BY <2>3, <2>4 DEF TextsOf
  <2>6. QED
    BY <2>5 DEF c
<1>2. Null \notin Texted /\ Refused \notin Texted
  BY Zenon DEF Texted
<1> HIDE DEF texts
<1>3. \/ f.choices # <<>> /\ v \in texts \ {Blank}
      \/ f.choices = <<>> /\ v \in {<<"small">>, <<"big">>, <<"value">>}
      \/ f.null /\ v = Null
      \/ f.blank /\ v = Blank
  BY DEF Legal, texts
<1>4. QED
  BY <1>1, <1>2, <1>3, MarksAre DEF texts

\* What an input may read a value as that was shown, in one vocabulary.
Meant(by, v) ==
    \/ /\ shown = Null /\ stored \in {Null, Blank}
       /\ \/ v = Null
          \/ v = Refused /\ IF by.way = "serializer" THEN ~field.null ELSE ~field.blank
    \/ shown # Null /\ v = stored /\ v # Null /\ (v = Blank => shown = Blank)
    \/ shown # Null /\ v = Refused /\ shown = <<"big">>
    \/ /\ shown # Null /\ v = Refused /\ by.how = "literal" /\ by.way # "serializer"
       /\ field.kind \in {"array", "int"}
    \/ v = Other /\ field.kind = "array" /\ by.way # "serializer"

\* Only numbers and lists are not written as a text is read, and no input of a
\* serializer reads them as texts.
LEMMA ScalarsAre ==
    ASSUME NEW k \in DOMAIN OutputScalar
    PROVE  /\ OutputScalar[k] = "List" => k = "array"
           /\ OutputScalar[k] = "Int" => k = "int"
           /\ SerializerScalar[k] = "String" => OutputScalar[k] # "List" /\ OutputScalar[k] # "Int"
  BY DEF OutputScalar, SerializerScalar

\* A value of an enum is shown by its name, which stands for it.
LEMMA EnumShows ==
    ASSUME field \in Fields, stored \in Legal(field), NEW name, name = ShownAs(stored),
           NEW required, output = EnumType(Members(field.choices), required),
           field.choices # <<>>, MakesEnum(output.members), ~Misses(stored)
    PROVE  /\ name = Null <=> stored \in {Null, Blank}
           /\ name # Null => ValueOf(output.members, name) = stored
<1> DEFINE c == field.choices
           members == Members(c)
<1>1. output.is = "enum" /\ output.members = members
  BY DEF EnumType
<1>2. CASE stored \in {Null, Blank}
  BY <1>1, <1>2 DEF ShownAs
<1>3. CASE stored \notin {Null, Blank}
  <2>1. stored \in ValuesOf(members)
    BY <1>1, <1>3 DEF Misses
  <2>2. name = NameOf(members, stored)
    BY <1>1, <1>3, <2>1 DEF ShownAs
  <2>3. PICK i \in DOMAIN members : stored = members[i][2]
    BY <2>1 DEF ValuesOf
  <2>4. i \in DOMAIN members /\ stored = members[i][2]
    BY <2>3
  <2>5. MakesEnum(members)
    BY <1>1
  <2>6. ValueOf(members, name) = stored
    BY <2>2, <2>4, <2>5, NameStandsForValue
  <2>7. name # Null
    <3> DEFINE k == CHOOSE j \in DOMAIN members : members[j][2] = stored
    <3>1. k \in DOMAIN members
      BY <2>4
    <3>2. k \in DOMAIN c /\ members[k][1] = Names(c)[k]
      BY <3>1, MembersAre
    <3>3. Names(c)[k] # Null
      BY <3>2, FieldsAre, NameOfChoice
    <3>4. QED
      BY <2>2, <3>2, <3>3 DEF NameOf
  <2>8. QED
    BY <1>1, <1>3, <2>6, <2>7
<1>4. QED
  BY <1>2, <1>3

\* Sent back as it was shown, a value of an enum is read as itself.
LEMMA EnumReadsBack ==
    ASSUME field \in Fields, stored \in Legal(field), shown = ShownAs(stored),
           output = EnumType(Members(field.choices), EnumRequired(field)),
           field.choices # <<>>, MakesEnum(output.members), ~Misses(stored),
           NEW way \in Ways, NEW how \in {"variable", "literal"}, InputType(way) # NoType,
           OneVocabulary([way |-> way, how |-> how])
    PROVE  Meant([way |-> way, how |-> how], Coerced(InputType(way), how))
<1> DEFINE members == Members(field.choices)
           type == InputType(way)
           v == Coerced(type, how)
           by == [way |-> way, how |-> how]
<1>1. output.is = "enum" /\ output.members = members
  BY DEF EnumType
<1>2. /\ shown = Null <=> stored \in {Null, Blank}
      /\ shown # Null => ValueOf(members, shown) = stored
  BY <1>1, EnumShows
<1>3. Texts # {}
  BY LegalValuesAre DEF Texts
<1>4. \/ way = "serializer" /\ OneGroup(field.choices)
      \/ way = "form_input" /\ how = "variable"
  BY <1>1 DEF OneVocabulary
<1>5. ASSUME shown = Null => v = Null \/ (v = Refused /\ way = "serializer" /\ ~field.null),
             shown # Null => v = stored
      PROVE  Meant(by, v)
  BY <1>2, <1>5, MarksAre DEF Meant
<1>6. CASE way = "serializer" /\ OneGroup(field.choices)
  <2>1. Members(Ungrouped(field.choices)) = members
    BY <1>6, FieldsAre, OneGroupNames
  <2>2. type = EnumType(members, ~(field.blank \/ field.null))
    BY <1>1, <1>3, <1>6, <2>1 DEF InputType, SerializerType
  <2> HIDE DEF type
  <2>3. type.is = "enum" /\ type.members = members /\ type.required = ~(field.blank \/ field.null)
    BY <2>2 DEF EnumType
  <2>4. shown # Null => v = stored
    BY <1>2, <2>3 DEF Coerced
  <2>5. shown = Null => v = IF type.required THEN Refused ELSE Null
    BY DEF Coerced
  <2>6. QED
    BY <1>5, <1>6, <2>3, <2>4, <2>5 DEF type
<1>7. CASE way = "form_input" /\ how = "variable"
  <2>1. type = [output EXCEPT !.is = "enum_back", !.required = FALSE]
    BY <1>1, <1>7 DEF InputType, FormInputType
  <2> HIDE DEF type
  <2>2. type.is = "enum_back" /\ type.members = members /\ type.required = FALSE
    BY <2>1 DEF EnumType
  <2>3. shown # Null => v = stored
    BY <1>2, <1>7, <2>2 DEF Coerced, Back
  <2>4. shown = Null => v = Null
    BY <2>2 DEF Coerced
  <2>5. QED
    BY <1>5, <2>3, <2>4 DEF type
<1>8. QED
  BY <1>4, <1>6, <1>7

\* So is a scalar, but for what the type of the input cannot read.
LEMMA ScalarReadsBack ==
    ASSUME field \in Fields, stored \in Legal(field), shown = ShownAs(stored),
           output = Scalar(OutputScalar[field.kind], ~field.null),
           NEW way \in Ways, NEW how \in {"variable", "literal"},
           InputType(way) # NoType,
           OneVocabulary([way |-> way, how |-> how])
    PROVE  Meant([way |-> way, how |-> how], Coerced(InputType(way), how))
<1> DEFINE kind == field.kind
           wrote == OutputScalar[kind]
           type == InputType(way)
           v == Coerced(type, how)
           by == [way |-> way, how |-> how]
<1>1. output.is = "scalar" /\ output.scalar = wrote /\ output.required = ~field.null
  BY DEF Scalar
<1>2. shown = stored
  BY <1>1 DEF ShownAs
<1>3. way # "serializer" \/ Texts = {}
  BY <1>1 DEF OneVocabulary
<1>4. /\ field.blank \in BOOLEAN /\ field.null \in BOOLEAN /\ kind \in DOMAIN OutputScalar
      /\ (Texts # {} => kind # "array")
      /\ (stored = Null => field.null)
  BY FieldsAre, LegalValuesAre DEF Texts
<1>5. PICK s, required :
         /\ type = Scalar(s, required) /\ required \in BOOLEAN
         /\ required => IF way = "serializer" THEN ~field.null ELSE ~field.blank
         /\ way = "serializer" => s = SerializerScalar[kind]
  <2>1. CASE way = "serializer"
    <3>1. type = Scalar(SerializerScalar[kind], ~(field.blank \/ field.null))
      BY <1>3, <2>1 DEF InputType, SerializerType
    <3>2. QED
      BY <1>4, <2>1, <3>1
  <2>2. FormRequired \in BOOLEAN /\ (FormRequired => ~field.blank)
    BY <1>4 DEF FormRequired
  <2>3. CASE type = FormType /\ way # "serializer"
    BY <2>2, <2>3 DEF FormType
  <2>4. CASE type = output /\ ~output.required /\ way # "serializer"
    BY <1>1, <1>4, <2>4
  <2>5. \/ way = "serializer"
        \/ type = FormType /\ way # "serializer"
        \/ type = output /\ ~output.required /\ way # "serializer"
    BY <1>1 DEF Ways, InputType, FormInputType
  <2>6. QED
    BY <2>1, <2>3, <2>4, <2>5
<1> HIDE DEF type
<1>6. type.is = "scalar" /\ type.scalar = s /\ type.required = required
  BY <1>5 DEF Scalar
<1>7. CASE shown = Null
  <2>1. v = IF required THEN Refused ELSE Null
    BY <1>6, <1>7 DEF Coerced
  <2>2. QED
    BY <1>2, <1>5, <1>7, <2>1 DEF Meant, type
<1>8. CASE shown # Null
  <2>1. v = Reading(s, wrote, shown, how)
    BY <1>1, <1>6, <1>8 DEF Coerced
  <2>2. CASE s = "String" /\ wrote \in {"List", "Int"}
    <3>1. way # "serializer" /\ (wrote = "List" => kind = "array") /\ (wrote = "Int" => kind = "int")
      BY <1>4, <1>5, <2>2, ScalarsAre
    <3> HIDE DEF kind, wrote, v
    <3>2. \/ v = stored
          \/ v = Refused /\ how = "literal" /\ kind \in {"array", "int"}
          \/ v = Other /\ kind = "array"
      BY <1>2, <2>1, <2>2, <3>1 DEF Reading
    <3>3. QED
      BY <1>2, <1>8, <3>1, <3>2 DEF Meant, kind, v, type
  <2>3. CASE ~(s = "String" /\ wrote \in {"List", "Int"})
    <3> HIDE DEF wrote, v
    <3>1. v = stored \/ (v = Refused /\ shown = <<"big">>)
      BY <1>2, <2>1, <2>3 DEF Reading
    <3>2. QED
      BY <1>2, <1>8, <3>1 DEF Meant, v, type
  <2>4. QED
    BY <2>2, <2>3
<1>9. QED
  BY <1>7, <1>8

LEMMA ReadsBack ==
    ASSUME field \in Fields, stored \in Legal(field), shown = ShownAs(stored),
           TypeIsMade, outcome \notin {"none", "failed"}, ~Misses(stored),
           NEW by \in [way : Ways, how : {"variable", "literal"}],
           InputType(by.way) # NoType, OneVocabulary(by)
    PROVE  Meant(by, Coerced(InputType(by.way), by.how))
<1> DEFINE way == by.way
           how == by.how
<1>1. way \in Ways /\ how \in {"variable", "literal"} /\ by = [way |-> way, how |-> how]
  OBVIOUS
<1> HIDE DEF way, how
<1>2. InputType(way) # NoType /\ OneVocabulary([way |-> way, how |-> how])
  BY <1>1 DEF way
<1>3. Meant([way |-> way, how |-> how], Coerced(InputType(way), how))
  BY <1>1, <1>2, EnumReadsBack, ScalarReadsBack DEF TypeIsMade
<1>4. QED
  BY <1>1, <1>3 DEF way, how

\* What is refused of it, and what is saved.
LEMMA RefusedOnlyFor ==
    ASSUME field \in Fields, stored \in Legal(field),
           NEW by \in [way : Ways, how : {"variable", "literal"}], NEW v,
           Meant(by, v), ~Valid(by.way, v)
    PROVE  \/ shown = Null /\ (IF by.way = "serializer" THEN ~field.null ELSE ~field.blank)
           \/ shown = Blank /\ ~field.blank
           \/ shown = <<"big">>
           \/ by.how = "literal" /\ by.way # "serializer" /\ field.kind \in {"array", "int"}
<1> DEFINE way == by.way
<1>1. /\ FormRequired => ~field.blank
      /\ field.kind = "array" => Texts = {}
      /\ stored # Refused /\ (stored # Null /\ stored # Blank /\ Texts # {} => stored \in Texts)
  BY FieldsAre, LegalValuesAre DEF FormRequired, Texts
<1> HIDE DEF way
<1>2. CASE v = Null
  BY <1>1, <1>2, MarksAre DEF Meant, Valid, way
<1>3. CASE v = Refused
  BY <1>3, MarksAre, <1>1 DEF Meant
<1>4. CASE v = Other
  BY <1>1, <1>4, MarksAre DEF Meant, Valid, way
<1>5. CASE v \notin {Null, Refused, Other}
  <2>1. v = stored /\ (stored = Blank => shown = Blank)
    BY <1>5 DEF Meant
  <2>2. QED
    BY <1>1, <1>5, <2>1, MarksAre DEF Valid, way
<1>6. QED
  BY <1>2, <1>3, <1>4, <1>5

LEMMA SavedAsSent ==
    ASSUME NEW by \in [way : Ways, how : {"variable", "literal"}], NEW v,
           Meant(by, v), Valid(by.way, v)
    PROVE  Same(Saved(by.way, v), stored) \/ (field.kind = "array" /\ by.way # "serializer")
<1>1. v # Refused
  <2> SUFFICES ASSUME v = Refused PROVE FALSE
    OBVIOUS
  <2>1. ~Valid(by.way, v)
    BY MarksAre DEF Valid
  <2>2. QED
    BY <2>1
<1>2. CASE v \in {Null, Blank}
  <2>1. stored \in {Null, Blank}
    BY <1>1, <1>2, MarksAre DEF Meant
  <2>2. Saved(by.way, v) \in {Null, Blank}
    BY <1>2 DEF Saved
  <2>3. QED
    BY <2>1, <2>2 DEF Same
<1>3. CASE v \notin {Null, Blank}
  <2>1. Saved(by.way, v) = v
    BY <1>3 DEF Saved
  <2>2. v = stored \/ (field.kind = "array" /\ by.way # "serializer")
    BY <1>1, <1>3 DEF Meant
  <2>3. QED
    BY <2>1, <2>2 DEF Same
<1>4. QED
  BY <1>2, <1>3

\* The library's object answers from one dictionary, in every state.
LibraryAnswers ==
    \E d \in Dicts : UserSettings(Library) = <<d>> /\ \A a : Answer(Library, a) = Value(d, a)

LEMMA LibraryAnswersFromOne == SettingsInv => LibraryAnswers
  BY LibraryIsAnObject, AnswersFromOneDict DEF LibraryAnswers

LEMMA AnswersStay ==
    ASSUME SettingsInv, SettingsInv', objects'[Library].user = UserSettings(Library)
    PROVE  /\ objects'[Library].user # <<>>
           /\ \A a : Answer(Library, a)' = Answer(Library, a)
<1>1. LibraryAnswers
  BY LibraryAnswersFromOne
<1>2. LibraryAnswers'
  BY LibraryAnswersFromOne, PTL
<1>3. PICK d \in Dicts : UserSettings(Library) = <<d>> /\ \A a : Answer(Library, a) = Value(d, a)
  BY <1>1 DEF LibraryAnswers
<1>4. PICK e \in Dicts : UserSettings(Library)' = <<e>> /\ \A a : Answer(Library, a)' = Value(e, a)
  BY <1>2 DEF LibraryAnswers
<1>5. objects'[Library].user # <<>>
  BY <1>3
<1>6. UserSettings(Library)' = objects'[Library].user
  BY <1>5 DEF UserSettings
<1>7. d = e
  BY <1>3, <1>4, <1>6
<1>8. QED
  BY <1>3, <1>4, <1>5, <1>7

\* The type of an input, and what it reads and takes, are for the field, its
\* type and what was shown to say.
LEMMA InputsStay ==
    ASSUME UNCHANGED <<field, option, output, shown>>, NEW way, NEW how
    PROVE  /\ InputType(way)' = InputType(way)
           /\ \A type : Coerced(type, how)' = Coerced(type, how)
           /\ \A v : Valid(way, v)' = Valid(way, v)
<1>1. Texts' = Texts /\ FormRequired' = FormRequired
  BY DEF Texts, FormRequired
<1>2. FormType' = FormType /\ SerializerType' = SerializerType
  BY <1>1 DEF FormType, SerializerType
<1>3. FormInputType' = FormInputType
  BY <1>1, <1>2 DEF FormInputType
<1>4. InputType(way)' = InputType(way)
  BY <1>2, <1>3 DEF InputType
<1>5. ASSUME NEW type PROVE Coerced(type, how)' = Coerced(type, how)
  BY DEF Coerced
<1>6. ASSUME NEW v PROVE Valid(way, v)' = Valid(way, v)
  BY <1>1 DEF Valid
<1>7. QED
  BY <1>4, <1>5, <1>6

\* Nothing is done with the field, and the library keeps its dictionary.
LEMMA FieldRests ==
    ASSUME ConversionInv, SettingsInv, SettingsInv',
           UNCHANGED <<field, option, output, stored, shown, sent, outcome>>,
           objects[Library].user # <<>> => objects'[Library].user = objects[Library].user
    PROVE  ConversionInv'
<1>1. FailedForAReason'
  <2> SUFFICES ASSUME outcome = "failed", MakesEnum(Members(field.choices))
               PROVE  objects'[Library].user # <<>> /\ Answer(Library, "ENUM_CUSTOM_NAME")' = "bad"
    BY DEF FailedForAReason
  <2>1. objects[Library].user # <<>> /\ Answer(Library, "ENUM_CUSTOM_NAME") = "bad"
    BY DEF ConversionInv, FailedForAReason
  <2>2. objects'[Library].user = UserSettings(Library)
    BY <2>1 DEF UserSettings
  <2>3. QED
    BY <2>1, <2>2, AnswersStay
<1>2. TypeIsMade'
  BY DEF ConversionInv, TypeIsMade
<1>3. LegalValueShows'
  BY DEF ConversionInv, LegalValueShows
<1>4. ValueIsShown'
  <2>1. ShownAs(stored)' = ShownAs(stored) /\ Misses(stored)' = Misses(stored)
    BY DEF ShownAs, Misses
  <2>2. /\ InputType(sent.way)' = InputType(sent.way)
        /\ \A type : Coerced(type, sent.how)' = Coerced(type, sent.how)
        /\ \A v : Valid(sent.way, v)' = Valid(sent.way, v)
    BY InputsStay
  <2>3. QED
    BY <2>1, <2>2 DEF ConversionInv, ValueIsShown
<1>5. QED
  BY <1>1, <1>2, <1>3, <1>4 DEF ConversionInv

\* A type is defined, or its definition fails.
LEMMA DefineTypeConverts ==
    ASSUME ConversionInv, SettingsInv, SettingsInv', DefineType
    PROVE  ConversionInv'
<1> DEFINE custom == Answer(Library, "ENUM_CUSTOM_NAME")
<1>1. PICK f \in Fields, opt \in Options :
         LET asked == IF opt = "none" THEN {"ENUM_CONVERT"} ELSE {}
             type == ObjectType(f, Converts(opt))
         IN  /\ field' = f /\ option' = opt /\ stored' \in Legal(f)
             /\ IF type.is = "enum" THEN NameEnum(asked)
                ELSE Read(Library, asked) /\ UNCHANGED styles
             /\ IF type.is = "enum" /\ (custom = "bad" \/ ~MakesEnum(type.members))
                THEN outcome' = "failed" /\ UNCHANGED output
                ELSE outcome' = "defined" /\ output' = type
  BY DEF DefineType
<1> DEFINE asked == IF opt = "none" THEN {"ENUM_CONVERT"} ELSE {}
           type == ObjectType(f, Converts(opt))
           members == Members(f.choices)
<1>2. PICK attrs : Read(Library, attrs)
  BY <1>1 DEF NameEnum
<1>3. objects'[Library].user = UserSettings(Library)
  BY <1>2, LibraryIsAnObject, ReadKeepsUser
<1>4. objects'[Library].user # <<>> /\ Answer(Library, "ENUM_CUSTOM_NAME")' = custom
  BY <1>3, AnswersStay
<1>5. \/ type = Scalar(OutputScalar[f.kind], ~f.null) /\ type.is = "scalar"
      \/ /\ type = EnumType(members, EnumRequired(f)) /\ type.is = "enum"
         /\ type.members = members /\ f.choices # <<>>
  BY DEF ObjectType, Scalar, EnumType
<1> HIDE DEF type, custom, members
<1>6. \/ outcome' = "failed" /\ (custom = "bad" \/ ~MakesEnum(members))
      \/ outcome' = "defined" /\ output' = type /\ (type.is = "enum" => MakesEnum(type.members))
  BY <1>1, <1>5 DEF type
<1>7. field' = f /\ stored' \in Legal(f) /\ f \in Fields
  BY <1>1
<1>8. FailedForAReason'
  BY <1>4, <1>6, <1>7 DEF FailedForAReason, members
<1>9. TypeIsMade'
  BY <1>5, <1>6, <1>7 DEF TypeIsMade, members
<1>10. ValueIsShown' /\ LegalValueShows'
  BY <1>6, <1>7 DEF ValueIsShown, LegalValueShows
<1>11. QED
  BY <1>6, <1>7, <1>8, <1>9, <1>10 DEF ConversionInv

\* What an enum cannot show is for a choice of underscores.
LEMMA MissesFor ==
    ASSUME field \in Fields, stored \in Legal(field), TypeIsMade,
           outcome \notin {"none", "failed"}, Misses(stored)
    PROVE  \E i \in DOMAIN field.choices :
             /\ Underscored(field.choices[i].const)
             /\ \/ stored = field.choices[i].text
                \/ ~Dunder(Names(field.choices)[i])
                \/ \A j \in DOMAIN field.choices : Dunder(Names(field.choices)[j])
<1> DEFINE c == field.choices
<1>1. output = EnumType(Members(c), EnumRequired(field)) /\ c # <<>> /\ output.is = "enum"
  BY DEF TypeIsMade, Misses, Scalar
<1>2. output.members = Members(c)
  BY <1>1 DEF EnumType
<1>3. Nameable(c)
  BY FieldsAre
<1>4. CASE ~SchemaTakes(Members(c))
  BY <1>1, <1>3, <1>4, SchemaFailsFor
<1>5. CASE stored \notin ValuesOf(Members(c)) \cup {Null, Blank}
  <2>1. stored \in TextsOf(c)
    BY <1>1, <1>5, LegalValuesAre
  <2>2. PICK i \in DOMAIN c : stored = c[i].text
    BY <2>1 DEF TextsOf
  <2>3. Dunder(Names(c)[i])
    <3> SUFFICES ASSUME ~Dunder(Names(c)[i]) PROVE FALSE
      OBVIOUS
    <3>1. i \in DOMAIN Members(c) /\ Members(c)[i][2] = stored
      BY <2>2, MembersAre
    <3>2. QED
      BY <1>5, <3>1 DEF ValuesOf
  <2>4. QED
    BY <1>3, <2>2, <2>3, UnderscoredName
<1>6. QED
  BY <1>1, <1>2, <1>4, <1>5 DEF Misses

\* The value is shown, unless it is a duration or a choice is of underscores.
LEMMA ShowConverts ==
    ASSUME ConversionInv, SettingsInv, SettingsInv', Show
    PROVE  ConversionInv'
<1>1. /\ outcome = "defined" /\ shown' = ShownAs(stored)
      /\ UNCHANGED <<settings_vars, field, option, output, styles, stored, sent>>
      /\ \/ outcome' = "shown" /\ ~Misses(stored)
         \/ /\ outcome' = "error"
            /\ \/ Misses(stored)
               \/ shown' = Null /\ output.required
               \/ shown' # Null /\ field.kind = "duration" /\ output.is # "enum"
  BY DEF Show
<1>2. field \in Fields /\ stored \in Legal(field) /\ TypeIsMade
  BY <1>1 DEF ConversionInv, ValueIsShown
<1>3. ~Misses(stored) => ~(shown' = Null /\ output.required)
  <2> SUFFICES ASSUME ~Misses(stored), shown' = Null PROVE ~output.required
    OBVIOUS
  <2>1. CASE output = Scalar(OutputScalar[field.kind], ~field.null)
    <3>1. output.is = "scalar" /\ output.required = ~field.null
      BY <2>1 DEF Scalar
    <3>2. stored = Null
      BY <1>1, <3>1 DEF ShownAs
    <3>3. QED
      BY <1>2, <3>1, <3>2, LegalValuesAre
  <2>2. CASE /\ output = EnumType(Members(field.choices), EnumRequired(field))
             /\ field.choices # <<>> /\ MakesEnum(output.members)
    <3>1. output.required = EnumRequired(field)
      BY <2>2 DEF EnumType
    <3>2. shown' = Null <=> stored \in {Null, Blank}
      BY <1>1, <1>2, <2>2, EnumShows
    <3>3. field.null \/ field.blank
      BY <1>2, <3>2, LegalValuesAre
    <3>4. QED
      BY <3>1, <3>3 DEF EnumRequired
  <2>3. QED
    BY <1>1, <1>2, <2>1, <2>2 DEF TypeIsMade
<1>4. ShownAs(stored)' = ShownAs(stored) /\ Misses(stored)' = Misses(stored)
  BY <1>1 DEF ShownAs, Misses
<1>5. FailedForAReason' /\ LegalValueShows'
  <2>1. CASE outcome' = "error" /\ Misses(stored)
    BY <1>1, <1>2, <2>1, MissesFor DEF FailedForAReason, LegalValueShows
  <2>2. CASE ~(outcome' = "error" /\ Misses(stored))
    BY <1>1, <1>3, <2>2 DEF FailedForAReason, LegalValueShows
  <2>3. QED
    BY <2>1, <2>2
<1>6. TypeIsMade' /\ ValueIsShown'
  BY <1>1, <1>2, <1>4 DEF TypeIsMade, ValueIsShown
<1>7. QED
  BY <1>1, <1>2, <1>5, <1>6 DEF ConversionInv

\* The value is sent back, and the type of the input judges it.
LEMMA SendBackConverts ==
    ASSUME ConversionInv, SettingsInv, SettingsInv', SendBack
    PROVE  ConversionInv'
<1>1. PICK way \in Ways, how \in {"variable", "literal"} :
         LET type == InputType(way)  v == Coerced(type, how) IN
         /\ sent' = [way |-> way, how |-> how]
         /\ IF type = NoType THEN outcome' = "no_input" /\ UNCHANGED stored
            ELSE IF Valid(way, v) THEN outcome' = "accepted" /\ stored' = Saved(way, v)
            ELSE outcome' = "refused" /\ UNCHANGED stored
  BY DEF SendBack
<1> DEFINE type == InputType(way)
           v == Coerced(type, how)
<1>2. /\ outcome = "shown"
      /\ UNCHANGED <<settings_vars, field, option, output, styles, shown>>
  BY DEF SendBack
<1>3. /\ field \in Fields /\ stored \in Legal(field) /\ shown = ShownAs(stored)
      /\ TypeIsMade /\ ~Misses(stored)
  BY <1>2 DEF ConversionInv, ValueIsShown
<1>4. /\ InputType(way)' = type
      /\ Coerced(type, how)' = v
      /\ Valid(way, v)' = Valid(way, v)
  BY <1>2, InputsStay
<1> HIDE DEF type, v
<1>5. /\ sent' = [way |-> way, how |-> how]
      /\ \/ type = NoType /\ outcome' = "no_input" /\ UNCHANGED stored
         \/ type # NoType /\ outcome' = "accepted"
         \/ type # NoType /\ outcome' = "refused" /\ ~Valid(way, v) /\ UNCHANGED stored
  BY <1>1 DEF type, v
<1>6. FailedForAReason' /\ LegalValueShows' /\ TypeIsMade'
  BY <1>2, <1>3, <1>5 DEF FailedForAReason, LegalValueShows, TypeIsMade
<1>7. ValueIsShown'
  <2>1. outcome' \in {"no_input", "refused"} =>
          stored' \in Legal(field') /\ shown' = ShownAs(stored)' /\ ~Misses(stored)'
    BY <1>2, <1>3, <1>5 DEF ShownAs, Misses
  <2>2. sent' \in [way : Ways, how : {"variable", "literal"}]
        /\ sent'.way = way /\ sent'.how = how
    BY <1>5
  <2>3. /\ InputType(sent.way)' = type
        /\ Valid(sent.way, Coerced(InputType(sent.way), sent.how))' = Valid(way, v)
    BY <1>4, <2>2 DEF type, v
  <2>4. outcome' = "refused" => ~Valid(sent.way, Coerced(InputType(sent.way), sent.how))'
    BY <1>5, <2>3
  <2>5. outcome' = "no_input" => InputType(sent.way)' = NoType
    BY <1>5, <2>3
  <2>6. outcome' = "refused" => InputType(sent.way)' # NoType
    BY <1>5, <2>3
  <2>7. QED
    BY <1>5, <2>1, <2>2, <2>4, <2>5, <2>6 DEF ValueIsShown
<1>8. QED
  BY <1>2, <1>3, <1>5, <1>6, <1>7 DEF ConversionInv

\* What a step does with a field and its value: a definition fails for a reason,
\* a type that was made is a scalar or an enum with names of its own, and what
\* the client was shown and sent is the stored value and an input's for it.
THEOREM ConversionInduction == Spec => []ConversionInv
<1>1. Init => ConversionInv
  BY DEF Init, ConversionInv, FailedForAReason, TypeIsMade, ValueIsShown, LegalValueShows
<1>2. NamingInv /\ NamingInv' /\ ConversionInv /\ [Next]_vars => ConversionInv'
  <2> SUFFICES ASSUME SettingsInv, SettingsInv', ConversionInv, [Next]_vars
               PROVE  ConversionInv'
    BY DEF NamingInv
  <2>1. CASE [SettingsNext]_settings_vars /\ UNCHANGED field_vars
    BY <2>1, LibraryKeepsUser, FieldRests DEF field_vars
  <2>2. CASE DefineOther
    <3>1. PICK attrs : Read(Library, attrs)
      BY <2>2 DEF DefineOther, NameEnum
    <3>2. objects[Library].user # <<>> => objects'[Library].user = objects[Library].user
      BY <3>1, LibraryIsAnObject, ReadKeepsUser
    <3>3. QED
      BY <2>2, <3>2, FieldRests DEF DefineOther
  <2>3. CASE DefineType
    BY <2>3, DefineTypeConverts
  <2>4. CASE Show
    BY <2>4, ShowConverts
  <2>5. CASE SendBack
    BY <2>5, SendBackConverts
  <2>6. CASE UNCHANGED vars
    BY <2>1, <2>6 DEF vars
  <2>7. QED
    BY <2>1, <2>2, <2>3, <2>4, <2>5, <2>6 DEF Next
<1>3. QED
  BY <1>1, <1>2, NamingInduction, PTL DEF Spec

\* However alike the choices are, of any number and text, a type is refused only
\* for a naming function that does not import, for names of choices in groups,
\* or for a reserved name; an input only for that, or where it is required.
THEOREM FailuresHaveReasons == Spec => []DefinitionFailsOnlyIf
<1>1. ConversionInv => DefinitionFailsOnlyIf
  <2> SUFFICES ASSUME ConversionInv PROVE DefinitionFailsOnlyIf
    OBVIOUS
  <2> DEFINE c == field.choices
             reserved == \E i \in DOMAIN c : Reserved(c[i].const)
             underscored == \E i \in DOMAIN c : Underscored(c[i].const)
  <2>1. outcome # "none" => Nameable(c) /\ field.null \in BOOLEAN
    BY FieldsAre DEF ConversionInv
  <2>2. ASSUME outcome = "failed"
        PROVE  \/ Answer(Library, "ENUM_CUSTOM_NAME") = "bad"
               \/ reserved
               \/ \E i, j \in DOMAIN c :
                    c[i].group # c[j].group /\ Names(c)[i] = Names(c)[j]
    <3>1. CASE Answer(Library, "ENUM_CUSTOM_NAME") = "bad"
      BY <3>1
    <3>2. CASE ~MakesEnum(Members(c))
      BY <2>1, <2>2, <3>2, EnumFailsFor
    <3>3. QED
      BY <2>2, <3>1, <3>2 DEF ConversionInv, FailedForAReason
  <2>3. ASSUME outcome = "no_input"
        PROVE  \/ sent.way = "serializer" /\ (reserved \/ underscored)
               \/ sent.way = "form_input" /\ option = "false" /\ ~field.null
    <3>1. sent.way \in Ways /\ InputType(sent.way) = NoType /\ TypeIsMade
      BY <2>3 DEF ConversionInv, ValueIsShown
    <3>2. FormType # NoType
      BY DEF FormType, Scalar, NoType
    <3>3. CASE sent.way = "form"
      BY <3>1, <3>2, <3>3 DEF InputType
    <3>4. CASE sent.way = "form_input"
      <4>1. FormInputType = NoType
        BY <3>1, <3>4 DEF InputType
      <4>2. CASE output = Scalar(OutputScalar[field.kind], ~field.null)
        <5>1. output.is = "scalar" /\ output.required = ~field.null /\ output # NoType
          BY <4>2 DEF Scalar, NoType
        <5>2. option = "false" /\ output.required
          BY <3>2, <4>1, <5>1 DEF FormInputType
        <5>3. QED
          BY <3>4, <5>1, <5>2
      <4>3. CASE output = EnumType(Members(c), EnumRequired(field))
        <5>1. output.is = "enum"
          BY <4>3 DEF EnumType
        <5>2. FormInputType = [output EXCEPT !.is = "enum_back", !.required = FALSE]
          BY <5>1 DEF FormInputType
        <5>3. FormInputType.is = "enum_back"
          BY <4>3, <5>2 DEF EnumType
        <5>4. QED
          BY <4>1, <5>3 DEF NoType
      <4>4. QED
        BY <2>3, <3>1, <4>2, <4>3 DEF TypeIsMade
    <3>5. CASE sent.way = "serializer"
      <4>1. SerializerType = NoType
        BY <3>1, <3>5 DEF InputType
      <4>2. /\ Texts # {}
            /\ ~MakesEnum(Members(Ungrouped(c))) \/ ~SchemaTakes(Members(Ungrouped(c)))
        BY <4>1 DEF SerializerType, Scalar, EnumType, NoType
      <4>3. Nameable(c) /\ c # <<>>
        BY <2>1, <2>3, <4>2 DEF Texts, TextsOf
      <4>4. QED
        BY <3>5, <4>2, <4>3, OneListFailsFor
    <3>6. QED
      BY <3>1, <3>3, <3>4, <3>5 DEF Ways
  <2>4. QED
    BY <2>2, <2>3 DEF DefinitionFailsOnlyIf
<1>2. QED
  BY <1>1, ConversionInduction, PTL

\* A legal value of any field is shown, unless it is a duration or a choice comes
\* to a name of underscores.
THEOREM LegalValuesAreShown == Spec => []LegalValueShows
<1>1. ConversionInv => LegalValueShows
  BY DEF ConversionInv
<1>2. QED
  BY <1>1, ConversionInduction, PTL

\* A value that input and output call by one name is accepted as it was shown,
\* but for nulls, big numbers, and numbers and lists in place of texts.
THEOREM SendingBackIsAccepted == Spec => []SendingBackSucceeds
<1>1. ConversionInv => SendingBackSucceeds
  <2> SUFFICES ASSUME ConversionInv, outcome = "refused", OneVocabulary(sent)
               PROVE  \/ shown = Null /\ (IF sent.way = "serializer" THEN ~field.null ELSE ~field.blank)
                      \/ shown = Blank /\ ~field.blank
                      \/ shown = <<"big">>
                      \/ /\ sent.how = "literal" /\ sent.way # "serializer"
                         /\ field.kind \in {"array", "int"}
    BY DEF SendingBackSucceeds
  <2> DEFINE v == Coerced(InputType(sent.way), sent.how)
  <2>1. /\ field \in Fields /\ stored \in Legal(field) /\ shown = ShownAs(stored) /\ TypeIsMade
        /\ ~Misses(stored) /\ sent \in [way : Ways, how : {"variable", "literal"}]
        /\ InputType(sent.way) # NoType /\ ~Valid(sent.way, v)
    BY DEF ConversionInv, ValueIsShown
  <2> HIDE DEF v
  <2>2. Meant(sent, v)
    BY <2>1, ReadsBack DEF v
  <2>3. QED
    BY <2>1, <2>2, RefusedOnlyFor
<1>2. QED
  BY <1>1, ConversionInduction, PTL

\* And it is saved as it was stored, or an empty value for an empty value.
THEOREM SendingBackIsSaved == Spec => SendingBackKeeps
<1>1. ConversionInv /\ [Next]_vars =>
        [outcome' = "accepted" /\ OneVocabulary(sent') =>
           Same(stored', stored) \/ (field.kind = "array" /\ sent'.way # "serializer")]_vars
  <2> SUFFICES ASSUME ConversionInv, Next, outcome' = "accepted", OneVocabulary(sent')
               PROVE  Same(stored', stored) \/ (field.kind = "array" /\ sent'.way # "serializer")
    OBVIOUS
  <2>1. CASE SendBack
    <3>1. PICK way \in Ways, how \in {"variable", "literal"} :
             LET type == InputType(way)  v == Coerced(type, how) IN
             /\ sent' = [way |-> way, how |-> how]
             /\ IF type = NoType THEN outcome' = "no_input" /\ UNCHANGED stored
                ELSE IF Valid(way, v) THEN outcome' = "accepted" /\ stored' = Saved(way, v)
                ELSE outcome' = "refused" /\ UNCHANGED stored
      BY <2>1 DEF SendBack
    <3> DEFINE by == [way |-> way, how |-> how]
               type == InputType(way)
               v == Coerced(type, how)
    <3>2. /\ by \in [way : Ways, how : {"variable", "literal"}] /\ sent' = by
          /\ by.way = way /\ by.how = how
      BY <3>1
    <3>3. outcome = "shown"
      BY <2>1 DEF SendBack
    <3>4. /\ field \in Fields /\ stored \in Legal(field) /\ shown = ShownAs(stored)
          /\ TypeIsMade /\ ~Misses(stored)
      BY <3>3 DEF ConversionInv, ValueIsShown
    <3>5. type # NoType /\ Valid(way, v) /\ stored' = Saved(way, v)
      <4> HIDE DEF type, v
      <4>1. QED
        BY <3>1 DEF type, v
    <3>6. OneVocabulary(by)
      BY <3>2
    <3> HIDE DEF by
    <3>7. Meant(by, v)
      BY <3>2, <3>3, <3>4, <3>5, <3>6, ReadsBack
    <3> HIDE DEF v
    <3>8. QED
      BY <3>2, <3>5, <3>7, SavedAsSent
  <2>2. CASE DefineType \/ Show
    <3>1. outcome' # "accepted"
      BY <2>2 DEF DefineType, Show
    <3>2. QED
      BY <3>1
  <2>3. CASE DefineOther \/ UNCHANGED field_vars
    BY <2>3 DEF DefineOther, field_vars, Same
  <2>4. QED
    BY <2>1, <2>2, <2>3 DEF Next
<1>2. QED
  BY <1>1, ConversionInduction, PTL DEF Spec, SendingBackKeeps
-----------------------------------------------------------------------------
(* The command graphql_schema.                                              *)

USE DEF Versions, CommandOptions, Contents, Before, Latest, ToFile, Truncated, Left,
        FileBeforeOpen, PrintFails, Restart, project

\* No dump has begun.
LEMMA InitDump == DumpInit => DumpInv
  <1> SUFFICES ASSUME DumpInit PROVE DumpInv
    OBVIOUS
  <1> USE SavesAssumption DEF DumpInit
  <1>1. PICK v \in Versions : source = <<v>>
    OBVIOUS
  <1>2. source \in Seq(Versions) /\ Len(source) = 1
    BY <1>1
  <1>3. TypeOK
    BY <1>2 DEF TypeOK
  <1>4. GetsWhatWasImported /\ SuccessMeansDumped /\ RefusedLeavesFile
    BY DEF GetsWhatWasImported, SuccessMeansDumped, RefusedLeavesFile
  <1> QED BY <1>3, <1>4 DEF DumpInv

\* A save leaves the versions that were there.
LEMMA SaveKeepsDump == DumpInv /\ SaveSource => DumpInv'
  <1> SUFFICES ASSUME DumpInv, SaveSource PROVE DumpInv'
    OBVIOUS
  <1> USE SavesAssumption DEF DumpInv, TypeOK
  <1>1. PICK v \in Versions : source' = Append(source, v)
    BY DEF SaveSource
  <1>2. /\ source' \in Seq(Versions)
        /\ Len(source') = Len(source) + 1
        /\ \A i \in 1..Len(source) : source'[i] = source[i]
    BY <1>1
  <1>3. TypeOK'
    BY <1>2 DEF SaveSource
  <1>4. GetsWhatWasImported'
    BY <1>2 DEF SaveSource, GetsWhatWasImported
  <1>5. SuccessMeansDumped'
    BY <1>2 DEF SaveSource, SuccessMeansDumped, GetsWhatWasImported
  <1>6. RefusedLeavesFile'
    BY <1>2 DEF SaveSource, RefusedLeavesFile, GetsWhatWasImported
  <1> QED BY <1>3, <1>4, <1>5, <1>6

\* Starting, importing and ending the command's processes do not touch a file.
LEMMA CommandKeepsDump == DumpInv /\ Command => DumpInv'
  <1> SUFFICES ASSUME DumpInv, Command PROVE DumpInv'
    OBVIOUS
  <1> USE SavesAssumption DEF DumpInv, TypeOK, GetsWhatWasImported,
                              SuccessMeansDumped, RefusedLeavesFile
  <1>1. CASE ImportSchema
    BY <1>1 DEF ImportSchema
  <1>2. CASE StartChild
    BY <1>2 DEF StartChild
  <1>3. CASE EndCommand
    BY <1>3 DEF EndCommand
  <1> QED BY <1>1, <1>2, <1>3 DEF Command

\* Each step of get_schema; the file is opened for an introspected schema only.
LEMMA GetSchemaKeepsDump == DumpInv /\ GetSchema => DumpInv'
  <1> SUFFICES ASSUME DumpInv, GetSchema PROVE DumpInv'
    OBVIOUS
  <1> USE SavesAssumption DEF DumpInv, TypeOK, GetsWhatWasImported,
                              SuccessMeansDumped, RefusedLeavesFile, GetSchema
  <1>1. CASE Introspect
    BY <1>1 DEF Introspect
  <1>2. CASE WriteNoFile
    BY <1>2 DEF WriteNoFile
  <1>3. CASE OpenFile
    BY <1>3 DEF OpenFile
  <1>4. CASE PrintRaises
    BY <1>4 DEF PrintRaises
  <1>5. CASE WriteAndClose
    BY <1>5 DEF WriteAndClose
  <1> QED BY <1>1, <1>2, <1>3, <1>4, <1>5

\* A dump that is cut short leaves part of a file it had opened.
LEMMA StopKeepsDump == DumpInv /\ (Reload \/ Interrupt) => DumpInv'
  <1> SUFFICES ASSUME DumpInv, Reload \/ Interrupt PROVE DumpInv'
    OBVIOUS
  <1> USE SavesAssumption DEF DumpInv, TypeOK, GetsWhatWasImported,
                              SuccessMeansDumped, RefusedLeavesFile
  <1>1. CASE FirstLook
    BY <1>1 DEF FirstLook
  <1>2. CASE NoticeChange
    BY <1>2 DEF NoticeChange
  <1>3. CASE Interrupt
    BY <1>3 DEF Interrupt
  <1> QED BY <1>1, <1>2, <1>3 DEF Reload

\* The inductive invariant of the command.
THEOREM DumpInduction == DumpSpec => []DumpInv
  <1>1. DumpInv /\ UNCHANGED dump_vars => DumpInv'
    BY DEF dump_vars, DumpInv, TypeOK, GetsWhatWasImported,
           SuccessMeansDumped, RefusedLeavesFile
  <1>2. DumpInv /\ [DumpNext]_dump_vars => DumpInv'
    BY <1>1, SaveKeepsDump, CommandKeepsDump, GetSchemaKeepsDump, StopKeepsDump DEF DumpNext
  <1> QED BY InitDump, <1>2, PTL DEF DumpSpec

\* A dump reported as done is whole, whatever was saved, killed or restarted.
THEOREM DumpedWhenReported == DumpSpec => []SuccessMeansDumped
  BY DumpInduction, PTL DEF DumpInv

\* A schema that cannot be imported or introspected, or an unknown format,
\* leaves the file that was there.
THEOREM RefusalKeepsFile == DumpSpec => []RefusedLeavesFile
  BY DumpInduction, PTL DEF DumpInv
=============================================================================
