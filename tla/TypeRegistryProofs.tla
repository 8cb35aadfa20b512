------------------------- MODULE TypeRegistryProofs -------------------------
(***************************************************************************)
(* Theorems about TypeRegistry for any models and fields, and any number   *)
(* of definitions and resets.                                              *)
(***************************************************************************)
EXTENDS TypeRegistry, TLAPS

\* A statement the application can write is a declaration.
LEMMA DeclarationType ==
    ASSUME NEW m \in Models, NEW d \in Declarations(m), global \in 0..MaxResets
    PROVE  d \in Declaration /\ d.model = m
<1>1. FieldsOf[m] \subseteq Fields  BY ModelsAssumption
<1>2. d.registry \in Registries  BY DEF Declarations, Registries
<1>3. d.fields \subseteq Fields /\ d.enums \subseteq Fields  BY <1>1 DEF Declarations
<1>4. QED  BY <1>2, <1>3 DEF Declarations, Declaration

\* No conversion is the mark for none.
LEMMA ConversionIsSome == NotConverted \notin Conversion
  BY DEF NotConverted, Conversion

\* What a field is converted to: the cache's, or a conversion for its registry.
LEMMA ConvertFieldFacts ==
    ASSUME RegistryInv, NEW f \in Fields, NEW d \in Declaration, NEW n \in 1..MaxTypes
    PROVE  /\ ConvertField(f, d, n) \in Conversion
           /\ ConvertField(f, d, n).registry = d.registry
           /\ converted[d.registry][f] # NotConverted =>
                ConvertField(f, d, n) = converted[d.registry][f]
<1>1. d.registry \in Registries  BY DEF Declaration
<1>2. converted[d.registry][f] \in Conversion \cup {NotConverted}
  BY <1>1 DEF RegistryInv, TypeOK
<1>3. /\ Converted(f, d, n) \in Conversion
      /\ Converted(f, d, n).registry = d.registry
  BY <1>1 DEF Converted, Conversion
<1>4. converted[d.registry][f] # NotConverted => converted[d.registry][f].registry = d.registry
  BY <1>1 DEF RegistryInv, CacheKnowsRegistry
<1>5. QED  BY <1>2, <1>3, <1>4 DEF ConvertField

\* The initial state satisfies the invariant.
LEMMA InitRegistryInv == Init => RegistryInv
<1> SUFFICES ASSUME Init PROVE RegistryInv
  OBVIOUS
<1>1. types = <<>> /\ global = 0  BY DEF Init
<1>2. types \in Seq([declared : Declaration,
                     fields : [Fields -> Conversion \cup {NotConverted}]])
  BY <1>1
<1>3. Len(types) = 0 /\ DOMAIN types = {}  BY <1>1
<1>4. TypeOK  BY <1>2, <1>3, RegistryAssumption DEF Init, TypeOK
<1>5. QED
  BY <1>3, <1>4 DEF Init, RegistryInv, FieldsAreCached, CacheKnowsRegistry, RegisteredTypes
-----------------------------------------------------------------------------
\* Defining a type preserves the invariant: a field that is in the cache stays
\* what it was, so that the types before keep the cache's fields.
LEMMA DefineTypeInv ==
    ASSUME RegistryInv, NEW d \in Declaration, DefineType(d)
    PROVE  RegistryInv'
<1> DEFINE n == Len(types) + 1
           fs == ConstructFields(d, n)
           r == d.registry
           type == [declared |-> d, fields |-> fs]
           TypeRec == [declared : Declaration, fields : [Fields -> Conversion \cup {NotConverted}]]
<1>1. /\ TypeOK /\ types \in Seq(TypeRec) /\ Len(types) < MaxTypes
      /\ n \in 1..MaxTypes /\ r \in Registries /\ d.fields \subseteq Fields /\ d.model \in Models
  <2>1. Len(types) < MaxTypes  BY DEF DefineType
  <2>2. TypeOK /\ types \in Seq(TypeRec)  BY DEF RegistryInv, TypeOK
  <2>3. n \in 1..MaxTypes  BY <2>1, <2>2, RegistryAssumption
  <2>4. QED  BY <2>1, <2>2, <2>3 DEF Declaration
<1>2. /\ types' = Append(types, type)
      /\ converted' = [converted EXCEPT ![r] =
                         [f \in Fields |-> IF f \in d.fields THEN fs[f] ELSE @[f]]]
      /\ registered' = IF Registers(d)
                       THEN [registered EXCEPT ![r] = [@ EXCEPT ![d.model] = n]]
                       ELSE registered
      /\ global' = global
  BY DEF DefineType
<1>3. \A f \in d.fields :
        /\ fs[f] \in Conversion /\ fs[f].registry = r
        /\ converted[r][f] # NotConverted => fs[f] = converted[r][f]
  <2>1. \A f \in Fields : f \in d.fields => fs[f] = ConvertField(f, d, n)
    BY DEF ConstructFields
  <2> HIDE DEF fs, n
  <2>2. QED  BY <1>1, <2>1, ConvertFieldFacts
<1>4. fs \in [Fields -> Conversion \cup {NotConverted}]
  <2>1. fs = [f \in Fields |-> IF f \in d.fields THEN ConvertField(f, d, n) ELSE NotConverted]
    BY DEF ConstructFields
  <2>2. \A f \in d.fields : fs[f] = ConvertField(f, d, n)  BY <1>1, <2>1
  <2> HIDE DEF n
  <2>3. \A f \in d.fields : ConvertField(f, d, n) \in Conversion  BY <1>3, <2>2
  <2>4. QED  BY <2>1, <2>3
<1>5. type \in TypeRec  BY <1>4
<1>6. /\ types' \in Seq(TypeRec) /\ Len(types') = n /\ DOMAIN types' = 1..n
      /\ DOMAIN types = 1..(n - 1)
      /\ \A t \in DOMAIN types : t \in DOMAIN types' /\ types'[t] = types[t]
      /\ types'[n] = type
  <2> HIDE DEF TypeRec, type
  <2>1. QED  BY <1>1, <1>2, <1>5
<1> HIDE DEF fs
<1>7. /\ converted' \in [Registries -> [Fields -> Conversion \cup {NotConverted}]]
      /\ \A f \in d.fields : converted'[r][f] = fs[f]
      /\ \A f \in Fields \ d.fields : converted'[r][f] = converted[r][f]
      /\ \A q \in Registries \ {r} : converted'[q] = converted[q]
  BY <1>1, <1>2, <1>3 DEF TypeOK
<1>8. /\ registered' \in [Registries -> [Models -> 0..MaxTypes]]
      /\ \A q \in Registries, m \in Models :
           registered'[q][m] = registered[q][m]
             \/ (q = r /\ m = d.model /\ registered'[q][m] = n /\ Registers(d))
  <2> HIDE DEF n, r
  <2>1. CASE Registers(d)
    <3>1. registered' = [registered EXCEPT ![r] = [registered[r] EXCEPT ![d.model] = n]]
      BY <1>2, <2>1
    <3>2. registered[r] \in [Models -> 0..MaxTypes]  BY <1>1 DEF TypeOK
    <3>3. [registered[r] EXCEPT ![d.model] = n] \in [Models -> 0..MaxTypes]
      BY <1>1, <3>2
    <3>4. QED  BY <1>1, <2>1, <3>1, <3>2, <3>3 DEF TypeOK
  <2>2. CASE ~Registers(d)
    BY <1>1, <1>2, <2>2 DEF TypeOK
  <2>3. QED  BY <2>1, <2>2
<1>9. TypeOK'
  <2>1. \A t \in DOMAIN types' : \A f \in types'[t].declared.fields :
          types'[t].fields[f] \in Conversion
    <3> SUFFICES ASSUME NEW t \in DOMAIN types', NEW f \in types'[t].declared.fields
                 PROVE  types'[t].fields[f] \in Conversion
      OBVIOUS
    <3>1. CASE t \in DOMAIN types
      BY <1>1, <1>6, <3>1 DEF TypeOK
    <3>2. CASE t = n
      BY <1>3, <1>6, <3>2
    <3>3. QED  BY <1>1, <1>6, <3>1, <3>2
  <2>2. QED  BY <1>1, <1>2, <1>6, <1>7, <1>8, <2>1 DEF TypeOK
<1>10. FieldsAreCached'
  <2> SUFFICES ASSUME NEW t \in DOMAIN types', NEW f \in types'[t].declared.fields
               PROVE  types'[t].fields[f] = converted'[types'[t].declared.registry][f]
    BY DEF FieldsAreCached, RegistryOf
  <2>1. CASE t \in DOMAIN types
    <3> DEFINE q == types[t].declared.registry
    <3>1. types'[t] = types[t] /\ types[t] \in TypeRec
      <4> HIDE DEF TypeRec
      <4>1. QED  BY <1>1, <1>6, <2>1
    <3>2. q \in Registries /\ f \in Fields  BY <3>1 DEF Declaration
    <3>3. types[t].fields[f] = converted[q][f] /\ converted[q][f] \in Conversion
      BY <1>1, <2>1, <3>1 DEF RegistryInv, FieldsAreCached, RegistryOf, TypeOK
    <3>4. converted'[q][f] = converted[q][f]
      BY <1>3, <1>7, <3>2, <3>3, ConversionIsSome
    <3>5. QED  BY <3>1, <3>3, <3>4
  <2>2. CASE t = n
    BY <1>6, <1>7, <2>2
  <2>3. QED  BY <1>1, <1>6, <2>1, <2>2
<1>11. CacheKnowsRegistry'
  <2> SUFFICES ASSUME NEW q \in Registries, NEW f \in Fields, converted'[q][f] # NotConverted
               PROVE  converted'[q][f].registry = q
    BY DEF CacheKnowsRegistry
  <2>1. CASE q = r /\ f \in d.fields
    BY <1>3, <1>7, <2>1
  <2>2. CASE ~(q = r /\ f \in d.fields)
    BY <1>1, <1>7, <2>2 DEF RegistryInv, CacheKnowsRegistry
  <2>3. QED  BY <2>1, <2>2
<1>12. RegisteredTypes'
  <2> SUFFICES ASSUME NEW q \in Registries, NEW m \in Models, registered'[q][m] # 0
               PROVE  LET u == registered'[q][m]
                      IN  /\ u \in DOMAIN types' /\ types'[u].declared.ends = "registered"
                          /\ types'[u].declared.registry = q /\ types'[u].declared.model = m
    BY DEF RegisteredTypes, RegistryOf, Usable
  <2>1. CASE registered'[q][m] = registered[q][m]
    BY <1>6, <2>1 DEF RegistryInv, RegisteredTypes, RegistryOf, Usable
  <2>2. CASE q = r /\ m = d.model /\ registered'[q][m] = n /\ Registers(d)
    BY <1>1, <1>6, <2>2 DEF Registers
  <2>3. QED  BY <1>8, <2>1, <2>2
<1>13. QED  BY <1>9, <1>10, <1>11, <1>12 DEF RegistryInv

\* Every step preserves the invariant; a reset touches no registry.
LEMMA NextRegistryInv == RegistryInv /\ [Next]_vars => RegistryInv'
<1> SUFFICES ASSUME RegistryInv, [Next]_vars PROVE RegistryInv'
  OBVIOUS
<1>1. CASE ResetGlobalRegistry
  <2>1. global' \in 0..MaxResets /\ UNCHANGED <<types, registered, converted>>
    BY <1>1, RegistryAssumption DEF ResetGlobalRegistry, RegistryInv, TypeOK
  <2>2. QED
    BY <2>1 DEF RegistryInv, TypeOK, FieldsAreCached, CacheKnowsRegistry, RegisteredTypes,
       RegistryOf, Usable
<1>2. ASSUME NEW m \in Models, NEW d \in Declarations(m), DefineType(d)
      PROVE  RegistryInv'
  <2>1. d \in Declaration  BY DeclarationType DEF RegistryInv, TypeOK
  <2>2. QED  BY <1>2, <2>1, DefineTypeInv
<1>3. CASE UNCHANGED vars
  BY <1>3 DEF vars, RegistryInv, TypeOK, FieldsAreCached, CacheKnowsRegistry,
     RegisteredTypes, RegistryOf, Usable
<1>4. QED  BY <1>1, <1>2, <1>3 DEF Next
-----------------------------------------------------------------------------
\* A relation's target, where it has one, is registered in its type's registry.
LEMMA RelatedFacts ==
    ASSUME RegistryInv, NEW t \in Usable, NEW f \in types[t].declared.fields
    PROVE  LET u == RelatedType(types[t].fields[f], f)
           IN  u # 0 => /\ u \in Usable /\ RegistryOf(u) = RegistryOf(t)
                        /\ types[u].declared.model = Target[f]
                        /\ types[u].declared.ends = "registered"
<1>1. t \in DOMAIN types  BY DEF Usable
<1>2. types[t].declared \in Declaration
  <2> DEFINE TypeRec == [declared : Declaration,
                         fields : [Fields -> Conversion \cup {NotConverted}]]
  <2>1. types \in Seq(TypeRec)  BY DEF RegistryInv, TypeOK
  <2>2. types[t] \in TypeRec
    <3> HIDE DEF TypeRec
    <3>1. QED  BY <1>1, <2>1
  <2>3. QED  BY <2>2
<1>3. RegistryOf(t) \in Registries /\ f \in Fields /\ Target[f] \in Models
  BY <1>2, ModelsAssumption DEF RegistryOf, Declaration
<1>4. types[t].fields[f] \in Conversion  BY <1>1 DEF RegistryInv, TypeOK
<1>5. types[t].fields[f] = converted[RegistryOf(t)][f]
  BY <1>1 DEF RegistryInv, FieldsAreCached
<1>6. types[t].fields[f].registry = RegistryOf(t)
  BY <1>3, <1>4, <1>5, ConversionIsSome DEF RegistryInv, CacheKnowsRegistry
<1>7. RelatedType(types[t].fields[f], f) = registered[RegistryOf(t)][Target[f]]
  BY <1>6 DEF RelatedType
<1>8. QED  BY <1>3, <1>7 DEF RegistryInv, RegisteredTypes

\* A schema whose roots are of one registry has no type of another.
LEMMA MembersOfOneRegistry ==
    ASSUME RegistryInv, NEW roots \in SUBSET Usable, NEW r,
           \A t \in roots : RegistryOf(t) = r
    PROVE  \A t \in Members(roots) : t \in Usable /\ RegistryOf(t) = r
<1> DEFINE S == {t \in Usable : RegistryOf(t) = r}
<1>1. roots \subseteq S /\ S \in SUBSET Usable  OBVIOUS
<1>2. \A u \in S : Related(u) \subseteq S
  <2> SUFFICES ASSUME NEW u \in S, NEW v \in Related(u) PROVE v \in S
    OBVIOUS
  <2>1. PICK f \in FieldsAs(u, "relation") : v = RelatedType(types[u].fields[f], f) /\ v # 0
    BY DEF Related
  <2>2. f \in types[u].declared.fields  BY DEF FieldsAs
  <2>3. u \in Usable /\ RegistryOf(u) = r  OBVIOUS
  <2>4. v \in Usable /\ RegistryOf(v) = RegistryOf(u)
    BY <2>1, <2>2, <2>3, RelatedFacts
  <2>5. QED  BY <2>3, <2>4
<1> HIDE DEF S
<1>3. \A t \in Members(roots) : t \in S  BY <1>1, <1>2 DEF Members
<1>4. QED  BY <1>3 DEF S

\* The invariant holds in every reachable state.
THEOREM RegistryInduction == Spec => []RegistryInv
  BY InitRegistryInv, NextRegistryInv, PTL DEF Spec

\* Every relation of every type leads to a registered type of the related
\* model in the type's own registry, or nowhere.
THEOREM RelationsStay == Spec => []RelationsStayInRegistry
<1>1. RegistryInv => RelationsStayInRegistry
  BY RelatedFacts DEF RelationsStayInRegistry
<1>2. QED  BY <1>1, RegistryInduction, PTL

\* However many types are defined for a model, in whatever order, the types of
\* one registry always build: each choice field has one enum.
THEOREM SchemasBuild == Spec => []OneRegistryBuilds
<1>1. RegistryInv => OneRegistryBuilds
  <2> SUFFICES ASSUME RegistryInv, NEW roots \in SUBSET Usable,
                      \A t, u \in roots : RegistryOf(t) = RegistryOf(u),
                      NEW f \in Fields, NEW c \in EnumsOf(f, Members(roots)),
                      NEW e \in EnumsOf(f, Members(roots))
               PROVE  c = e
    BY DEF OneRegistryBuilds, Builds
  <2>1. PICK r : \A t \in roots : RegistryOf(t) = r
    <3>1. CASE roots = {}
      BY <3>1
    <3>2. CASE roots # {}
      <4>1. PICK u \in roots : TRUE  BY <3>2
      <4>2. QED  BY <4>1
    <3>3. QED  BY <3>1, <3>2
  <2>2. \A t \in Members(roots) : t \in Usable /\ RegistryOf(t) = r
    BY <2>1, MembersOfOneRegistry
  <2>3. \A t \in Members(roots) : f \in FieldsAs(t, "enum") =>
          types[t].fields[f] = converted[r][f]
    BY <2>2 DEF FieldsAs, RegistryInv, FieldsAreCached, Usable
  <2>4. QED  BY <2>3 DEF EnumsOf
<1>2. QED  BY <1>1, RegistryInduction, PTL
-----------------------------------------------------------------------------
(* What a schema shows follows from the declarations.                      *)

\* A definition is added behind the others, which stay as they are.
LEMMA TypesGrow ==
    ASSUME RegistryInv, NEW d \in Declaration, DefineType(d)
    PROVE  LET n == Len(types) + 1
           IN  /\ n \in 1..MaxTypes /\ DOMAIN types = 1..(n - 1) /\ DOMAIN types' = 1..n
               /\ \A t \in 1..(n - 1) : types'[t] = types[t]
               /\ types'[n].declared = d
<1> DEFINE n == Len(types) + 1
           TypeRec == [declared : Declaration, fields : [Fields -> Conversion \cup {NotConverted}]]
           type == [declared |-> d, fields |-> ConstructFields(d, n)]
<1>1. types \in Seq(TypeRec) /\ Len(types) < MaxTypes /\ types' = Append(types, type)
  BY DEF RegistryInv, TypeOK, DefineType
<1>2. type.declared = d  OBVIOUS
<1> HIDE DEF TypeRec, type
<1>3. Len(types) \in Nat /\ DOMAIN types = 1..Len(types)  BY <1>1
<1>4. n \in 1..MaxTypes /\ n - 1 = Len(types)  BY <1>1, <1>3, RegistryAssumption
<1>5. DOMAIN types' = 1..n /\ types'[n] = type
      /\ \A t \in 1..Len(types) : types'[t] = types[t]
  BY <1>1, <1>3
<1>6. QED  BY <1>2, <1>3, <1>4, <1>5

\* A type is a declaration the application wrote.
LEMMA DeclaredType ==
    ASSUME RegistryInv, NEW t \in DOMAIN types
    PROVE  /\ types[t].declared \in Declaration
           /\ RegistryOf(t) \in Registries /\ types[t].declared.model \in Models
           /\ types[t].declared.fields \subseteq Fields
<1> DEFINE TypeRec == [declared : Declaration,
                       fields : [Fields -> Conversion \cup {NotConverted}]]
<1>1. types \in Seq(TypeRec)  BY DEF RegistryInv, TypeOK
<1>2. types[t] \in TypeRec
  <2> HIDE DEF TypeRec
  <2>1. QED  BY <1>1
<1>3. QED  BY <1>2 DEF RegistryOf, Declaration

\* A definition that is registered takes its model over.
LEMMA DefineTypeIsLast ==
    ASSUME RegistryInv, LastIsRegistered, NEW d \in Declaration, DefineType(d)
    PROVE  LastIsRegistered'
<1> DEFINE n == Len(types) + 1
           r == d.registry
<1>1. /\ n \in 1..MaxTypes /\ DOMAIN types = 1..(n - 1) /\ DOMAIN types' = 1..n
      /\ \A t \in 1..(n - 1) : types'[t] = types[t]
      /\ types'[n].declared = d
  BY TypesGrow
<1>2. registered' = IF Registers(d)
                    THEN [registered EXCEPT ![r] = [registered[r] EXCEPT ![d.model] = n]]
                    ELSE registered
  BY DEF DefineType
<1>3. r \in Registries /\ d.model \in Models  BY DEF Declaration
<1>4. registered \in [Registries -> [Models -> 0..MaxTypes]]  BY DEF RegistryInv, TypeOK
<1> HIDE DEF n, r
<1>5. \A q \in Registries, m \in Models :
        registered'[q][m] = IF Registers(d) /\ q = r /\ m = d.model THEN n ELSE registered[q][m]
  <2>1. registered[r] \in [Models -> 0..MaxTypes]  BY <1>3, <1>4
  <2>2. QED  BY <1>2, <1>3, <1>4, <2>1
<1> SUFFICES ASSUME NEW t \in 1..n, types'[t].declared.ends = "registered"
             PROVE  t <= registered'[types'[t].declared.registry][types'[t].declared.model]
  BY <1>1 DEF LastIsRegistered, RegistryOf
<1>6. CASE t = n
  <2>1. Registers(d)  BY <1>1, <1>6 DEF Registers
  <2>2. QED  BY <1>1, <1>3, <1>5, <1>6, <2>1 DEF r
<1>7. CASE t \in 1..(n - 1)
  <2>1. /\ types'[t] = types[t] /\ t \in DOMAIN types /\ RegistryOf(t) \in Registries
        /\ types[t].declared.model \in Models
    BY <1>1, <1>7, DeclaredType
  <2>2. t <= registered[RegistryOf(t)][types[t].declared.model]
    BY <2>1 DEF LastIsRegistered
  <2>3. registered'[RegistryOf(t)][types[t].declared.model] =
          IF Registers(d) /\ RegistryOf(t) = r /\ types[t].declared.model = d.model THEN n
          ELSE registered[RegistryOf(t)][types[t].declared.model]
    BY <1>5, <2>1
  <2>4. t <= n  BY <1>1, <1>7
  <2>5. QED  BY <2>1, <2>2, <2>3, <2>4 DEF RegistryOf
<1>8. QED  BY <1>1, <1>6, <1>7

\* What a definition adds to the cache it has made itself.
LEMMA DefineTypeIsMaker ==
    ASSUME RegistryInv, CacheKnowsMaker, NEW d \in Declaration, DefineType(d)
    PROVE  CacheKnowsMaker'
<1> DEFINE n == Len(types) + 1
           r == d.registry
<1>1. /\ n \in 1..MaxTypes /\ DOMAIN types = 1..(n - 1) /\ DOMAIN types' = 1..n
      /\ \A t \in 1..(n - 1) : types'[t] = types[t]
      /\ types'[n].declared = d
  BY TypesGrow
<1>2. converted' = [converted EXCEPT ![r] =
        [f \in Fields |-> IF f \in d.fields THEN ConstructFields(d, n)[f] ELSE @[f]]]
  BY DEF DefineType
<1>3. r \in Registries /\ d.fields \subseteq Fields  BY DEF Declaration
<1>4. converted \in [Registries -> [Fields -> Conversion \cup {NotConverted}]]
  BY DEF RegistryInv, TypeOK
<1>5. \A f \in d.fields : ConstructFields(d, n)[f] = ConvertField(f, d, n)
  BY <1>3 DEF ConstructFields
<1> HIDE DEF n
<1>6. \A q \in Registries, f \in Fields :
        converted'[q][f] = IF q = r /\ f \in d.fields THEN ConvertField(f, d, n)
                           ELSE converted[q][f]
  BY <1>2, <1>3, <1>4, <1>5
<1> SUFFICES ASSUME NEW q \in Registries, NEW f \in Fields, converted'[q][f] # NotConverted
             PROVE  LET u == converted'[q][f].by
                    IN  /\ u \in 1..n /\ types'[u].declared.registry = q
                        /\ f \in types'[u].declared.fields
                        /\ converted'[q][f] = Converted(f, types'[u].declared, u)
  BY <1>1 DEF CacheKnowsMaker, RegistryOf, Converted
<1>7. CASE converted'[q][f] = converted[q][f]
  <2> DEFINE u == converted[q][f].by
  <2>1. /\ u \in 1..(n - 1) /\ types[u].declared.registry = q
        /\ f \in types[u].declared.fields
        /\ converted[q][f] = Converted(f, types[u].declared, u)
    BY <1>1, <1>7 DEF CacheKnowsMaker, RegistryOf
  <2>2. types'[u] = types[u] /\ u \in 1..n  BY <1>1, <2>1
  <2>3. QED  BY <1>7, <2>1, <2>2
<1>8. CASE converted'[q][f] # converted[q][f]
  <2>1. q = r /\ f \in d.fields /\ converted'[q][f] = ConvertField(f, d, n)
    BY <1>6, <1>8
  <2>2. converted'[q][f] = Converted(f, d, n)
    BY <1>8, <2>1 DEF ConvertField
  <2>3. converted'[q][f].by = n  BY <2>2 DEF Converted
  <2>4. QED  BY <1>1, <2>1, <2>2, <2>3
<1>9. QED  BY <1>7, <1>8

\* What a schema shows follows from what its registry's types declare, in any
\* order of any number of definitions: the last type registered for a model is
\* the one that relations lead to, and choices are an enum where the definitions
\* that convert the field agree on it.
THEOREM DeclarationsDecideSchemas == Spec => []DeclarationsDecide
<1>1. Init => LastIsRegistered /\ CacheKnowsMaker
  BY DEF Init, LastIsRegistered, CacheKnowsMaker
<1>2. RegistryInv /\ LastIsRegistered /\ CacheKnowsMaker /\ [Next]_vars
        => LastIsRegistered' /\ CacheKnowsMaker'
  <2> SUFFICES ASSUME RegistryInv, LastIsRegistered, CacheKnowsMaker, [Next]_vars
               PROVE  LastIsRegistered' /\ CacheKnowsMaker'
    OBVIOUS
  <2>1. ASSUME NEW m \in Models, NEW d \in Declarations(m), DefineType(d)
        PROVE  LastIsRegistered' /\ CacheKnowsMaker'
    <3>1. d \in Declaration  BY DeclarationType DEF RegistryInv, TypeOK
    <3>2. QED  BY <2>1, <3>1, DefineTypeIsLast, DefineTypeIsMaker
  <2>2. CASE UNCHANGED <<types, registered, converted>>
    BY <2>2 DEF LastIsRegistered, CacheKnowsMaker, RegistryOf, Converted
  <2>3. QED  BY <2>1, <2>2 DEF Next, ResetGlobalRegistry, vars
<1>3. RegistryInv /\ LastIsRegistered /\ CacheKnowsMaker => DeclarationsDecide
  <2> SUFFICES ASSUME RegistryInv, LastIsRegistered, CacheKnowsMaker,
                      NEW t \in Usable, NEW f \in types[t].declared.fields
               PROVE  LET r == RegistryOf(t)
                          candidates ==
                            {u \in DOMAIN types : /\ RegistryOf(u) = r
                                                  /\ types[u].declared.ends = "registered"
                                                  /\ types[u].declared.model = Target[f]}
                          others == {u \in DOMAIN types :
                                       RegistryOf(u) = r /\ f \in types[u].declared.fields}
                          wants(u) == f \in types[u].declared.enums
                          c == types[t].fields[f]
                      IN  /\ c.as = "relation" =>
                               IF candidates = {} THEN RelatedType(c, f) = 0
                               ELSE /\ RelatedType(c, f) \in candidates
                                    /\ \A u \in candidates : u <= RelatedType(c, f)
                          /\ Kind[f] = "choices" /\ (\A u \in others : wants(u) <=> wants(t)) =>
                               (c.as = "enum" <=> wants(t))
    BY DEF DeclarationsDecide
  <2> DEFINE r == RegistryOf(t)
             c == types[t].fields[f]
             candidates == {u \in DOMAIN types : /\ RegistryOf(u) = r
                                                 /\ types[u].declared.ends = "registered"
                                                 /\ types[u].declared.model = Target[f]}
             related == RelatedType(c, f)
  <2>1. t \in DOMAIN types  BY DEF Usable
  <2>2. r \in Registries /\ f \in Fields /\ Target[f] \in Models
    BY <2>1, DeclaredType, ModelsAssumption
  <2>3. c = converted[r][f] /\ c # NotConverted
    BY <2>1, ConversionIsSome DEF RegistryInv, FieldsAreCached, TypeOK
  <2>4. related = registered[r][Target[f]]
    BY <2>2, <2>3 DEF RelatedType, RegistryInv, CacheKnowsRegistry
  <2>5. \A u \in candidates : u <= related
    BY <2>4 DEF LastIsRegistered
  <2>6. related # 0 => related \in candidates
    BY <2>2, <2>4 DEF RegistryInv, RegisteredTypes, Usable
  <2>7. candidates # {} => related # 0
    <3>1. related \in 0..MaxTypes  BY <2>2, <2>4 DEF RegistryInv, TypeOK
    <3>2. \A u \in candidates : u \in Nat /\ u > 0
      <4> DEFINE TypeRec == [declared : Declaration,
                             fields : [Fields -> Conversion \cup {NotConverted}]]
      <4>1. types \in Seq(TypeRec)  BY DEF RegistryInv, TypeOK
      <4> HIDE DEF TypeRec
      <4>2. DOMAIN types \subseteq Nat \ {0}  BY <4>1
      <4>3. QED  BY <4>2
    <3>3. QED  BY <2>5, <3>1, <3>2
  <2>8. LET u == c.by
        IN  /\ u \in DOMAIN types /\ RegistryOf(u) = r /\ f \in types[u].declared.fields
            /\ c = Converted(f, types[u].declared, u)
    BY <2>2, <2>3 DEF CacheKnowsMaker
  <2>9. Kind[f] = "choices" => (c.as = "enum" <=> f \in types[c.by].declared.enums)
    <3>1. c.as = Converted(f, types[c.by].declared, c.by).as  BY <2>8
    <3> HIDE DEF c
    <3>2. QED  BY <3>1 DEF Converted
  <2> HIDE DEF related, c, r
  <2>10. QED  BY <2>5, <2>6, <2>7, <2>8, <2>9 DEF related, c, r
<1>4. QED  BY <1>1, <1>2, <1>3, RegistryInduction, PTL DEF Spec
=============================================================================
