---------------------- MODULE RelationResolutionProofs ----------------------
(***************************************************************************)
(* RelationInv is an invariant for any set of targets, if foreign keys hold *)
(* primary keys.  NodeIsOnRoot is what makes it inductive: a resolver that *)
(* reads the relation after the check reads the checked node.              *)
(***************************************************************************)
EXTENDS RelationResolution, TLAPS

\* What Load reads are instances: each as its row is now.
LEMMA LoadType ==
    ASSUME rows \in [Targets -> Row], NEW T \in SUBSET Targets
    PROVE  Load(T) \in SUBSET Instance
<1>1. \A t \in T : Passes(t) \in BOOLEAN
  BY DEF Passes
<1> QED
  BY <1>1 DEF Load, Instance

\* Load reads every row it is asked for and no other.
LEMMA LoadOf ==
    ASSUME NEW T
    PROVE  {i.of : i \in Load(T)} = T
<1>1. ASSUME NEW i \in Load(T)
      PROVE  i.of \in T
  BY DEF Load
<1>2. ASSUME NEW t \in T
      PROVE  t \in {i.of : i \in Load(T)}
  <2> DEFINE i == [of |-> t, visible |-> Passes(t)]
  <2>1. i \in Load(T) /\ i.of = t
    BY DEF Load
  <2> QED
    BY <2>1
<1> QED
  BY <1>1, <1>2

\* With primary keys get_node finds what the foreign key leads to.
LEMMA NodeIsLeading ==
    ASSUME TypeOK, KeyIsPrimary, field.kind = "forward"
    PROVE  GetNode = Load(Leading)
<1>1. {t \in Targets : t = root.key /\ rows[t].here /\ Passes(t)} = Leading
  BY DEF TypeOK, KeyIsPrimary, Leading, Related, RelatedBy
<1> QED
  BY <1>1 DEF GetNode

\* A relation followed backwards is filtered by its own key to the root.
LEMMA ReverseIsLeading ==
    ASSUME field.kind = "reverse"
    PROVE  GetReverse = Load(Leading)
<1>1. {t \in Targets : rows[t].here /\ rows[t].refers /\ Passes(t)} = Leading
  BY DEF Leading, Related, RelatedBy
<1> QED
  BY <1>1 DEF GetReverse

\* Reading the relation yields instances and leaves a root of its type.
LEMMA ReadType ==
    ASSUME TypeOK
    PROVE  /\ Leading \in SUBSET Targets
           /\ ReadRelation \in SUBSET Instance
           /\ AfterRead \in [key : Targets \cup {None}, loaded : BOOLEAN, cached : SUBSET Instance]
           /\ CachedPassed /\ field' = field /\ root' \in {root, AfterRead} => CachedPassed'
<1>1. Leading \in SUBSET Targets /\ Related \in SUBSET Targets
  BY DEF Leading, Related, RelatedBy
<1>2. ReadRelation \in SUBSET Instance
  BY <1>1, LoadType DEF TypeOK, ReadRelation
<1>3. field.queryset = "returned" => \A t : Passes(t)
  BY DEF Passes
<1>4. field.queryset = "returned" => \A i \in Load(Related) : i.visible
  BY <1>3 DEF Load
<1>5. ASSUME CachedPassed, field' = field, root' \in {root, AfterRead}
      PROVE  CachedPassed'
  BY <1>4, <1>5 DEF TypeOK, CachedPassed, AfterRead, ReadRelation
<1> QED
  BY <1>1, <1>2, <1>5 DEF TypeOK, AfterRead

\* A resolution that ends with what the relation leads to now keeps the
\* invariant.
LEMMA AnswerLeading ==
    ASSUME TypeOK, CachedPassed, Asks, root' = root, Answer("relation", Load(Leading))
    PROVE  RelationInv'
<1>1. Leading \in SUBSET Targets
  BY ReadType
<1>2. Load(Leading) \in SUBSET Instance
  BY <1>1, LoadType DEF TypeOK
<1>3. TypeOK'
  BY <1>1, <1>2 DEF TypeOK, Asks, Answer
<1>4. \A i \in Load(Leading) : i.visible
  BY DEF Load, Leading
<1>5. ShownPassed'
  BY <1>4 DEF ShownPassed, Answer
<1>6. Shown' = Leading
  BY LoadOf DEF Shown, Answer
<1>7. AnswerOfOneMoment'
  BY <1>6 DEF AnswerOfOneMoment, Asks
<1>8. NodeIsOnRoot'
  BY DEF NodeIsOnRoot, Answer
<1>9. CachedPassed'
  BY DEF CachedPassed, Asks
<1> QED
  BY <1>3, <1>5, <1>7, <1>8, <1>9 DEF RelationInv

\* So does one that ends with what a resolver says.
LEMMA AnswerUnchecked ==
    ASSUME TypeOK, TypeOK', CachedPassed', NEW shown, Answer("resolver", shown)
    PROVE  RelationInv'
  BY DEF RelationInv, ShownPassed, AnswerOfOneMoment, NodeIsOnRoot, Answer

\* A root that was just loaded satisfies the invariant.
LEMMA InitInv ==
    ASSUME Init
    PROVE  RelationInv
<1>1. rows \in [Targets -> Row] /\ field \in Field
  BY DEF Init
<1>2. PICK key \in Targets \cup {None}, loaded \in BOOLEAN :
        root = [key |-> key, loaded |-> loaded,
                cached |-> IF loaded THEN Load(RelatedBy(key)) ELSE {}]
  BY TargetsAssumption DEF Init
<1>3. Load(RelatedBy(key)) \in SUBSET Instance
  BY <1>1, LoadType DEF RelatedBy
<1>4. root \in [key : Targets \cup {None}, loaded : BOOLEAN, cached : SUBSET Instance]
  BY <1>2, <1>3
<1>5. TypeOK
  BY <1>1, <1>4 DEF Init, TypeOK
<1>6. CachedPassed
  <2>1. field.queryset = "returned" => \A t : Passes(t)
    BY DEF Passes
  <2> QED
    BY <1>2, <2>1 DEF CachedPassed, Load
<1> QED
  BY <1>5, <1>6 DEF Init, RelationInv, ShownPassed, AnswerOfOneMoment, NodeIsOnRoot

\* Each step keeps it.
LEMMA NextInv ==
    ASSUME KeyIsPrimary, RelationInv, [Next]_vars
    PROVE  RelationInv'
<1> USE DEF RelationInv
<1>1. CASE ResolveUnchecked
  <2>1. ReadRelation \in SUBSET Instance /\ Leading \in SUBSET Targets
    BY ReadType
  <2>2. PICK shown \in SUBSET Instance : Answer("resolver", shown)
    BY <1>1, <2>1 DEF ResolveUnchecked
  <2>3. root' \in [key : Targets \cup {None}, loaded : BOOLEAN, cached : SUBSET Instance]
    BY <1>1, ReadType DEF ResolveUnchecked, TypeOK
  <2>4. TypeOK'
    BY <1>1, <2>1, <2>2, <2>3 DEF TypeOK, ResolveUnchecked, Asks, Answer
  <2>5. CachedPassed'
    BY <1>1, ReadType DEF ResolveUnchecked, Asks
  <2> QED
    BY <2>2, <2>4, <2>5, AnswerUnchecked
<1>2. CASE ResolveForward
  <2>1. GetNode = Load(Leading) /\ Leading \in SUBSET Targets
    BY <1>2, NodeIsLeading, ReadType DEF ResolveForward
  <2>2. CASE GetNode = {} \/ field.resolver = "default"
    <3>1. Asks /\ root' = root /\ Answer("relation", Load(Leading))
      BY <1>2, <2>1, <2>2 DEF ResolveForward
    <3> QED
      BY <3>1, AnswerLeading
  <2>3. CASE ~(GetNode = {} \/ field.resolver = "default")
    <3>1. PICK node \in GetNode : root' = Remember(node)
      BY <1>2, <2>3 DEF ResolveForward
    <3>2. /\ field.kind = "forward" /\ Checked /\ moments' = {Leading}
          /\ pc' = "resolver" /\ UNCHANGED <<rows, field, answer>>
      BY <1>2, <2>3 DEF ResolveForward, Asks
    <3>3. node \in Instance
      BY <2>1, LoadType DEF TypeOK
    <3>4. node.of = root.key /\ node.visible /\ node.of \in Leading
      BY <2>1, LoadOf DEF GetNode, Load
    <3>5. Leading = {node.of}
      <4>1. \A t \in Leading : t = root.key
        BY <3>2 DEF KeyIsPrimary, Leading, Related, RelatedBy
      <4> QED
        BY <3>4, <4>1
    <3>6. root' = [key |-> KeyOf[node.of], loaded |-> TRUE, cached |-> {node}]
      BY <3>1 DEF Remember
    <3>7. KeyOf[node.of] \in Targets
      BY <3>3, TargetsAssumption DEF Instance
    <3>8. TypeOK'
      BY <2>1, <3>2, <3>3, <3>6, <3>7 DEF TypeOK
    <3>9. NodeIsOnRoot'
      BY <3>2, <3>3, <3>4, <3>5, <3>6 DEF NodeIsOnRoot, Checked, Custom
    <3>10. CachedPassed'
      BY <3>2, <3>4, <3>6 DEF CachedPassed
    <3> QED
      BY <3>2, <3>8, <3>9, <3>10 DEF ShownPassed, AnswerOfOneMoment, Custom
  <2> QED
    BY <2>2, <2>3
<1>3. CASE OwnResolver
  <2>1. PICK node \in Instance :
          root.cached = {node} /\ node.visible /\ {node.of} \in moments
    BY <1>3 DEF OwnResolver, NodeIsOnRoot
  <2>2. root.loaded /\ ReadRelation = {node}
    BY <1>3, <2>1 DEF OwnResolver, NodeIsOnRoot, ReadRelation
  <2>3. root' \in [key : Targets \cup {None}, loaded : BOOLEAN, cached : SUBSET Instance]
    BY <1>3, ReadType DEF OwnResolver, TypeOK
  <2>6. CachedPassed'
    BY <1>3, ReadType DEF OwnResolver
  <2>4. CASE Answer("relation", ReadRelation)
    <3>1. TypeOK'
      BY <1>3, <2>2, <2>3, <2>4 DEF TypeOK, OwnResolver, Answer
    <3>2. ShownPassed'
      BY <2>1, <2>2, <2>4 DEF ShownPassed, Answer
    <3>3. Shown' = {node.of}
      BY <2>2, <2>4 DEF Shown, Answer
    <3>4. AnswerOfOneMoment'
      BY <1>3, <2>1, <3>3 DEF AnswerOfOneMoment, OwnResolver
    <3> QED
      BY <2>4, <2>6, <3>1, <3>2, <3>4 DEF NodeIsOnRoot, Answer
  <2>5. CASE Answer("resolver", {})
    <3>1. TypeOK'
      BY <1>3, <2>3, <2>5 DEF TypeOK, OwnResolver, Answer
    <3> QED
      BY <2>5, <2>6, <3>1, AnswerUnchecked
  <2> QED
    BY <1>3, <2>4, <2>5 DEF OwnResolver
<1>4. CASE ResolveReverse
  <2>1. GetReverse = Load(Leading)
    BY <1>4, ReverseIsLeading DEF ResolveReverse
  <2> QED
    BY <1>4, <2>1, AnswerLeading DEF ResolveReverse
<1>5. CASE ResolveList
  <2>1. Asks /\ root' = root /\ CachedPassed'
    BY <1>5 DEF ResolveList, Asks, CachedPassed
  <2>2. CASE Answer("relation", Load(Leading))
    BY <2>1, <2>2, AnswerLeading
  <2>3. CASE Answer("resolver", ReadRelation)
    <3>1. TypeOK'
      BY <2>1, <2>3, ReadType DEF TypeOK, Asks, Answer
    <3> QED
      BY <2>1, <2>3, <3>1, AnswerUnchecked
  <2>4. CASE Answer("manager", Load({t \in Targets : rows[t].here /\ Passes(t)}))
    <3> DEFINE T == {t \in Targets : rows[t].here /\ Passes(t)}
    <3>1. Load(T) \in SUBSET Instance
      BY LoadType DEF TypeOK
    <3>2. \A i \in Load(T) : i.visible
      BY DEF Load
    <3>3. answer' = [way |-> "manager", shown |-> Load(T)] /\ pc' = "idle"
      BY <2>4 DEF Answer
    <3> HIDE DEF T
    <3>4. TypeOK'
      BY <2>1, <3>1, <3>3, ReadType DEF TypeOK, Asks
    <3>5. ShownPassed' /\ AnswerOfOneMoment' /\ NodeIsOnRoot'
      BY <2>1, <3>2, <3>3 DEF ShownPassed, AnswerOfOneMoment, NodeIsOnRoot, Asks
    <3> QED
      BY <2>1, <3>4, <3>5
  <2>5. CASE /\ field.queryset = "returned" /\ root.loaded
             /\ Answer("prefetched", root.cached)
    <3>1. answer' = [way |-> "prefetched", shown |-> root.cached] /\ pc' = "idle"
      BY <2>5 DEF Answer
    <3>2. TypeOK'
      BY <2>1, <3>1, ReadType DEF TypeOK, Asks
    <3>3. \A i \in root.cached : i.visible
      BY <2>5 DEF CachedPassed
    <3>4. ShownPassed' /\ AnswerOfOneMoment' /\ NodeIsOnRoot'
      BY <2>1, <3>1, <3>3 DEF ShownPassed, AnswerOfOneMoment, NodeIsOnRoot, Asks
    <3> QED
      BY <2>1, <3>2, <3>4
  <2> QED
    BY <1>5, <2>2, <2>3, <2>4, <2>5 DEF ResolveList
<1>6. CASE Write
  <2>1. rows' \in [Targets -> Row] /\ UNCHANGED <<field, root, pc, answer>>
    BY <1>6 DEF Write, TypeOK
  <2>2. Leading' \in SUBSET Targets
    BY DEF Leading, Related, RelatedBy
  <2>3. moments \subseteq moments' /\ moments' \subseteq SUBSET Targets
    BY <1>6, <2>2 DEF Write, TypeOK
  <2>4. TypeOK'
    BY <2>1, <2>3 DEF TypeOK
  <2>5. ShownPassed' /\ AnswerOfOneMoment'
    BY <2>1, <2>3 DEF ShownPassed, AnswerOfOneMoment, Shown, Custom
  <2>6. NodeIsOnRoot'
    BY <2>1, <2>3 DEF NodeIsOnRoot, Checked, Custom
  <2>7. CachedPassed'
    BY <2>1 DEF CachedPassed
  <2> QED
    BY <2>4, <2>5, <2>6, <2>7
<1>7. CASE UNCHANGED vars
  BY <1>7 DEF vars, TypeOK, ShownPassed, AnswerOfOneMoment, NodeIsOnRoot, Checked, Shown, CachedPassed, Custom
<1> QED
  BY <1>1, <1>2, <1>3, <1>4, <1>5, <1>6, <1>7 DEF Next

\* The invariant holds in every reachable state, for any targets.
THEOREM RelationInduction ==
    ASSUME KeyIsPrimary
    PROVE  Spec => []RelationInv
<1>1. Init => RelationInv
  BY InitInv
<1>2. RelationInv /\ [Next]_vars => RelationInv'
  BY NextInv
<1> QED
  BY <1>1, <1>2, PTL DEF Spec

\* An instance shown by a field that get_queryset filters passed it: no cached
\* instance and no later version of the row takes its place.
THEOREM OnlyPassedShown ==
    ASSUME KeyIsPrimary
    PROVE  Spec => []ShownPassed
<1>1. RelationInv => ShownPassed
  BY DEF RelationInv
<1> QED
  BY <1>1, RelationInduction, PTL

\* Such a field shows what its relation led to at one moment of its resolution,
\* whatever other clients write.
THEOREM ShownAtOneMoment ==
    ASSUME KeyIsPrimary
    PROVE  Spec => []AnswerOfOneMoment
<1>1. RelationInv => AnswerOfOneMoment
  BY DEF RelationInv
<1> QED
  BY <1>1, RelationInduction, PTL
=============================================================================
