-------------------------- MODULE GraphQLViewProofs --------------------------
(***************************************************************************)
(* Theorems about GraphQLView for every number of entries and fields.      *)
(***************************************************************************)
EXTENDS GraphQLViewProps, SequenceTheorems, TLAPS

(* Facts about the operators of DjangoTransaction, for every set of writes *)
(* and every nesting of atomic blocks.                                     *)

\* Entering a block yields a connection.
LEMMA EnterAtomicType ==
    ASSUME NEW W, NEW c \in Connection(W)
    PROVE  EnterAtomic(c) \in Connection(W)
<1>1. /\ c.work \in SUBSET W /\ c.savepoint_ids \in Seq(SUBSET SUBSET W)
  BY DEF Connection
<1>2. Savepoint(c) \in SUBSET SUBSET W  BY <1>1 DEF Savepoint
<1>3. Append(c.savepoint_ids, Savepoint(c)) \in Seq(SUBSET SUBSET W)
  BY <1>1, <1>2, AppendProperties
<1>4. QED  BY <1>3 DEF EnterAtomic, Connection

\* Dropping the innermost savepoint leaves a stack of savepoints.
LEMMA PopType ==
    ASSUME NEW W, NEW c \in Connection(W), ~Outermost(c)
    PROVE  /\ Pop(c) \in Seq(SUBSET SUBSET W)
           /\ Innermost(c) \in SUBSET SUBSET W
           /\ Len(Pop(c)) = Len(c.savepoint_ids) - 1
<1>1. c.savepoint_ids \in Seq(SUBSET SUBSET W)  BY DEF Connection
<1>2. Len(c.savepoint_ids) \in Nat \ {0}
  BY <1>1, EmptySeq, LenProperties DEF Outermost
<1>3. QED  BY <1>1, <1>2, SubSeqProperties, ElementOfSeq DEF Pop, Innermost

\* Committing a block yields a connection.
LEMMA CommitType ==
    ASSUME NEW W, NEW c \in Connection(W)
    PROVE  Commit(c) \in Connection(W)
<1>1. CASE Outermost(c)  BY <1>1 DEF Commit, Autocommit, Connection
<1>2. CASE ~Outermost(c)
  <2>1. Pop(c) \in Seq(SUBSET SUBSET W)  BY <1>2, PopType
  <2>2. QED  BY <1>2, <2>1 DEF Commit, Connection
<1>3. QED  BY <1>1, <1>2

\* Rolling a block back yields a connection.
LEMMA RollbackType ==
    ASSUME NEW W, NEW c \in Connection(W)
    PROVE  Rollback(c) \in Connection(W)
<1>1. CASE Outermost(c)  BY <1>1 DEF Rollback, Autocommit, Connection
<1>2. CASE ~Outermost(c)
  <2>1. Pop(c) \in Seq(SUBSET SUBSET W) /\ UNION Innermost(c) \in SUBSET W
    BY <1>2, PopType
  <2>2. QED  BY <1>2, <2>1 DEF Rollback, Connection
<1>3. QED  BY <1>1, <1>2

\* So does leaving a block, whatever the database says to the commit.
LEMMA ExitAtomicType ==
    ASSUME NEW W, NEW c \in Connection(W), NEW refuses \in BOOLEAN
    PROVE  ExitAtomic(c, refuses) \in Connection(W)
  BY CommitType, RollbackType DEF ExitAtomic

\* And so do the operations inside a block.
LEMMA OperationTypes ==
    ASSUME NEW W, NEW c \in Connection(W), NEW w \in W
    PROVE  /\ SetRollback(c) \in Connection(W)
           /\ Save(c, w) \in Connection(W)
           /\ SaveFails(c) \in Connection(W)
           /\ Lose(c) \in Connection(W)
<1>1. SetRollback(c) \in Connection(W)  BY DEF SetRollback, Connection
<1>2. Save(c, w) \in Connection(W)
  <2>1. c.work \cup {w} \in SUBSET W /\ c.db \cup {w} \in SUBSET W  BY DEF Connection
  <2>2. QED  BY <2>1 DEF Save, Connection
<1>3. SaveFails(c) \in Connection(W)
  <2>1. (c.needs_rollback \/ c.in_atomic_block) \in BOOLEAN  OBVIOUS
  <2>2. QED  BY <2>1 DEF SaveFails, Connection
<1>4. Lose(c) \in Connection(W)
  BY EmptySeq DEF Lose, Autocommit, Connection
<1>5. QED  BY <1>1, <1>2, <1>3, <1>4

-----------------------------------------------------------------------------
\* Entering the outermost block begins a transaction on a clean connection.
LEMMA EnterOutermost ==
    ASSUME NEW W, NEW c \in Connection(W), ~c.in_atomic_block
    PROVE  LET d == EnterAtomic(c) IN
           /\ d.db = c.db /\ d.work = c.work /\ d.savepoint_ids = c.savepoint_ids
           /\ d.in_atomic_block /\ ~d.needs_rollback
  BY DEF EnterAtomic, Connection

\* Entering an inner block only pushes a savepoint.
LEMMA EnterInner ==
    ASSUME NEW W, NEW c \in Connection(W), c.in_atomic_block
    PROVE  LET d == EnterAtomic(c) IN
           /\ d.db = c.db /\ d.work = c.work /\ d.in_atomic_block
           /\ d.needs_rollback <=> c.needs_rollback
           /\ Len(d.savepoint_ids) = Len(c.savepoint_ids) + 1
           /\ Innermost(d) = Savepoint(c)
<1>1. /\ c.work \in SUBSET W /\ c.savepoint_ids \in Seq(SUBSET SUBSET W)
  BY DEF Connection
<1>2. Savepoint(c) \in SUBSET SUBSET W  BY <1>1 DEF Savepoint
<1>3. LET s == Append(c.savepoint_ids, Savepoint(c)) IN
      Len(s) = Len(c.savepoint_ids) + 1 /\ s[Len(s)] = Savepoint(c)
  BY <1>1, <1>2, AppendProperties, LenProperties
<1>4. QED  BY <1>3 DEF EnterAtomic, Innermost, Connection

\* Leaving the outermost block ends the transaction: everything or nothing.
LEMMA ExitOutermost ==
    ASSUME NEW W, NEW c \in Connection(W), Outermost(c), NEW refuses \in BOOLEAN
    PROVE  /\ ExitAtomic(c, refuses) =
                Autocommit(IF c.needs_rollback \/ refuses THEN c.db ELSE c.work)
           /\ Rollback(c) = Autocommit(c.db)
  BY DEF ExitAtomic, Commit, Rollback

\* Leaving an inner block never reaches the database, and keeps the outer
\* transaction lost when the block had no savepoint to return to.
LEMMA ExitInner ==
    ASSUME NEW W, NEW c \in Connection(W), ~Outermost(c), NEW refuses \in BOOLEAN
    PROVE  LET d == ExitAtomic(c, refuses) IN
           /\ d.db = c.db /\ (d.in_atomic_block <=> c.in_atomic_block)
           /\ Len(d.savepoint_ids) = Len(c.savepoint_ids) - 1
           /\ ~c.needs_rollback /\ ~refuses => d.work = c.work /\ ~d.needs_rollback
           /\ c.needs_rollback /\ Innermost(c) = {} => d.needs_rollback
<1>1. Len(Pop(c)) = Len(c.savepoint_ids) - 1  BY PopType
<1>2. QED  BY <1>1 DEF ExitAtomic, Commit, Rollback, Connection

\* Autocommit is what a connection is outside every block.
LEMMA AutocommitFields ==
    ASSUME NEW D
    PROVE  LET c == Autocommit(D) IN
           /\ c.db = D /\ c.work = D /\ ~c.in_atomic_block
           /\ c.savepoint_ids = <<>> /\ Len(c.savepoint_ids) = 0
           /\ ~c.needs_rollback
  BY EmptySeq DEF Autocommit
-----------------------------------------------------------------------------
(* The view.                                                               *)

\* The connection a request starts with is one.
LEMMA AutocommitType == Autocommit({}) \in Connection(Fields)
  BY EmptySeq DEF Autocommit, Connection

\* What resolving a mutation field can amount to.
LEMMA OutcomeType ==
    ASSUME NEW broken \in BOOLEAN, NEW o \in Outcomes[broken]
    PROVE  o \in Outcome /\ (o.refused => o.data = "null")
<1> DEFINE Good == {x \in Outcome : x.refused => x.data = "null"}
<1>1. PICK in \in MutationInput : o = Mutate(in, broken)  BY DEF Outcomes
<1>2. \A saved_, refused_ \in BOOLEAN : Raises(saved_, refused_) \in Good
  BY DEF Raises, Outcome
<1>3. \A data \in {"payload", "errors"}, s, g \in BOOLEAN : Returns(data, s, g) \in Good
  BY DEF Returns, Outcome
<1>4. (broken \/ in.save = "refused") \in BOOLEAN  OBVIOUS
<1>5. SaveAndReturn(in, broken) \in Good
  BY <1>2, <1>3, <1>4 DEF SaveAndReturn
<1>6. PerformFormMutate(in, broken) \in Good
  BY <1>2, <1>3, <1>5 DEF PerformFormMutate
<1>7. FormErrors(in) \in Good
  BY <1>3 DEF FormErrors, Raises, Outcome
<1>8. FormMutate(in, broken) \in Good
  BY <1>2, <1>6, <1>7 DEF FormMutate
<1>9. SerializerMutate(in, broken) \in Good
  BY <1>2, <1>3, <1>5 DEF SerializerMutate, SerializerErrors
<1>10. QED  BY <1>1, <1>8, <1>9 DEF Mutate

-----------------------------------------------------------------------------
\* dispatch loops over no more entries than a body may hold.
LEMMA EntryCountType == TypeOK => EntryCount \in 0..MaxEntries
  BY EntriesAssumption DEF TypeOK, EntryCount, Request

\* A request arrives with every variable typed.
LEMMA InitTypeOK == Init => TypeOK
<1> SUFFICES ASSUME Init PROVE TypeOK
  OBVIOUS
<1>1. <<>> \in Seq(Response)  BY EmptySeq
<1>2. cur \in 0..MaxEntries /\ field \in 1..(MaxFields + 1)
  BY EntriesAssumption, FieldsAssumption DEF Init
<1>3. results \in [Fields -> Results]  BY DEF Init, Results
<1>4. conn \in Connection(Fields)  BY AutocommitType DEF Init
<1>5. QED  BY <1>1, <1>2, <1>3, <1>4 DEF Init, TypeOK, Phases, Answers, Errors

\* Every step of the handler keeps the types; where the handler is bounds cur
\* and field.
LEMMA NextTypeOK == TypeOK /\ Position /\ [Next]_vars => TypeOK'
<1> SUFFICES ASSUME TypeOK, Position, [Next]_vars PROVE TypeOK'
  OBVIOUS
<1> USE EntriesAssumption, FieldsAssumption
<1>1. CASE EnterView
  <2>1. conn' \in Connection(Fields)  BY <1>1, EnterAtomicType DEF EnterView, TypeOK
  <2>2. QED  BY <1>1, <2>1 DEF EnterView, TypeOK, execution, Phases
<1>2. CASE RefuseMethod \/ RefuseBody \/ RenderGraphiQL
  BY <1>2 DEF RefuseMethod, RefuseBody, RenderGraphiQL, Respond, TypeOK, execution,
    Phases, Answers
<1>3. CASE BeginResponses
  <2>1. EntryCount # 0 => 1 \in 0..MaxEntries  BY EntryCountType
  <2>2. QED  BY <1>3 DEF BeginResponses, Respond, TypeOK, Phases, Answers
<1>4. CASE RaiseOnEntry
  BY <1>4 DEF RaiseOnEntry, TypeOK, execution, Phases
<1>5. CASE RejectEntry
  BY <1>5 DEF RejectEntry, Respond, TypeOK, execution, Phases, Answers
<1>6. CASE FailEntry
  BY <1>6 DEF FailEntry, TypeOK, Phases, Errors
<1>7. CASE BeginExecute
  <2>1. PICK e \in Entry :
          /\ entry' = e
          /\ errors' = IF e.binds THEN {} ELSE {"no_path"}
          /\ field' = IF e.binds /\ e.operation = "mutation" THEN 1 ELSE e.fields + 1
          /\ conn' = IF InTransaction(e) THEN EnterAtomic(conn) ELSE conn
    BY <1>7 DEF BeginExecute, PossibleEntries
  <2>2. conn' \in Connection(Fields)  BY <2>1, EnterAtomicType DEF TypeOK
  <2>3. e.fields \in 1..MaxFields  BY DEF Entry
  <2>4. field' \in 1..(MaxFields + 1)  BY <2>1, <2>3
  <2>5. errors' \subseteq Errors  BY <2>1 DEF Errors
  <2>6. QED  BY <1>7, <2>1, <2>2, <2>4, <2>5 DEF BeginExecute, TypeOK, Phases
<1>8. CASE ResolveMutationField
  <2> DEFINE f == <<cur, field>>
  <2>1. cur \in 1..MaxEntries /\ field \in 1..MaxFields /\ entry.fields \in 1..MaxFields
    BY <1>8, EntryCountType DEF ResolveMutationField, Position, TypeOK, Entry
  <2>2. f \in Fields  BY <2>1 DEF Fields
  <2>3. PICK o \in Outcomes[conn.needs_rollback] :
          /\ results' = [results EXCEPT ![f] = o.data]
          /\ flag' = (flag \/ o.flagged)
          /\ saved' = IF o.saved THEN saved \cup {f} ELSE saved
          /\ conn' = IF o.saved THEN Save(conn, f)
                     ELSE IF o.refused THEN SaveFails(conn) ELSE conn
          /\ errors' = IF o.data = "null" THEN errors \cup {"path"} ELSE errors
          /\ field' = IF o.data = "null" /\ entry.required
                      THEN entry.fields + 1 ELSE field + 1
    BY <1>8 DEF ResolveMutationField
  <2>4. o \in Outcome  BY OutcomeType DEF TypeOK, Connection
  <2>5. results' \in [Fields -> Results]  BY <2>2, <2>3, <2>4 DEF TypeOK, Outcome, Results
  <2>6. flag' \in BOOLEAN /\ saved' \subseteq Fields /\ errors' \subseteq Errors
    BY <2>2, <2>3, <2>4 DEF TypeOK, Errors
  <2>7. conn' \in Connection(Fields)  BY <2>2, <2>3, <2>4, OperationTypes DEF TypeOK, Outcome
  <2>8. field' \in 1..(MaxFields + 1)  BY <2>1, <2>3
  <2>9. QED  BY <1>8, <2>5, <2>6, <2>7, <2>8 DEF ResolveMutationField, TypeOK
<1>9. CASE EndQuery
  <2>1. errors' \in {errors, {}, {"path"}}  BY <1>9 DEF EndQuery
  <2>2. QED  BY <1>9, <2>1 DEF EndQuery, TypeOK, Phases, Errors
<1>10. CASE EndMutation
  <2>1. conn' \in Connection(Fields)
    <3>1. MarkIfFlagged(conn) \in Connection(Fields)
      BY DEF TypeOK, MarkIfFlagged, SetRollback, Connection
    <3>2. QED  BY <1>10, <3>1, ExitAtomicType DEF EndMutation, TypeOK
  <2>2. errors' \in {errors, {"no_path"}}  BY <1>10 DEF EndMutation
  <2>3. QED  BY <1>10, <2>1, <2>2 DEF EndMutation, TypeOK, Phases, Errors
<1>11. CASE FinishEntry
  <2>1. conn' \in Connection(Fields)
    BY <1>11 DEF FinishEntry, SetRollbackOfRequest, SetRollback, TypeOK, Connection
  <2>2. responses' \in Seq(Response)
    <3>1. [errors |-> errors, status |-> StatusCode] \in Response
      BY DEF TypeOK, Response, StatusCode
    <3>2. QED  BY <1>11, <3>1, AppendProperties DEF FinishEntry, TypeOK
  <2>3. cur' \in 0..MaxEntries  BY <1>11, EntryCountType DEF FinishEntry, TypeOK
  <2>4. /\ phase' \in Phases /\ answer' \in Answers
        /\ http' \in {0, 200, 400, 405, 500}
    BY <1>11 DEF FinishEntry, Respond, HighestStatus, TypeOK, Phases, Answers
  <2>5. QED  BY <1>11, <2>1, <2>2, <2>3, <2>4 DEF FinishEntry, TypeOK
<1>12. CASE LeaveView
  <2>1. conn' \in Connection(Fields)  BY <1>12, ExitAtomicType DEF LeaveView, TypeOK
  <2>2. QED  BY <1>12, <2>1 DEF LeaveView, TypeOK, execution, Phases, Answers
<1>13. CASE LeaveViewRaising
  <2>1. conn' \in Connection(Fields)
    BY <1>13, RollbackType DEF LeaveViewRaising, TypeOK
  <2>2. QED  BY <1>13, <2>1 DEF LeaveViewRaising, TypeOK, execution, Phases, Answers
<1>14. CASE Crash
  <2>1. conn' \in Connection(Fields)
    BY <1>14, EmptySeq DEF Crash, TypeOK, Lose, Autocommit, Connection
  <2>2. QED  BY <1>14, <2>1 DEF Crash, TypeOK, execution, Phases
<1>15. CASE UNCHANGED vars
  BY <1>15 DEF vars, TypeOK
<1>16. QED
  BY <1>1, <1>2, <1>3, <1>4, <1>5, <1>6, <1>7, <1>8, <1>9, <1>10, <1>11, <1>12,
     <1>13, <1>14, <1>15 DEF Next, Handle

-----------------------------------------------------------------------------
\* A request arrives before any entry.
LEMMA InitPosition == Init => Position
  BY DEF Init, Position

\* Every step moves the handler as Position says: one response per entry that
\* is over, and fields resolved only for a mutation the method allows.
LEMMA NextPosition == TypeOK /\ Position /\ [Next]_vars => Position'
<1> SUFFICES ASSUME TypeOK, Position, [Next]_vars PROVE Position'
  OBVIOUS
<1> USE EntriesAssumption, FieldsAssumption DEF Position
<1>0. EntryCount' = EntryCount \/ ~UNCHANGED <<settings, request>>
  BY DEF EntryCount
<1>1. CASE EnterView
  BY <1>1 DEF EnterView, execution
<1>2. CASE RefuseMethod \/ RefuseBody \/ RenderGraphiQL
  BY <1>2 DEF RefuseMethod, RefuseBody, RenderGraphiQL, Respond, execution
<1>3. CASE BeginResponses
  BY <1>0, <1>3, EntryCountType, EmptySeq DEF BeginResponses, Respond
<1>4. CASE RaiseOnEntry
  BY <1>4 DEF RaiseOnEntry, execution
<1>5. CASE RejectEntry
  BY <1>5 DEF RejectEntry, Respond, execution
<1>6. CASE FailEntry
  BY <1>0, <1>6 DEF FailEntry
<1>7. CASE BeginExecute
  <2>1. PICK e \in Entry :
          /\ ~NotAllowed(e) /\ entry' = e
          /\ field' = IF e.binds /\ e.operation = "mutation" THEN 1 ELSE e.fields + 1
    BY <1>7 DEF BeginExecute, PossibleEntries
  <2>2. e.fields \in 1..MaxFields  BY DEF Entry
  <2>3. ~NotAllowed(e)'  BY <1>7, <2>1 DEF BeginExecute, NotAllowed
  <2>4. QED  BY <1>0, <1>7, <2>1, <2>2, <2>3 DEF BeginExecute
<1>8. CASE ResolveMutationField
  <2>1. entry.fields \in 1..MaxFields  BY <1>8 DEF ResolveMutationField, Entry
  <2>2. field' \in {field + 1, entry.fields + 1}  BY <1>8 DEF ResolveMutationField
  <2>3. NotAllowed(entry)' = NotAllowed(entry)
    BY <1>8 DEF ResolveMutationField, NotAllowed
  <2>4. QED  BY <1>0, <1>8, <2>1, <2>2, <2>3 DEF ResolveMutationField
<1>9. CASE EndQuery
  BY <1>0, <1>9 DEF EndQuery
<1>10. CASE EndMutation
  BY <1>0, <1>10 DEF EndMutation
<1>11. CASE FinishEntry
  <2>1. Len(responses') = Len(responses) + 1  BY <1>11 DEF FinishEntry, TypeOK
  <2>2. QED  BY <1>0, <1>11, <2>1, EntryCountType DEF FinishEntry, Respond, TypeOK
<1>12. CASE LeaveView
  BY <1>12 DEF LeaveView, execution
<1>13. CASE LeaveViewRaising
  BY <1>13 DEF LeaveViewRaising, execution
<1>14. CASE Crash
  BY <1>14 DEF Crash, execution
<1>15. CASE UNCHANGED vars
  BY <1>0, <1>15 DEF vars, NotAllowed
<1>16. QED
  BY <1>1, <1>2, <1>3, <1>4, <1>5, <1>6, <1>7, <1>8, <1>9, <1>10, <1>11, <1>12,
     <1>13, <1>14, <1>15 DEF Next, Handle

-----------------------------------------------------------------------------
\* A block is the outermost if and only if no savepoint is on the stack.
LEMMA OutermostLen ==
    ASSUME NEW c \in Connection(Fields)
    PROVE  Outermost(c) <=> Len(c.savepoint_ids) = 0
  BY EmptySeq DEF Outermost, Connection

\* Marking changes nothing but the mark.
LEMMA MarkIfFlaggedEffect ==
    ASSUME TypeOK
    PROVE  /\ MarkIfFlagged(conn) \in Connection(Fields)
           /\ MarkIfFlagged(conn).db = conn.db
           /\ MarkIfFlagged(conn).work = conn.work
           /\ MarkIfFlagged(conn).savepoint_ids = conn.savepoint_ids
           /\ MarkIfFlagged(conn).in_atomic_block <=> conn.in_atomic_block
           /\ MarkIfFlagged(conn).needs_rollback <=> (conn.needs_rollback \/ flag)
<1>1. conn \in Connection(Fields) /\ flag \in BOOLEAN
  BY DEF TypeOK
<1>2. CASE flag
  <2>1. MarkIfFlagged(conn) = [conn EXCEPT !.needs_rollback = TRUE]
    BY <1>2 DEF MarkIfFlagged, SetRollback
  <2>2. QED  BY <1>1, <1>2, <2>1 DEF Connection
<1>3. CASE ~flag
  <2>1. MarkIfFlagged(conn) = conn
    BY <1>3 DEF MarkIfFlagged
  <2>2. QED  BY <1>1, <1>3, <2>1
<1>4. QED  BY <1>2, <1>3

\* Leaving the mutation's block inside the request's.
LEMMA LeaveInnerBlock ==
    ASSUME TypeOK, Len(conn.savepoint_ids) = 1, NEW refuses \in BOOLEAN
    PROVE  LET d == ExitAtomic(MarkIfFlagged(conn), refuses) IN
           /\ d.db = conn.db
           /\ d.in_atomic_block <=> conn.in_atomic_block
           /\ Len(d.savepoint_ids) = 0
           /\ ~conn.needs_rollback /\ ~flag /\ ~refuses =>
                d.work = conn.work /\ ~d.needs_rollback
           /\ (conn.needs_rollback \/ flag) /\ Innermost(conn) = {} => d.needs_rollback
<1> DEFINE m == MarkIfFlagged(conn)
<1>0. m \in Connection(Fields)  BY MarkIfFlaggedEffect
<1>1. /\ m.savepoint_ids = conn.savepoint_ids
      /\ m.db = conn.db /\ m.work = conn.work
      /\ m.in_atomic_block <=> conn.in_atomic_block
      /\ m.needs_rollback <=> conn.needs_rollback \/ flag
  BY MarkIfFlaggedEffect
<1>2. Len(m.savepoint_ids) = 1  BY <1>1
<1>3. ~Outermost(m)  BY <1>0, <1>2, OutermostLen
<1>4. Innermost(m) = Innermost(conn)  BY <1>1 DEF Innermost
<1> HIDE DEF m
<1>a. Len(ExitAtomic(m, refuses).savepoint_ids) = Len(m.savepoint_ids) - 1
  BY <1>0, <1>3, ExitInner
<1>b. Len(ExitAtomic(m, refuses).savepoint_ids) = 0  BY <1>2, <1>a
<1>5. LET d == ExitAtomic(m, refuses) IN
      /\ d.db = m.db
      /\ d.in_atomic_block <=> m.in_atomic_block
      /\ ~m.needs_rollback /\ ~refuses => d.work = m.work /\ ~d.needs_rollback
      /\ m.needs_rollback /\ Innermost(m) = {} => d.needs_rollback
  BY <1>0, <1>3, ExitInner
<1>6. LET d == ExitAtomic(m, refuses) IN
      /\ d.db = conn.db
      /\ d.in_atomic_block <=> conn.in_atomic_block
      /\ Len(d.savepoint_ids) = 0
      /\ ~conn.needs_rollback /\ ~flag /\ ~refuses =>
           d.work = conn.work /\ ~d.needs_rollback
      /\ (conn.needs_rollback \/ flag) /\ Innermost(conn) = {} => d.needs_rollback
  BY <1>1, <1>4, <1>5, <1>b
<1>7. QED  BY <1>6 DEF m

\* Leaving the mutation's block when it is the only one.
LEMMA LeaveOnlyBlock ==
    ASSUME TypeOK, Len(conn.savepoint_ids) = 0, NEW refuses \in BOOLEAN
    PROVE  ExitAtomic(MarkIfFlagged(conn), refuses) =
             Autocommit(IF conn.needs_rollback \/ flag \/ refuses THEN conn.db ELSE conn.work)
<1> DEFINE m == MarkIfFlagged(conn)
<1>1. /\ m \in Connection(Fields) /\ m.savepoint_ids = conn.savepoint_ids
      /\ m.db = conn.db /\ m.work = conn.work
      /\ m.needs_rollback <=> conn.needs_rollback \/ flag
  BY MarkIfFlaggedEffect
<1>2. Len(m.savepoint_ids) = 0  BY <1>1
<1>3. Outermost(m)  BY <1>1, <1>2, OutermostLen
<1> HIDE DEF m
<1>4. ExitAtomic(m, refuses) = Autocommit(IF m.needs_rollback \/ refuses THEN m.db ELSE m.work)
  BY <1>1, <1>3, ExitOutermost
<1>5. ExitAtomic(m, refuses) =
        Autocommit(IF conn.needs_rollback \/ flag \/ refuses THEN conn.db ELSE conn.work)
  BY <1>1, <1>4
<1>6. QED  BY <1>5 DEF m

\* A request arrives on a connection without a block.
LEMMA InitBlocks == Init => BlocksMatchCode
  BY AutocommitFields
  DEF Init, BlocksMatchCode, InRequestBlock, InMutationBlock, Over

\* Every step opens and closes the blocks its code does.
LEMMA NextBlocks == TypeOK /\ Position /\ BlocksMatchCode /\ [Next]_vars => BlocksMatchCode'
<1> SUFFICES ASSUME TypeOK, Position, BlocksMatchCode, [Next]_vars PROVE BlocksMatchCode'
  OBVIOUS
<1> USE DEF BlocksMatchCode, InRequestBlock, InMutationBlock, Over, Position
<1>0. conn \in Connection(Fields)  BY DEF TypeOK
<1>a. ASSUME UNCHANGED settings
      PROVE  /\ AtomicView' = AtomicView
             /\ entry' = entry => InTransaction(entry)' = InTransaction(entry)
  BY <1>a DEF AtomicView, InTransaction, AtomicMutations
<1>1. CASE EnterView
  BY <1>0, <1>1, <1>a, EnterOutermost DEF EnterView, execution
<1>2. CASE RefuseMethod \/ RefuseBody \/ RenderGraphiQL
  BY <1>2, <1>a DEF RefuseMethod, RefuseBody, RenderGraphiQL, Respond, execution
<1>3. CASE BeginResponses
  BY <1>3, <1>a DEF BeginResponses, Respond
<1>4. CASE RaiseOnEntry
  BY <1>4, <1>a DEF RaiseOnEntry, execution
<1>5. CASE RejectEntry
  BY <1>5, <1>a DEF RejectEntry, Respond, execution
<1>6. CASE FailEntry
  BY <1>6, <1>a DEF FailEntry
<1>7. CASE BeginExecute
  <2>1. conn' = IF InTransaction(entry)' THEN EnterAtomic(conn) ELSE conn
    BY <1>7 DEF BeginExecute, InTransaction, AtomicMutations
  <2>2. QED
    BY <1>0, <1>7, <1>a, <2>1, EnterOutermost, EnterInner DEF BeginExecute
<1>8. CASE ResolveMutationField
  <2>1. PICK o \in Outcomes[conn.needs_rollback] :
          conn' = IF o.saved THEN Save(conn, <<cur, field>>)
                  ELSE IF o.refused THEN SaveFails(conn) ELSE conn
    BY <1>8 DEF ResolveMutationField
  <2>2. /\ conn'.in_atomic_block <=> conn.in_atomic_block
        /\ conn'.savepoint_ids = conn.savepoint_ids
        /\ ~conn.in_atomic_block => (conn'.needs_rollback <=> conn.needs_rollback)
        /\ conn.work = conn.db /\ ~conn.in_atomic_block => conn'.work = conn'.db
    <3>1. CASE o.saved
      <4>1. conn' = Save(conn, <<cur, field>>)  BY <2>1, <3>1
      <4>2. QED  BY <1>0, <4>1 DEF Save, Connection
    <3>2. CASE ~o.saved /\ o.refused
      <4>1. conn' = SaveFails(conn)  BY <2>1, <3>2
      <4>2. QED  BY <1>0, <4>1 DEF SaveFails, Connection
    <3>3. CASE ~o.saved /\ ~o.refused  BY <2>1, <3>3
    <3>4. QED  BY <3>1, <3>2, <3>3
  <2>3. QED  BY <1>8, <1>a, <2>2 DEF ResolveMutationField
<1>9. CASE EndQuery
  BY <1>9, <1>a DEF EndQuery, InTransaction
<1>10. CASE EndMutation
  <2>1. CASE InTransaction(entry)
    <3>1. PICK refuses \in BOOLEAN : conn' = ExitAtomic(MarkIfFlagged(conn), refuses)
      BY <1>10, <2>1 DEF EndMutation
    <3>2. CASE AtomicView
      <4>1. Len(conn.savepoint_ids) = 1 /\ conn.in_atomic_block
        BY <1>10, <2>1, <3>2 DEF EndMutation
      <4>2. Len(conn'.savepoint_ids) = 0 /\ conn'.in_atomic_block
        BY <3>1, <4>1, LeaveInnerBlock
      <4>3. QED  BY <1>10, <1>a, <3>2, <4>2 DEF EndMutation
    <3>3. CASE ~AtomicView
      <4>1. Len(conn.savepoint_ids) = 0  BY <1>10, <2>1, <3>3 DEF EndMutation
      <4>2. \E D : conn' = Autocommit(D)  BY <3>1, <4>1, LeaveOnlyBlock
      <4>3. QED  BY <1>10, <1>a, <3>3, <4>2, AutocommitFields DEF EndMutation
    <3>4. QED  BY <3>2, <3>3
  <2>2. CASE ~InTransaction(entry)
    BY <1>10, <1>a, <2>2 DEF EndMutation
  <2>3. QED  BY <2>1, <2>2
<1>11. CASE FinishEntry
  <2>1. /\ conn'.in_atomic_block <=> conn.in_atomic_block
        /\ conn'.savepoint_ids = conn.savepoint_ids
        /\ ~conn.in_atomic_block => conn' = conn
    BY <1>0, <1>11 DEF FinishEntry, SetRollbackOfRequest, SetRollback, Connection
  <2>2. QED  BY <1>11, <1>a, <2>1 DEF FinishEntry, Respond
<1>12. CASE LeaveView
  <2>1. Outermost(conn)  BY <1>0, <1>12, OutermostLen DEF LeaveView
  <2>2. QED
    BY <1>0, <1>12, <1>a, <2>1, ExitOutermost, AutocommitFields DEF LeaveView, execution
<1>13. CASE LeaveViewRaising
  <2>1. Outermost(conn)  BY <1>0, <1>13, OutermostLen DEF LeaveViewRaising
  <2>2. AtomicView => conn' = Autocommit(conn.db)
    BY <1>0, <1>13, <2>1, ExitOutermost DEF LeaveViewRaising
  <2>3. QED
    BY <1>13, <1>a, <2>2, AutocommitFields DEF LeaveViewRaising, execution
<1>14. CASE Crash
  BY <1>14, <1>a, AutocommitFields DEF Crash, Lose, execution
<1>15. CASE UNCHANGED vars
  BY <1>15, <1>a DEF vars
<1>16. QED
  BY <1>1, <1>2, <1>3, <1>4, <1>5, <1>6, <1>7, <1>8, <1>9, <1>10, <1>11, <1>12,
     <1>13, <1>14, <1>15 DEF Next, Handle

-----------------------------------------------------------------------------
\* A request arrives with nothing saved.
LEMMA InitIsolation == Init => Isolation
  BY AutocommitFields, EmptySeq
  DEF Init, Isolation, RequestAllOrNothing, WorkIsSavedOrDoomed, InnerBlock, StaysDoomed,
    ErrorsRollBackRequest, InRequestBlock, InMutationBlock, Over, Answered

\* Every step keeps what ATOMIC_REQUESTS promises: what was saved stays in the
\* open transaction, and a transaction that is to be dropped stays so.
LEMMA NextIsolation ==
    TypeOK /\ Position /\ BlocksMatchCode /\ Isolation /\ [Next]_vars => Isolation'
<1> SUFFICES ASSUME TypeOK, Position, BlocksMatchCode, Isolation, [Next]_vars
             PROVE  Isolation'
  OBVIOUS
<1>0. conn \in Connection(Fields)  BY DEF TypeOK
<1>a. AtomicView' = AtomicView
  BY DEF Next, Handle, vars, AtomicView, EnterView, RefuseMethod, RefuseBody,
    RenderGraphiQL, BeginResponses, RaiseOnEntry, RejectEntry, FailEntry, BeginExecute,
    ResolveMutationField, EndQuery, EndMutation, FinishEntry, LeaveView,
    LeaveViewRaising, Crash
<1>b. CASE ~AtomicView
  BY <1>a, <1>b DEF Isolation, RequestAllOrNothing, WorkIsSavedOrDoomed, InnerBlock,
    StaysDoomed, ErrorsRollBackRequest, InRequestBlock
<1>c. CASE AtomicView
  <2> USE DEF Isolation, RequestAllOrNothing, WorkIsSavedOrDoomed, InnerBlock, StaysDoomed,
        ErrorsRollBackRequest, InRequestBlock, InMutationBlock, Over, Answered
  <2>1. CASE EnterView
    <3>1. conn'.db = {} /\ conn'.work = {}
      BY <1>0, <1>c, <2>1, EnterOutermost
      DEF EnterView, BlocksMatchCode
    <3>2. saved' = {} /\ responses' = <<>> /\ ~flag'
      BY <2>1 DEF EnterView, Position, execution
    <3>3. QED  BY <1>a, <1>c, <2>1, <3>1, <3>2, EmptySeq DEF EnterView
  <2>2. CASE RefuseMethod \/ RefuseBody \/ RenderGraphiQL
    BY <1>a, <1>c, <2>2
    DEF RefuseMethod, RefuseBody, RenderGraphiQL, Respond, execution, Position
  <2>3. CASE BeginResponses
    BY <1>a, <1>c, <2>3 DEF BeginResponses, Respond, Position
  <2>4. CASE RaiseOnEntry
    BY <1>a, <1>c, <2>4 DEF RaiseOnEntry, execution
  <2>5. CASE RejectEntry
    BY <1>a, <1>c, <2>5 DEF RejectEntry, Respond, execution
  <2>6. CASE FailEntry
    BY <1>a, <1>c, <2>6 DEF FailEntry
  <2>7. CASE BeginExecute
    <3>1. /\ conn.in_atomic_block
          /\ conn.work = saved \/ conn.needs_rollback
          /\ (\E i \in Answered : responses[i].errors # {}) => conn.needs_rollback
      BY <1>c, <2>7 DEF BeginExecute, BlocksMatchCode
    <3>2. UNCHANGED <<saved, responses, flag>> /\ phase' = "executing"
      BY <2>7 DEF BeginExecute
    <3>3. CASE conn' = conn /\ ~InTransaction(entry)'
      BY <1>a, <1>c, <2>7, <3>1, <3>2, <3>3 DEF BeginExecute
    <3>4. CASE conn' = EnterAtomic(conn)
      <4>1. /\ conn'.db = conn.db /\ conn'.work = conn.work
            /\ conn'.needs_rollback <=> conn.needs_rollback
            /\ Innermost(conn') = Savepoint(conn)
        BY <1>0, <3>1, <3>4, EnterInner
      <4>2. Innermost(conn)' = {} <=> conn.needs_rollback
        BY <4>1 DEF Savepoint, Innermost
      <4>3. QED  BY <1>a, <1>c, <2>7, <3>1, <3>2, <4>1, <4>2 DEF BeginExecute
    <3>5. QED
      BY <2>7, <3>3, <3>4 DEF BeginExecute, InTransaction, AtomicMutations
  <2>8. CASE ResolveMutationField
    <3>1. conn.needs_rollback \in BOOLEAN  BY <1>0 DEF Connection
    <3>2. PICK o \in Outcomes[conn.needs_rollback] :
            /\ saved' = IF o.saved THEN saved \cup {<<cur, field>>} ELSE saved
            /\ conn' = IF o.saved THEN Save(conn, <<cur, field>>)
                       ELSE IF o.refused THEN SaveFails(conn) ELSE conn
            /\ errors' = IF o.data = "null" THEN errors \cup {"path"} ELSE errors
      BY <2>8 DEF ResolveMutationField
    <3>3. conn.in_atomic_block  BY <1>c, <2>8 DEF ResolveMutationField, BlocksMatchCode
    <3>4. /\ conn'.db = conn.db /\ Innermost(conn)' = Innermost(conn)
          /\ conn.work = saved => conn'.work = saved'
          /\ conn.needs_rollback => conn'.needs_rollback
          /\ conn'.needs_rollback => conn.needs_rollback \/ errors' # {}
      <4>1. CASE o.saved
        <5>1. conn' = Save(conn, <<cur, field>>)  BY <3>2, <4>1
        <5>2. /\ conn'.db = conn.db /\ conn'.savepoint_ids = conn.savepoint_ids
              /\ conn'.work = conn.work \cup {<<cur, field>>}
              /\ conn'.needs_rollback <=> conn.needs_rollback
          BY <1>0, <3>3, <5>1 DEF Save, Connection
        <5>3. QED  BY <3>2, <4>1, <5>2 DEF Innermost
      <4>2. CASE ~o.saved /\ o.refused
        <5>1. conn' = SaveFails(conn)  BY <3>2, <4>2
        <5>2. /\ conn'.db = conn.db /\ conn'.savepoint_ids = conn.savepoint_ids
              /\ conn'.work = conn.work /\ conn'.needs_rollback
          BY <1>0, <3>3, <5>1 DEF SaveFails, Connection
        <5>3. errors' # {}  BY <3>1, <3>2, <4>2, OutcomeType
        <5>4. QED  BY <3>2, <4>2, <5>2, <5>3 DEF Innermost
      <4>3. CASE ~o.saved /\ ~o.refused
        BY <3>2, <4>3 DEF Innermost
      <4>4. QED  BY <4>1, <4>2, <4>3
    <3>5. /\ errors # {} => errors' # {}
          /\ InTransaction(entry)' = InTransaction(entry)
          /\ phase = "executing" /\ phase' = "executing" /\ UNCHANGED responses
      BY <2>8, <3>2 DEF ResolveMutationField, InTransaction, AtomicMutations
    <3>6. QED  BY <1>a, <1>c, <3>4, <3>5
  <2>9. CASE EndQuery
    <3>1. ~InTransaction(entry)  BY <2>9 DEF EndQuery, InTransaction
    <3>2. QED  BY <1>a, <1>c, <2>9, <3>1 DEF EndQuery
  <2>10. CASE EndMutation
    <3>1. CASE InTransaction(entry)
      <4>1. PICK refuses \in BOOLEAN :
              /\ conn' = ExitAtomic(MarkIfFlagged(conn), refuses)
              /\ errors' = IF CommitRefused(MarkIfFlagged(conn), refuses)
                           THEN {"no_path"} ELSE errors
        BY <2>10, <3>1 DEF EndMutation
      <4>2. Len(conn.savepoint_ids) = 1
        BY <1>c, <2>10, <3>1 DEF EndMutation, BlocksMatchCode
      <4>3. /\ conn'.db = conn.db
            /\ ~conn.needs_rollback /\ ~flag /\ ~refuses => conn'.work = conn.work
            /\ conn.needs_rollback /\ Innermost(conn) = {} => conn'.needs_rollback
        BY <4>1, <4>2, LeaveInnerBlock
      <4>4. refuses /\ ~conn.needs_rollback /\ ~flag => errors' # {}
        BY <4>1, MarkIfFlaggedEffect DEF CommitRefused
      <4>5. errors # {} => errors' # {}  BY <4>1
      <4>6. /\ phase = "executing" /\ phase' = "executed"
            /\ UNCHANGED <<saved, responses, flag>>
        BY <2>10 DEF EndMutation
      <4>7. QED
        BY <1>a, <1>c, <3>1, <4>3, <4>4, <4>5, <4>6 DEF RollbackRequested
    <3>2. CASE ~InTransaction(entry)
      BY <1>a, <1>c, <2>10, <3>2 DEF EndMutation
    <3>3. QED  BY <3>1, <3>2
  <2>11. CASE FinishEntry
    <3>1. conn.in_atomic_block /\ settings.ATOMIC_REQUESTS
      BY <1>c, <2>11 DEF FinishEntry, BlocksMatchCode, AtomicView
    <3>2. /\ conn'.db = conn.db /\ conn'.work = conn.work
          /\ conn.needs_rollback \/ RollbackRequested => conn'.needs_rollback
      BY <1>0, <2>11, <3>1
      DEF FinishEntry, SetRollbackOfRequest, SetRollback, Connection
    <3>3. ASSUME NEW i \in Answered', responses'[i].errors # {}
          PROVE  conn'.needs_rollback
      <4>1. /\ Len(responses') = Len(responses) + 1
            /\ \A j \in 1..Len(responses) : responses'[j] = responses[j]
            /\ responses'[Len(responses) + 1].errors = errors
        BY <2>11 DEF FinishEntry, TypeOK
      <4>2. CASE i \in 1..Len(responses)
        BY <1>c, <2>11, <3>2, <3>3, <4>1, <4>2 DEF FinishEntry
      <4>3. CASE i = Len(responses) + 1
        BY <3>2, <3>3, <4>1, <4>3 DEF RollbackRequested
      <4>4. Len(responses) \in Nat  BY DEF TypeOK
      <4>5. QED  BY <3>3, <4>1, <4>2, <4>3, <4>4
    <3>4. /\ flag' = flag /\ saved' = saved /\ phase = "executed"
          /\ phase' \in {"get_response", "responding"}
      BY <2>11 DEF FinishEntry, Respond
    <3>5. flag => conn'.needs_rollback  BY <3>2 DEF RollbackRequested
    <3>6. QED  BY <1>a, <1>c, <3>2, <3>3, <3>4, <3>5 DEF RollbackRequested
  <2>12. CASE LeaveView
    <3>1. Outermost(conn)
      BY <1>0, <2>12, OutermostLen DEF LeaveView, BlocksMatchCode
    <3>2. PICK refuses \in BOOLEAN :
            /\ conn' = ExitAtomic(conn, refuses)
            /\ answer' = "server_error" => CommitRefused(conn, refuses) \/ answer = "server_error"
      BY <1>c, <2>12 DEF LeaveView
    <3>3. conn'.db = IF conn.needs_rollback \/ refuses THEN conn.db ELSE conn.work
      BY <1>0, <3>1, <3>2, ExitOutermost, AutocommitFields
    <3>4. answer # "server_error"  BY <2>12 DEF LeaveView, Position
    <3>5. /\ phase = "responding" /\ phase' = "done"
          /\ UNCHANGED <<saved, flag, responses>>
      BY <2>12 DEF LeaveView, execution
    <3>6. conn'.db = {} \/ conn'.db = saved  BY <1>c, <3>3, <3>5
    <3>7. flag' \/ (\E i \in Answered' : responses'[i].errors # {}) => conn'.db = {}
      BY <1>c, <3>3, <3>5
    <3>8. answer' = "server_error" => conn'.db = {}
      BY <1>c, <3>2, <3>3, <3>4, <3>5 DEF CommitRefused
    <3>9. QED  BY <1>a, <1>c, <3>5, <3>6, <3>7, <3>8
  <2>13. CASE LeaveViewRaising
    <3>1. Outermost(conn)
      BY <1>0, <2>13, OutermostLen DEF LeaveViewRaising, BlocksMatchCode
    <3>2. conn'.db = conn.db
      BY <1>c, <2>13, <3>1, AutocommitFields DEF LeaveViewRaising, Rollback
    <3>3. QED  BY <1>a, <1>c, <2>13, <3>2 DEF LeaveViewRaising, execution
  <2>14. CASE Crash
    BY <1>a, <1>c, <2>14, AutocommitFields DEF Crash, Lose, execution
  <2>15. CASE UNCHANGED vars
    <3>1. InTransaction(entry)' = InTransaction(entry)
      BY <2>15 DEF vars, InTransaction, AtomicMutations
    <3>2. RollbackRequested' = RollbackRequested
      BY <2>15 DEF vars, RollbackRequested
    <3>3. QED  BY <1>a, <2>15, <3>1, <3>2 DEF vars, Innermost
  <2>16. QED
    BY <2>1, <2>2, <2>3, <2>4, <2>5, <2>6, <2>7, <2>8, <2>9, <2>10, <2>11, <2>12,
       <2>13, <2>14, <2>15 DEF Next, Handle
<1>1. QED  BY <1>b, <1>c

-----------------------------------------------------------------------------
\* A request arrives with nothing saved and no flag.
LEMMA InitGetIsSafe == Init => GetIsSafe
  BY DEF Init, GetIsSafe

\* Every step keeps a GET from saving: a field is resolved only for an allowed
\* mutation.
LEMMA NextGetIsSafe == Position /\ GetIsSafe /\ [Next]_vars => GetIsSafe'
<1> SUFFICES ASSUME Position, GetIsSafe, [Next]_vars PROVE GetIsSafe'
  OBVIOUS
<1>1. CASE ResolveMutationField
  BY <1>1 DEF ResolveMutationField, Position, NotAllowed, GetIsSafe
<1>2. CASE ~ResolveMutationField
  <2>1. UNCHANGED <<request, saved, flag>>
    BY <1>2 DEF Next, Handle, vars, execution, EnterView, RefuseMethod, RefuseBody,
      RenderGraphiQL, BeginResponses, RaiseOnEntry, RejectEntry, FailEntry,
      BeginExecute, EndQuery, EndMutation, FinishEntry, LeaveView, LeaveViewRaising,
      Crash
  <2>2. QED  BY <2>1 DEF GetIsSafe
<1>3. QED  BY <1>1, <1>2

-----------------------------------------------------------------------------
(* The second inductive invariant: what a request leaves in the database.  *)

\* Only resolving a mutation field changes what fields have done.
LEMMA OnlyResolveSaves ==
    [Next]_vars /\ ~ResolveMutationField => UNCHANGED <<results, saved, flag>>
  BY DEF Next, Handle, vars, execution, EnterView, RefuseMethod, RefuseBody, RenderGraphiQL,
    BeginResponses, RaiseOnEntry, RejectEntry, FailEntry, BeginExecute, EndQuery,
    EndMutation, FinishEntry, LeaveView, LeaveViewRaising, Crash

\* The settings and the request are the same to the end.
LEMMA RequestIsFixed ==
    [Next]_vars => /\ UNCHANGED <<settings, request>>
                   /\ AtomicView' = AtomicView /\ AtomicMutations' = AtomicMutations
<1> SUFFICES ASSUME [Next]_vars PROVE UNCHANGED <<settings, request>>
  BY DEF AtomicView, AtomicMutations
<1> QED
  BY DEF Next, Handle, vars, execution, EnterView, RefuseMethod, RefuseBody, RenderGraphiQL,
    BeginResponses, RaiseOnEntry, RejectEntry, FailEntry, BeginExecute, EndQuery,
    EndMutation, ResolveMutationField, FinishEntry, LeaveView, LeaveViewRaising, Crash

\* Resolving a field: the field is new, and what it does to the connection
\* and to the errors goes together.
LEMMA ResolveEffect ==
    ASSUME TypeOK, Position, ResolvedInOrder, ResolveMutationField
    PROVE  LET f == <<cur, field>> IN
           /\ f \in Fields /\ results[f] = "unresolved" /\ f \notin saved
           /\ results'[f] # "unresolved"
           /\ \A g \in Fields : g # f => results'[g] = results[g]
           /\ flag => flag'
           /\ errors \subseteq errors' /\ errors' \subseteq errors \cup {"path"}
           /\ \/ saved' = saved \cup {f} /\ conn' = Save(conn, f)
              \/ saved' = saved /\ conn' = SaveFails(conn) /\ "path" \in errors'
              \/ saved' = saved /\ conn' = conn
<1> DEFINE f == <<cur, field>>
<1>1. cur \in 1..MaxEntries /\ field \in 1..MaxFields
  BY EntryCountType, FieldsAssumption DEF ResolveMutationField, Position, TypeOK, Entry
<1>2. f \in Fields /\ f[1] = cur /\ f[2] = field  BY <1>1 DEF Fields
<1>3. results[f] = "unresolved"
  BY <1>1, <1>2 DEF ResolvedInOrder, ResolveMutationField
<1>4. f \notin saved  BY <1>3 DEF ResolvedInOrder
<1>5. PICK o \in Outcomes[conn.needs_rollback] :
        /\ results' = [results EXCEPT ![f] = o.data]
        /\ flag' = (flag \/ o.flagged)
        /\ saved' = IF o.saved THEN saved \cup {f} ELSE saved
        /\ conn' = IF o.saved THEN Save(conn, f)
                   ELSE IF o.refused THEN SaveFails(conn) ELSE conn
        /\ errors' = IF o.data = "null" THEN errors \cup {"path"} ELSE errors
  BY DEF ResolveMutationField
<1>6. o \in Outcome /\ (o.refused => o.data = "null")
  BY OutcomeType DEF TypeOK, Connection
<1>7. results'[f] = o.data /\ \A g \in Fields : g # f => results'[g] = results[g]
  BY <1>2, <1>5 DEF TypeOK
<1>8. o.data # "unresolved"  BY <1>6 DEF Outcome
<1>9. \/ saved' = saved \cup {f} /\ conn' = Save(conn, f)
      \/ saved' = saved /\ conn' = SaveFails(conn) /\ "path" \in errors'
      \/ saved' = saved /\ conn' = conn
  BY <1>5, <1>6
<1>10. errors \subseteq errors' /\ errors' \subseteq errors \cup {"path"} /\ (flag => flag')
  BY <1>5
<1>11. QED  BY <1>2, <1>3, <1>4, <1>7, <1>8, <1>9, <1>10

\* A request arrives with no field resolved.
LEMMA InitResolved == Init => ResolvedInOrder
  BY DEF Init, ResolvedInOrder

\* Fields are resolved one after the other, entry by entry.
LEMMA NextResolved ==
    TypeOK /\ Position /\ ResolvedInOrder /\ [Next]_vars => ResolvedInOrder'
<1> SUFFICES ASSUME TypeOK, Position, ResolvedInOrder, [Next]_vars PROVE ResolvedInOrder'
  OBVIOUS
<1>1. CASE ResolveMutationField
  <2>1. <<cur, field>> \in Fields /\ <<cur, field>>[1] = cur /\ <<cur, field>>[2] = field
    BY <1>1, ResolveEffect
  <2>2. \A g \in Fields : g # <<cur, field>> => results'[g] = results[g]
    BY <1>1, ResolveEffect
  <2>3. cur \in Nat /\ field \in Nat /\ entry.fields \in Nat
    BY <1>1 DEF ResolveMutationField, Position, TypeOK, Entry
  <2>4. phase = "executing" /\ phase' = "executing" /\ cur' = cur /\ field' > field
    BY <1>1, <2>3 DEF ResolveMutationField
  <2>5. ASSUME NEW g \in Fields, results'[g] # "unresolved"
        PROVE  g[1] <= cur' /\ (g[1] = cur' => g[2] < field')
    <3>1. CASE g = <<cur, field>>  BY <2>1, <2>3, <2>4, <3>1
    <3>2. CASE g # <<cur, field>>
      <4>1. g[1] \in Nat /\ g[2] \in Nat  BY DEF Fields
      <4>2. field' \in Nat  BY <2>3, <1>1 DEF ResolveMutationField
      <4>3. QED  BY <2>2, <2>3, <2>4, <2>5, <3>2, <4>1, <4>2 DEF ResolvedInOrder
    <3>3. QED  BY <3>1, <3>2
  <2>6. \A g \in saved' : results'[g] # "unresolved"
    <3>1. results'[<<cur, field>>] # "unresolved"  BY <1>1, ResolveEffect
    <3>2. saved' \subseteq saved \cup {<<cur, field>>}  BY <1>1, ResolveEffect
    <3>3. QED  BY <2>2, <3>1, <3>2 DEF ResolvedInOrder, TypeOK
  <2>7. QED  BY <2>4, <2>5, <2>6 DEF ResolvedInOrder
<1>2. CASE ~ResolveMutationField
  <2>1. UNCHANGED <<results, saved>>  BY <1>2, OnlyResolveSaves
  <2>2. \A f \in Fields : f[1] \in Nat \ {0} /\ f[2] \in 1..MaxFields  BY DEF Fields
  <2>3. cur \in Nat  BY DEF TypeOK
  <2>4. CASE EnterView \/ RefuseMethod \/ RefuseBody \/ RenderGraphiQL \/ RaiseOnEntry
             \/ RejectEntry \/ FailEntry \/ EndQuery \/ EndMutation \/ LeaveView
             \/ LeaveViewRaising \/ Crash
    <3>1. cur' = cur /\ phase' \notin {"arrived", "get_response", "executing"}
      BY <2>4 DEF execution, EnterView, RefuseMethod, RefuseBody, RenderGraphiQL, Respond,
        RaiseOnEntry, RejectEntry, FailEntry, EndQuery, EndMutation, LeaveView,
        LeaveViewRaising, Crash
    <3>2. phase' = "dispatch" => phase = "arrived"
      BY <2>4 DEF execution, EnterView, RefuseMethod, RefuseBody, RenderGraphiQL, Respond,
        RaiseOnEntry, RejectEntry, FailEntry, EndQuery, EndMutation, LeaveView,
        LeaveViewRaising, Crash
    <3>3. QED  BY <2>1, <3>1, <3>2 DEF ResolvedInOrder
  <2>5. CASE BeginResponses
    <3>1. cur = 0 /\ cur' \in {0, 1} /\ phase' \notin {"arrived", "dispatch", "executing"}
      BY <2>5 DEF BeginResponses, Respond, ResolvedInOrder
    <3>2. \A f \in Fields : results[f] = "unresolved"
      BY <2>2, <3>1 DEF ResolvedInOrder
    <3>3. QED  BY <2>1, <3>1, <3>2 DEF ResolvedInOrder
  <2>6. CASE BeginExecute
    <3>1. phase = "get_response" /\ phase' = "executing" /\ cur' = cur
      BY <2>6 DEF BeginExecute
    <3>2. QED  BY <2>1, <3>1 DEF ResolvedInOrder
  <2>7. CASE FinishEntry
    <3>1. \/ cur' = cur + 1 /\ phase' = "get_response"
          \/ cur' = cur /\ phase' = "responding"
      BY <2>7 DEF FinishEntry, Respond
    <3>2. QED  BY <2>1, <2>2, <2>3, <3>1 DEF ResolvedInOrder
  <2>8. CASE UNCHANGED vars
    BY <2>8 DEF ResolvedInOrder, vars
  <2>9. QED  BY <1>2, <2>4, <2>5, <2>6, <2>7, <2>8 DEF Next, Handle
<1>3. QED  BY <1>1, <1>2

\* No entry that is still to be answered, and no entry before its execution,
\* has saved anything.
LEMMA NothingSavedYet ==
    ASSUME TypeOK, ResolvedInOrder
    PROVE  /\ \A i \in Nat : i > cur => WritesOf(i) = {}
           /\ phase = "get_response" => WritesOf(cur) = {}
<1>1. \A f \in saved : f \in Fields /\ f[1] \in Nat  BY DEF TypeOK, Fields
<1>2. cur \in Nat  BY DEF TypeOK
<1>3. QED  BY <1>1, <1>2 DEF ResolvedInOrder, WritesOf

\* A request arrives with no error.
LEMMA InitErrors == Init => ErrorsAtHand
  BY DEF Init, ErrorsAtHand

\* An error that names no field is there before the first field is resolved.
LEMMA NextErrors ==
    TypeOK /\ Position /\ ResolvedInOrder /\ ErrorsAtHand /\ [Next]_vars => ErrorsAtHand'
<1> SUFFICES ASSUME TypeOK, Position, ResolvedInOrder, ErrorsAtHand, [Next]_vars
             PROVE  ErrorsAtHand'
  OBVIOUS
<1>1. CASE EnterView \/ RefuseMethod \/ RefuseBody \/ RenderGraphiQL \/ BeginResponses
           \/ RaiseOnEntry \/ RejectEntry \/ LeaveView \/ LeaveViewRaising \/ Crash
  <2>1. /\ errors' = errors /\ phase' \notin {"executing", "executed"}
        /\ phase' = "crashed" \/ phase \notin {"executing", "executed", "crashed"}
    BY <1>1 DEF execution, EnterView, RefuseMethod, RefuseBody, RenderGraphiQL, Respond,
      BeginResponses, RaiseOnEntry, RejectEntry, LeaveView, LeaveViewRaising, Crash
  <2>2. QED  BY <2>1 DEF ErrorsAtHand
<1>2. CASE FailEntry \/ EndQuery \/ EndMutation
  BY <1>2 DEF FailEntry, EndQuery, EndMutation, ErrorsAtHand
<1>3. CASE BeginExecute
  <2>1. PICK e \in Entry :
          /\ entry' = e
          /\ errors' = IF e.binds THEN {} ELSE {"no_path"}
          /\ field' = IF e.binds /\ e.operation = "mutation" THEN 1 ELSE e.fields + 1
    BY <1>3 DEF BeginExecute, PossibleEntries
  <2>2. WritesOf(cur)' = {}
    <3>1. WritesOf(cur) = {}  BY <1>3, NothingSavedYet DEF BeginExecute
    <3>2. QED  BY <1>3, <3>1 DEF BeginExecute, WritesOf
  <2>3. e.fields \in Nat  BY DEF Entry
  <2>4. phase' = "executing"  BY <1>3 DEF BeginExecute
  <2>5. QED  BY <2>1, <2>2, <2>3, <2>4 DEF ErrorsAtHand
<1>4. CASE ResolveMutationField
  <2>1. field <= entry.fields /\ entry.fields \in Nat /\ field \in Nat
    BY <1>4 DEF ResolveMutationField, Position, Entry, TypeOK
  <2>2. "no_path" \notin errors  BY <1>4, <2>1 DEF ErrorsAtHand, ResolveMutationField
  <2>3. "no_path" \notin errors'  BY <1>4, <2>2, ResolveEffect
  <2>4. entry.operation = "mutation"  BY <1>4, <2>1 DEF Position, ResolveMutationField
  <2>5. QED  BY <1>4, <2>3, <2>4 DEF ErrorsAtHand, ResolveMutationField
<1>5. CASE FinishEntry
  BY <1>5 DEF FinishEntry, Respond, ErrorsAtHand
<1>6. CASE UNCHANGED vars
  BY <1>6 DEF vars, ErrorsAtHand, WritesOf
<1>7. QED  BY <1>1, <1>2, <1>3, <1>4, <1>5, <1>6 DEF Next, Handle

\* What a step that resolves a field does to the connection, by kind of block.
LEMMA ResolveOnConnection ==
    ASSUME TypeOK, Position, ResolvedInOrder, ResolveMutationField
    PROVE  LET f == <<cur, field>> IN
           /\ conn.in_atomic_block => conn'.db = conn.db
           /\ saved' = saved \cup {f} => conn'.work = conn.work \cup {f}
           /\ saved' = saved => conn'.work = conn.work /\ conn'.db = conn.db
           /\ ~conn.in_atomic_block /\ saved' = saved \cup {f} => conn'.db = conn.db \cup {f}
           /\ conn.needs_rollback => conn'.needs_rollback
           /\ conn'.needs_rollback => conn.needs_rollback \/ errors' # {}
<1> DEFINE f == <<cur, field>>
<1>1. conn \in Connection(Fields)  BY DEF TypeOK
<1>2. f \notin saved  BY ResolveEffect
<1>3. CASE saved' = saved \cup {f} /\ conn' = Save(conn, f)
  <2>1. /\ conn'.work = conn.work \cup {f}
        /\ conn'.needs_rollback = conn.needs_rollback
        /\ conn.in_atomic_block => conn'.db = conn.db
        /\ ~conn.in_atomic_block => conn'.db = conn.db \cup {f}
    BY <1>1, <1>3 DEF Save, Connection
  <2>2. saved' # saved  BY <1>2, <1>3
  <2>3. QED  BY <1>3, <2>1, <2>2
<1>4. CASE saved' = saved /\ conn' = SaveFails(conn) /\ "path" \in errors'
  <2>1. /\ conn'.work = conn.work /\ conn'.db = conn.db
        /\ conn.needs_rollback => conn'.needs_rollback
    BY <1>1, <1>4 DEF SaveFails, Connection
  <2>2. saved' # saved \cup {f}  BY <1>2, <1>4
  <2>3. QED  BY <1>4, <2>1, <2>2
<1>5. CASE saved' = saved /\ conn' = conn
  <2>1. saved' # saved \cup {f}  BY <1>2, <1>5
  <2>2. QED  BY <1>5, <2>1
<1>6. QED  BY <1>3, <1>4, <1>5, ResolveEffect

\* What the entry at hand has saved grows by what its field saves, and what
\* another has saved does not.
LEMMA ResolveWrites ==
    ASSUME TypeOK, Position, ResolvedInOrder, ResolveMutationField
    PROVE  LET f == <<cur, field>> IN
           /\ cur' = cur
           /\ saved' = saved \cup {f} => WritesOf(cur)' = WritesOf(cur) \cup {f}
           /\ saved' = saved => WritesOf(cur)' = WritesOf(cur)
           /\ \A i \in Nat : i # cur => f \notin WritesOf(i) /\ WritesOf(i)' = WritesOf(i)
<1> DEFINE f == <<cur, field>>
<1>1. cur' = cur /\ f[1] = cur  BY DEF ResolveMutationField
<1>2. saved' = saved \/ saved' = saved \cup {f}  BY ResolveEffect
<1>3. QED  BY <1>1, <1>2 DEF WritesOf

\* What may reach the database without ATOMIC_REQUESTS: a save in autocommit
\* mode, or a mutation's transaction that is committed.
LEMMA WhatIsCommitted ==
    ASSUME TypeOK, Position, BlocksMatchCode, ResolvedInOrder, OnlyBlock, ~AtomicView,
           [Next]_vars
    PROVE  \/ conn'.db = conn.db
           \/ /\ ResolveMutationField /\ ~InTransaction(entry)
              /\ saved' = saved \cup {<<cur, field>>}
              /\ conn'.db = conn.db \cup {<<cur, field>>}
           \/ /\ EndMutation /\ InTransaction(entry) /\ ~flag /\ errors' = errors
              /\ conn'.db = conn.db \cup WritesOf(cur)
<1>0. conn \in Connection(Fields)  BY DEF TypeOK
<1>b. ~InRequestBlock  BY DEF InRequestBlock
<1>1. CASE BeginExecute
  <2>1. ~conn.in_atomic_block
    BY <1>1, <1>b DEF BeginExecute, BlocksMatchCode, InMutationBlock
  <2>2. EnterAtomic(conn).db = conn.db  BY <1>0, <2>1, EnterOutermost
  <2>3. conn' = EnterAtomic(conn) \/ conn' = conn  BY <1>1 DEF BeginExecute
  <2>4. QED  BY <2>2, <2>3
<1>2. CASE ResolveMutationField
  <2>1. CASE InTransaction(entry)
    <3>1. conn.in_atomic_block
      BY <1>2, <2>1 DEF ResolveMutationField, BlocksMatchCode, InMutationBlock
    <3>2. QED  BY <1>2, <3>1, ResolveOnConnection
  <2>2. CASE ~InTransaction(entry)
    <3>1. ~conn.in_atomic_block
      BY <1>b, <2>2 DEF BlocksMatchCode, InMutationBlock
    <3>2. QED  BY <1>2, <2>2, <3>1, ResolveOnConnection, ResolveEffect
  <2>3. QED  BY <2>1, <2>2
<1>3. CASE EndMutation /\ InTransaction(entry)
  <2>1. PICK refuses \in BOOLEAN :
          /\ conn' = ExitAtomic(MarkIfFlagged(conn), refuses)
          /\ errors' = IF CommitRefused(MarkIfFlagged(conn), refuses)
                       THEN {"no_path"} ELSE errors
    BY <1>3 DEF EndMutation
  <2>2. InMutationBlock  BY <1>3 DEF EndMutation, InMutationBlock
  <2>3. Len(conn.savepoint_ids) = 0  BY <1>b DEF BlocksMatchCode
  <2>4. conn'.db = IF conn.needs_rollback \/ flag \/ refuses THEN conn.db ELSE conn.work
    BY <2>1, <2>3, LeaveOnlyBlock, AutocommitFields
  <2>5. ~refuses => errors' = errors  BY <2>1 DEF CommitRefused
  <2>6. conn.work = conn.db \cup WritesOf(cur)  BY <2>2 DEF OnlyBlock
  <2>7. QED  BY <1>3, <2>4, <2>5, <2>6
<1>4. CASE FinishEntry
  BY <1>0, <1>4 DEF FinishEntry, SetRollbackOfRequest, SetRollback, Connection
<1>5. CASE Crash
  BY <1>5, AutocommitFields DEF Crash, Lose
<1>6. CASE \/ EnterView \/ RefuseMethod \/ RefuseBody \/ RenderGraphiQL \/ BeginResponses
           \/ RaiseOnEntry \/ RejectEntry \/ FailEntry \/ EndQuery \/ LeaveView
           \/ LeaveViewRaising \/ (EndMutation /\ ~InTransaction(entry)) \/ UNCHANGED vars
  <2>1. conn' = conn
    BY <1>6 DEF EnterView, RefuseMethod, RefuseBody, RenderGraphiQL, BeginResponses,
      RaiseOnEntry, RejectEntry, FailEntry, EndQuery, EndMutation, LeaveView,
      LeaveViewRaising, vars
  <2>2. QED  BY <2>1
<1>7. QED  BY <1>1, <1>2, <1>3, <1>4, <1>5, <1>6 DEF Next, Handle

\* A request arrives with an empty transaction.
LEMMA InitOnlyBlock == Init => OnlyBlock
  BY AutocommitFields DEF Init, OnlyBlock, InMutationBlock

\* What is certain of the mutation's own block, when it is the only one.
LEMMA NextOnlyBlock ==
    TypeOK /\ Position /\ BlocksMatchCode /\ ResolvedInOrder /\ OnlyBlock /\ [Next]_vars
        /\ RequestAllOrNothing' => OnlyBlock'
<1> SUFFICES ASSUME TypeOK, Position, BlocksMatchCode, ResolvedInOrder, OnlyBlock,
                    [Next]_vars, RequestAllOrNothing'
             PROVE  OnlyBlock'
  OBVIOUS
<1>1. saved \subseteq saved'
  BY ResolveEffect, OnlyResolveSaves
<1>2. conn'.db \subseteq saved'
  <2>1. CASE AtomicView  BY <2>1, RequestIsFixed DEF RequestAllOrNothing
  <2>2. CASE ~AtomicView
    <3>1. WritesOf(cur) \subseteq saved  BY DEF WritesOf
    <3>2. QED  BY <1>1, <2>2, <3>1, WhatIsCommitted DEF OnlyBlock
  <2>3. QED  BY <2>1, <2>2
<1>3. ASSUME ~AtomicView, InMutationBlock'
      PROVE  /\ conn'.work = conn'.db \cup WritesOf(cur)'
             /\ WritesOf(cur)' \cap conn'.db = {}
             /\ conn'.needs_rollback => errors' # {}
  <2>0. phase' = "executing" /\ InTransaction(entry)'  BY <1>3 DEF InMutationBlock
  <2>1. CASE BeginExecute
    <3>1. WritesOf(cur) = {}  BY <2>1, NothingSavedYet DEF BeginExecute
    <3>2. WritesOf(cur)' = WritesOf(cur)  BY <2>1 DEF BeginExecute, WritesOf
    <3>3. ~conn.in_atomic_block /\ conn.work = conn.db
      BY <1>3, <2>1 DEF BeginExecute, BlocksMatchCode, InRequestBlock, InMutationBlock
    <3>4. conn' = EnterAtomic(conn)
      BY <2>0, <2>1 DEF BeginExecute, InTransaction, AtomicMutations
    <3>5. conn'.db = conn.db /\ conn'.work = conn.work /\ ~conn'.needs_rollback
      BY <3>3, <3>4, EnterOutermost DEF TypeOK
    <3>6. QED  BY <3>1, <3>2, <3>3, <3>5
  <2>2. CASE ResolveMutationField
    <3>1. InMutationBlock
      BY <2>0, <2>2
      DEF ResolveMutationField, InMutationBlock, InTransaction, AtomicMutations
    <3>2. conn.in_atomic_block  BY <3>1 DEF BlocksMatchCode
    <3>3. /\ conn.work = conn.db \cup WritesOf(cur)
          /\ WritesOf(cur) \cap conn.db = {}
          /\ conn.needs_rollback => errors # {}
      BY <1>3, <3>1 DEF OnlyBlock
    <3>4. <<cur, field>> \notin conn.db  BY <2>2, ResolveEffect DEF OnlyBlock
    <3>5. conn'.db = conn.db /\ (conn'.needs_rollback => errors' # {})
      BY <2>2, <3>2, <3>3, ResolveOnConnection, ResolveEffect
    <3>6. \/ /\ conn'.work = conn.work \cup {<<cur, field>>}
             /\ WritesOf(cur)' = WritesOf(cur) \cup {<<cur, field>>}
          \/ conn'.work = conn.work /\ WritesOf(cur)' = WritesOf(cur)
      BY <2>2, ResolveOnConnection, ResolveWrites, ResolveEffect
    <3>7. QED  BY <3>3, <3>4, <3>5, <3>6
  <2>3. CASE UNCHANGED vars
    BY <1>3, <2>3
    DEF vars, OnlyBlock, InMutationBlock, InTransaction, AtomicMutations, WritesOf
  <2>4. QED
    BY <2>0, <2>1, <2>2, <2>3
    DEF Next, Handle, EnterView, RefuseMethod, RefuseBody, RenderGraphiQL, Respond,
      BeginResponses, RaiseOnEntry, RejectEntry, FailEntry, EndQuery, EndMutation,
      FinishEntry, LeaveView, LeaveViewRaising, Crash
<1>4. QED  BY <1>2, <1>3, RequestIsFixed DEF OnlyBlock

\* A client that has been told of an error stays told.
LEMMA CleanBefore ==
    TypeOK /\ Position /\ ResolvedInOrder /\ ErrorsAtHand /\ [Next]_vars /\ CleanSoFar'
        => CleanSoFar
<1> SUFFICES ASSUME TypeOK, Position, ResolvedInOrder, ErrorsAtHand, [Next]_vars, ~CleanSoFar
             PROVE  ~CleanSoFar'
  OBVIOUS
<1>1. CASE FinishEntry
  <2>1. /\ Len(responses') = Len(responses) + 1 /\ Len(responses) \in Nat
        /\ \A j \in 1..Len(responses) : responses'[j] = responses[j]
        /\ responses'[Len(responses) + 1].errors = errors
    BY <1>1 DEF FinishEntry, TypeOK
  <2>2. flag' = flag  BY <1>1 DEF FinishEntry
  <2>3. QED  BY <2>1, <2>2 DEF CleanSoFar, Answered
<1>2. CASE ResolveMutationField
  BY <1>2, ResolveEffect DEF ResolveMutationField, CleanSoFar, Answered
<1>3. CASE ~FinishEntry /\ ~ResolveMutationField
  <2>1. flag' = flag /\ responses' = responses
    BY <1>3 DEF Next, Handle, vars, execution, EnterView, RefuseMethod, RefuseBody,
      RenderGraphiQL, BeginResponses, RaiseOnEntry, RejectEntry, FailEntry, BeginExecute,
      EndQuery, EndMutation, LeaveView, LeaveViewRaising, Crash
  <2>2. errors # {} => errors' # {}
    <3>1. CASE EndQuery
      BY <3>1 DEF EndQuery, ErrorsAtHand
    <3>2. CASE BeginExecute
      BY <3>2 DEF BeginExecute, ErrorsAtHand
    <3>3. CASE ~EndQuery /\ ~BeginExecute
      BY <1>3, <3>3 DEF Next, Handle, vars, execution, EnterView, RefuseMethod, RefuseBody,
        RenderGraphiQL, BeginResponses, RaiseOnEntry, RejectEntry, FailEntry, EndMutation,
        LeaveView, LeaveViewRaising, Crash
    <3>4. QED  BY <3>1, <3>2, <3>3
  <2>3. QED  BY <2>1, <2>2 DEF CleanSoFar, Answered
<1>4. QED  BY <1>1, <1>2, <1>3

\* A request arrives on a transaction that is not lost.
LEMMA InitLoss == Init => LossHasACause
  BY AutocommitFields DEF Init, LossHasACause

\* The request's transaction is lost only together with something the client
\* is told.
LEMMA NextLoss ==
    TypeOK /\ Position /\ BlocksMatchCode /\ ResolvedInOrder /\ ErrorsAtHand
        /\ LossHasACause /\ [Next]_vars => LossHasACause'
<1> SUFFICES ASSUME TypeOK, Position, BlocksMatchCode, ResolvedInOrder, ErrorsAtHand,
                    LossHasACause, [Next]_vars, InRequestBlock', CleanSoFar'
             PROVE  ~conn'.needs_rollback
  BY DEF LossHasACause
<1>0. conn \in Connection(Fields)  BY DEF TypeOK
<1>a. CleanSoFar  BY CleanBefore
<1>b. AtomicView /\ ~Over'  BY RequestIsFixed DEF InRequestBlock
<1>1. CASE EnterView
  <2>1. ~conn.in_atomic_block
    BY <1>1 DEF EnterView, BlocksMatchCode, InRequestBlock, InMutationBlock
  <2>2. QED  BY <1>0, <1>1, <1>b, <2>1, EnterOutermost DEF EnterView
<1>2. CASE ~EnterView
  <2>1. InRequestBlock
    BY <1>2, <1>b
    DEF InRequestBlock, Over, Next, Handle, vars, execution, RefuseMethod, RefuseBody,
      RenderGraphiQL, BeginResponses, RaiseOnEntry, RejectEntry, FailEntry, BeginExecute,
      ResolveMutationField, EndQuery, EndMutation, FinishEntry, LeaveView,
      LeaveViewRaising, Crash
  <2>2. ~conn.needs_rollback  BY <1>a, <2>1 DEF LossHasACause
  <2>3. conn.in_atomic_block  BY <2>1 DEF BlocksMatchCode
  <2>4. CASE BeginExecute
    <3>1. ~EnterAtomic(conn).needs_rollback  BY <1>0, <2>2, <2>3, EnterInner
    <3>2. QED  BY <2>2, <2>4, <3>1 DEF BeginExecute
  <2>5. CASE ResolveMutationField
    BY <2>2, <2>5, ResolveOnConnection DEF CleanSoFar
  <2>6. CASE EndMutation /\ InTransaction(entry)
    <3>1. PICK refuses \in BOOLEAN :
            /\ conn' = ExitAtomic(MarkIfFlagged(conn), refuses)
            /\ errors' = IF CommitRefused(MarkIfFlagged(conn), refuses)
                         THEN {"no_path"} ELSE errors
      BY <2>6 DEF EndMutation
    <3>2. ~flag  BY <1>a DEF CleanSoFar
    <3>3. ~refuses
      BY <2>2, <3>1, <3>2, MarkIfFlaggedEffect DEF CommitRefused, CleanSoFar
    <3>4. Len(conn.savepoint_ids) = 1
      BY <2>1, <2>6 DEF EndMutation, BlocksMatchCode, InMutationBlock
    <3>5. QED  BY <2>2, <3>1, <3>2, <3>3, <3>4, LeaveInnerBlock
  <2>7. CASE FinishEntry
    <3>1. ~RollbackRequested  BY <1>a DEF RollbackRequested, CleanSoFar
    <3>2. QED  BY <2>2, <2>7, <3>1 DEF FinishEntry
  <2>8. CASE LeaveView \/ LeaveViewRaising \/ Crash
    BY <1>b, <2>8 DEF LeaveView, LeaveViewRaising, Crash, Over
  <2>9. CASE \/ RefuseMethod \/ RefuseBody \/ RenderGraphiQL \/ BeginResponses
             \/ RaiseOnEntry \/ RejectEntry \/ FailEntry \/ EndQuery
             \/ (EndMutation /\ ~InTransaction(entry)) \/ UNCHANGED vars
    BY <2>2, <2>9 DEF RefuseMethod, RefuseBody, RenderGraphiQL, BeginResponses,
      RaiseOnEntry, RejectEntry, FailEntry, EndQuery, EndMutation, vars
  <2>10. QED
    BY <1>2, <2>4, <2>5, <2>6, <2>7, <2>8, <2>9 DEF Next, Handle
<1>3. QED  BY <1>1, <1>2

\* A request arrives with nothing saved and nothing stored.
LEMMA InitDurable == Init => DurableSoFar
  BY AutocommitFields DEF Init, DurableSoFar, InMutationBlock

\* Without ATOMIC_REQUESTS, and as long as the client is told of no error,
\* nothing that was saved is lost.
LEMMA NextDurable ==
    TypeOK /\ Position /\ BlocksMatchCode /\ ResolvedInOrder /\ ErrorsAtHand /\ OnlyBlock
        /\ DurableSoFar /\ [Next]_vars => DurableSoFar'
<1> SUFFICES ASSUME TypeOK, Position, BlocksMatchCode, ResolvedInOrder, ErrorsAtHand,
                    OnlyBlock, DurableSoFar, [Next]_vars,
                    ~AtomicView, phase' # "crashed", CleanSoFar'
             PROVE  conn'.db = IF InMutationBlock' THEN saved' \ WritesOf(cur)' ELSE saved'
  BY RequestIsFixed DEF DurableSoFar
<1>0. conn \in Connection(Fields)  BY DEF TypeOK
<1>a. CleanSoFar  BY CleanBefore
<1>b. ~InRequestBlock  BY DEF InRequestBlock
<1>c. phase # "crashed"
  BY DEF Next, Handle, vars, execution, EnterView, RefuseMethod, RefuseBody, RenderGraphiQL,
    BeginResponses, RaiseOnEntry, RejectEntry, FailEntry, BeginExecute,
    ResolveMutationField, EndQuery, EndMutation, FinishEntry, LeaveView,
    LeaveViewRaising, Crash
<1>d. conn.db = IF InMutationBlock THEN saved \ WritesOf(cur) ELSE saved
  BY <1>a, <1>c DEF DurableSoFar
<1>1. CASE BeginExecute
  <2>1. ~InMutationBlock /\ ~conn.in_atomic_block
    BY <1>1, <1>b DEF BeginExecute, BlocksMatchCode, InMutationBlock
  <2>2. WritesOf(cur) = {}  BY <1>1, NothingSavedYet DEF BeginExecute
  <2>3. WritesOf(cur)' = WritesOf(cur) /\ saved' = saved  BY <1>1 DEF BeginExecute, WritesOf
  <2>4. conn'.db = conn.db
    BY <1>0, <1>1, <2>1, EnterOutermost DEF BeginExecute
  <2>5. QED  BY <1>d, <2>1, <2>2, <2>3, <2>4
<1>2. CASE ResolveMutationField
  <2>1. phase = "executing" /\ (InMutationBlock' <=> InMutationBlock)
    BY <1>2 DEF ResolveMutationField, InMutationBlock, InTransaction, AtomicMutations
  <2>2. CASE InMutationBlock
    <3>1. conn.in_atomic_block  BY <2>2 DEF BlocksMatchCode
    <3>2. conn'.db = conn.db  BY <1>2, <3>1, ResolveOnConnection
    <3>3. <<cur, field>> \notin saved  BY <1>2, ResolveEffect
    <3>4. \/ saved' = saved \cup {<<cur, field>>}
             /\ WritesOf(cur)' = WritesOf(cur) \cup {<<cur, field>>}
          \/ saved' = saved /\ WritesOf(cur)' = WritesOf(cur)
      BY <1>2, ResolveEffect, ResolveWrites
    <3>5. QED  BY <1>d, <2>1, <2>2, <3>2, <3>3, <3>4
  <2>3. CASE ~InMutationBlock
    <3>1. ~conn.in_atomic_block  BY <1>b, <2>3 DEF BlocksMatchCode
    <3>2. QED  BY <1>2, <1>d, <2>1, <2>3, <3>1, ResolveOnConnection, ResolveEffect
  <2>4. QED  BY <2>2, <2>3
<1>3. CASE EndMutation /\ InTransaction(entry)
  <2>1. PICK refuses \in BOOLEAN :
          /\ conn' = ExitAtomic(MarkIfFlagged(conn), refuses)
          /\ errors' = IF CommitRefused(MarkIfFlagged(conn), refuses)
                       THEN {"no_path"} ELSE errors
    BY <1>3 DEF EndMutation
  <2>2. InMutationBlock /\ ~InMutationBlock'
    BY <1>3 DEF EndMutation, InMutationBlock
  <2>3. ~flag /\ ~conn.needs_rollback
    BY <1>a, <2>2 DEF CleanSoFar, OnlyBlock
  <2>4. ~refuses  BY <2>1, <2>3, MarkIfFlaggedEffect DEF CommitRefused, CleanSoFar
  <2>5. Len(conn.savepoint_ids) = 0  BY <1>b DEF BlocksMatchCode
  <2>6. conn'.db = conn.work
    BY <2>1, <2>3, <2>4, <2>5, LeaveOnlyBlock, AutocommitFields
  <2>7. conn.work = conn.db \cup WritesOf(cur) /\ WritesOf(cur) \subseteq saved
    BY <2>2 DEF OnlyBlock, WritesOf
  <2>8. saved' = saved  BY <1>3 DEF EndMutation
  <2>9. QED  BY <1>d, <2>2, <2>6, <2>7, <2>8
<1>4. CASE UNCHANGED vars
  <2>1. InMutationBlock' = InMutationBlock
    BY <1>4 DEF vars, InMutationBlock, InTransaction, AtomicMutations
  <2>2. QED  BY <1>4, <1>d, <2>1 DEF vars, WritesOf
<1>5. CASE \/ EnterView \/ RefuseMethod \/ RefuseBody \/ RenderGraphiQL \/ BeginResponses
           \/ RaiseOnEntry \/ RejectEntry \/ FailEntry \/ EndQuery \/ LeaveView
           \/ LeaveViewRaising \/ (EndMutation /\ ~InTransaction(entry)) \/ FinishEntry
  <2>1. ~InMutationBlock /\ ~InMutationBlock'
    BY <1>5 DEF InMutationBlock, InTransaction, EnterView, RefuseMethod, RefuseBody,
      RenderGraphiQL, Respond, BeginResponses, RaiseOnEntry, RejectEntry, FailEntry,
      EndQuery, EndMutation, LeaveView, LeaveViewRaising, FinishEntry
  <2>2. ~conn.in_atomic_block  BY <1>b, <2>1 DEF BlocksMatchCode
  <2>3. conn' = conn /\ saved' = saved
    BY <1>5, <2>2 DEF EnterView, RefuseMethod, RefuseBody, RenderGraphiQL, BeginResponses,
      RaiseOnEntry, RejectEntry, FailEntry, EndQuery, EndMutation, LeaveView,
      LeaveViewRaising, FinishEntry, SetRollbackOfRequest, execution
  <2>4. QED  BY <1>d, <2>1, <2>3
<1>6. CASE Crash  BY <1>6 DEF Crash
<1>7. QED  BY <1>1, <1>2, <1>3, <1>4, <1>5, <1>6 DEF Next, Handle

\* The writes of two entries are different writes.
LEMMA WritesAreApart ==
    ASSUME NEW i, NEW j, i # j
    PROVE  WritesOf(i) \cap WritesOf(j) = {}
  BY DEF WritesOf

\* A request arrives with no answer and no response.
LEMMA InitBad == Init => BadSoFar /\ BadRequestHasNoEffect
  BY EmptySeq DEF Init, BadSoFar, BadRequestHasNoEffect, Answered, WritesOf

\* An execution that ends in an error without a field has left nothing.
LEMMA NextBad ==
    TypeOK /\ Position /\ BlocksMatchCode /\ ResolvedInOrder /\ ErrorsAtHand /\ OnlyBlock
        /\ BadSoFar /\ [Next]_vars => BadSoFar'
<1> SUFFICES ASSUME TypeOK, Position, BlocksMatchCode, ResolvedInOrder, ErrorsAtHand,
                    OnlyBlock, BadSoFar, [Next]_vars
             PROVE  BadSoFar'
  OBVIOUS
<1>1. answer' # "none" => phase' \in {"responding", "done", "crashed"}
  BY DEF BadSoFar, Next, Handle, vars, execution, EnterView, RefuseMethod, RefuseBody,
    RenderGraphiQL, Respond, BeginResponses, RaiseOnEntry, RejectEntry, FailEntry,
    BeginExecute, ResolveMutationField, EndQuery, EndMutation, FinishEntry, LeaveView,
    LeaveViewRaising, Crash
<1>2. ASSUME NEW i \in Answered', responses'[i].status = 400
      PROVE  responses'[i].errors # {}
  <2>1. CASE FinishEntry
    <3>1. /\ Len(responses') = Len(responses) + 1 /\ Len(responses) \in Nat
          /\ \A j \in 1..Len(responses) : responses'[j] = responses[j]
          /\ responses'[Len(responses) + 1] = [errors |-> errors, status |-> StatusCode]
      BY <2>1 DEF FinishEntry, TypeOK
    <3>2. CASE i \in 1..Len(responses)
      BY <1>2, <3>1, <3>2 DEF BadSoFar, Answered
    <3>3. CASE i = Len(responses) + 1
      BY <1>2, <3>1, <3>3 DEF StatusCode
    <3>4. QED  BY <3>1, <3>2, <3>3 DEF Answered
  <2>2. CASE ~FinishEntry
    <3>1. responses' = responses
      BY <2>2 DEF Next, Handle, vars, execution, EnterView, RefuseMethod, RefuseBody,
        RenderGraphiQL, BeginResponses, RaiseOnEntry, RejectEntry, FailEntry, BeginExecute,
        ResolveMutationField, EndQuery, EndMutation, LeaveView, LeaveViewRaising, Crash
    <3>2. QED  BY <1>2, <3>1 DEF BadSoFar, Answered
  <2>3. QED  BY <2>1, <2>2
<1>3. ASSUME phase' = "executed", "no_path" \in errors', ~AtomicView
      PROVE  WritesOf(cur)' \cap conn'.db = {}
  <2>1. CASE FailEntry
    <3>1. WritesOf(cur) = {}  BY <2>1, NothingSavedYet DEF FailEntry
    <3>2. QED  BY <2>1, <3>1 DEF FailEntry, WritesOf
  <2>2. CASE EndQuery
    <3>1. "no_path" \in errors  BY <1>3, <2>2 DEF EndQuery
    <3>2. WritesOf(cur) = {}  BY <2>2, <3>1 DEF EndQuery, ErrorsAtHand
    <3>3. QED  BY <2>2, <3>2 DEF EndQuery, WritesOf
  <2>3. CASE EndMutation
    <3>1. WritesOf(cur)' = WritesOf(cur) /\ phase = "executing"
      BY <2>3 DEF EndMutation, WritesOf
    <3>2. CASE "no_path" \in errors
      BY <3>1, <3>2 DEF ErrorsAtHand
    <3>3. CASE "no_path" \notin errors
      <4>1. InTransaction(entry)  BY <1>3, <2>3, <3>3 DEF EndMutation
      <4>2. WritesOf(cur) \cap conn.db = {}
        BY <1>3, <3>1, <4>1 DEF OnlyBlock, InMutationBlock
      <4>3. conn'.db = conn.db
        BY <1>3, <2>3, <3>3, WhatIsCommitted DEF EndMutation, ResolveMutationField
      <4>4. QED  BY <3>1, <4>2, <4>3
    <3>4. QED  BY <3>2, <3>3
  <2>4. CASE UNCHANGED vars
    BY <1>3, <2>4 DEF vars, BadSoFar, WritesOf
  <2>5. QED
    BY <1>3, <2>1, <2>2, <2>3, <2>4
    DEF Next, Handle, EnterView, RefuseMethod, RefuseBody, RenderGraphiQL, Respond,
      BeginResponses, RaiseOnEntry, RejectEntry, BeginExecute, ResolveMutationField,
      FinishEntry, LeaveView, LeaveViewRaising, Crash
<1>4. QED  BY <1>1, <1>2, <1>3, RequestIsFixed DEF BadSoFar

\* An entry refused as a bad request stays without effect, whatever the later
\* entries of the batch save.
LEMMA NextBadRequest ==
    TypeOK /\ Position /\ BlocksMatchCode /\ ResolvedInOrder /\ OnlyBlock
        /\ BadSoFar /\ BadRequestHasNoEffect /\ [Next]_vars /\ Isolation' /\ BadSoFar'
        => BadRequestHasNoEffect'
<1> SUFFICES ASSUME TypeOK, Position, BlocksMatchCode, ResolvedInOrder, OnlyBlock, BadSoFar,
                    BadRequestHasNoEffect, [Next]_vars, Isolation', BadSoFar'
             PROVE  BadRequestHasNoEffect'
  OBVIOUS
<1>0. cur \in Nat /\ Len(responses) \in Nat  BY DEF TypeOK
<1>1. ASSUME NEW i \in Answered', responses'[i].status = 400
      PROVE  WritesOf(i)' \cap conn'.db = {}
  <2>1. CASE AtomicView
    <3>1. responses'[i].errors # {}  BY <1>1 DEF BadSoFar
    <3>2. conn'.db = {}
      BY <1>1, <2>1, <3>1, RequestIsFixed
      DEF Isolation, RequestAllOrNothing, ErrorsRollBackRequest
    <3>3. QED  BY <3>2
  <2>2. CASE ~AtomicView /\ FinishEntry
    <3>1. /\ Len(responses') = Len(responses) + 1 /\ Len(responses) = cur - 1
          /\ \A j \in 1..Len(responses) : responses'[j] = responses[j]
          /\ responses'[Len(responses) + 1] = [errors |-> errors, status |-> StatusCode]
      BY <2>2 DEF FinishEntry, TypeOK, Position
    <3>2. conn'.db = conn.db
      BY <2>2, WhatIsCommitted DEF FinishEntry, ResolveMutationField, EndMutation
    <3>3. WritesOf(i)' = WritesOf(i)  BY <2>2 DEF FinishEntry, WritesOf
    <3>4. CASE i \in 1..Len(responses)
      BY <1>1, <3>1, <3>2, <3>3, <3>4 DEF BadRequestHasNoEffect, Answered
    <3>5. CASE i = cur
      <4>1. "no_path" \in errors  BY <1>0, <1>1, <3>1, <3>5 DEF StatusCode
      <4>2. QED  BY <2>2, <3>2, <3>3, <3>5, <4>1 DEF FinishEntry, BadSoFar
    <3>6. QED  BY <1>0, <3>1, <3>4, <3>5 DEF Answered
  <2>3. CASE ~AtomicView /\ ~FinishEntry
    <3>1. responses' = responses
      BY <2>3 DEF Next, Handle, vars, execution, EnterView, RefuseMethod, RefuseBody,
        RenderGraphiQL, BeginResponses, RaiseOnEntry, RejectEntry, FailEntry, BeginExecute,
        ResolveMutationField, EndQuery, EndMutation, LeaveView, LeaveViewRaising, Crash
    <3>2. i \in Nat /\ i \in Answered /\ WritesOf(i) \cap conn.db = {}
      BY <1>1, <3>1 DEF BadRequestHasNoEffect, Answered
    <3>3. CASE ResolveMutationField
      <4>1. i # cur
        BY <1>0, <3>2, <3>3 DEF ResolveMutationField, Position, Answered
      <4>2. WritesOf(i)' = WritesOf(i) /\ <<cur, field>> \notin WritesOf(i)
        BY <3>2, <3>3, <4>1, ResolveWrites
      <4>3. conn'.db \subseteq conn.db \cup {<<cur, field>>}
        BY <2>3, <3>3, WhatIsCommitted DEF ResolveMutationField, EndMutation
      <4>4. QED  BY <3>2, <4>2, <4>3
    <3>4. CASE EndMutation
      <4>1. i # cur
        BY <1>0, <3>2, <3>4 DEF EndMutation, Position, Answered
      <4>2. WritesOf(i)' = WritesOf(i)  BY <3>4 DEF EndMutation, WritesOf
      <4>3. conn'.db \subseteq conn.db \cup WritesOf(cur)
        BY <2>3, <3>4, WhatIsCommitted DEF ResolveMutationField, EndMutation
      <4>4. QED  BY <3>2, <4>1, <4>2, <4>3, WritesAreApart
    <3>5. CASE ~ResolveMutationField /\ ~EndMutation
      <4>1. conn'.db = conn.db  BY <2>3, <3>5, WhatIsCommitted
      <4>2. WritesOf(i)' = WritesOf(i)  BY <3>5, OnlyResolveSaves DEF WritesOf
      <4>3. QED  BY <3>2, <4>1, <4>2
    <3>6. QED  BY <3>3, <3>4, <3>5
  <2>4. QED  BY <2>1, <2>2, <2>3
<1>2. ASSUME answer' = "http_error" PROVE WritesOf(cur)' = {}
  <2>1. CASE RefuseMethod \/ RefuseBody
    BY <2>1 DEF RefuseMethod, RefuseBody, Position, execution, WritesOf
  <2>2. CASE RejectEntry
    <3>1. WritesOf(cur) = {}  BY <2>2, NothingSavedYet DEF RejectEntry
    <3>2. QED  BY <2>2, <3>1 DEF RejectEntry, execution, WritesOf
  <2>3. CASE ~RefuseMethod /\ ~RefuseBody /\ ~RejectEntry
    <3>1. answer = "http_error" /\ cur' = cur /\ saved' = saved
      BY <1>2, <2>3 DEF BadSoFar, Next, Handle, vars, execution, EnterView, RenderGraphiQL,
        Respond, BeginResponses, RaiseOnEntry, FailEntry, BeginExecute,
        ResolveMutationField, EndQuery, EndMutation, FinishEntry, LeaveView,
        LeaveViewRaising, Crash
    <3>2. QED  BY <3>1 DEF BadRequestHasNoEffect, WritesOf
  <2>4. QED  BY <2>1, <2>2, <2>3
<1>3. QED  BY <1>1, <1>2 DEF BadRequestHasNoEffect

\* A request arrives without the flag.
LEMMA InitFlag == Init => FlagRollsMutationBack
  BY DEF Init, FlagRollsMutationBack

\* Under ATOMIC_MUTATIONS no step brings a write of the entry at hand into the
\* database once the flag is set, or sets it after one.
LEMMA NextFlag ==
    TypeOK /\ Position /\ BlocksMatchCode /\ ResolvedInOrder /\ OnlyBlock
        /\ FlagRollsMutationBack /\ [Next]_vars /\ Isolation' /\ OnlyBlock'
        => FlagRollsMutationBack'
<1> SUFFICES ASSUME TypeOK, Position, BlocksMatchCode, ResolvedInOrder, OnlyBlock,
                    FlagRollsMutationBack, [Next]_vars, Isolation', OnlyBlock',
                    AtomicMutations, flag'
             PROVE  WritesOf(cur)' \cap conn'.db = {}
  BY RequestIsFixed DEF FlagRollsMutationBack
<1>1. CASE AtomicView
  <2>1. conn'.db = {}
    BY <1>1, RequestIsFixed DEF Isolation, RequestAllOrNothing, ErrorsRollBackRequest
  <2>2. QED  BY <2>1
<1>2. CASE ~AtomicView /\ ResolveMutationField
  <2>1. InTransaction(entry)'
    BY <1>2 DEF ResolveMutationField, Position, InTransaction, AtomicMutations
  <2>2. QED
    BY <1>2, <2>1, RequestIsFixed DEF OnlyBlock, InMutationBlock, ResolveMutationField
<1>3. CASE ~AtomicView /\ ~ResolveMutationField
  <2>1. flag' = flag /\ saved' = saved  BY <1>3, OnlyResolveSaves
  <2>2. conn'.db = conn.db  BY <1>3, <2>1, WhatIsCommitted
  <2>3. CASE cur' = cur
    BY <2>1, <2>2, <2>3 DEF FlagRollsMutationBack, WritesOf
  <2>4. CASE cur' # cur
    <3>0. BeginResponses \/ FinishEntry
      BY <2>4, <1>3 DEF Next, Handle, vars, execution, EnterView, RefuseMethod, RefuseBody,
        RenderGraphiQL, RaiseOnEntry, RejectEntry, FailEntry, BeginExecute, EndQuery,
        EndMutation, LeaveView, LeaveViewRaising, Crash
    <3>1. cur' = cur + 1
      <4>1. CASE BeginResponses
        <5>1. cur = 0 /\ cur' = 1  BY <2>4, <4>1 DEF BeginResponses, ResolvedInOrder
        <5>2. QED  BY <5>1
      <4>2. CASE FinishEntry  BY <2>4, <4>2 DEF FinishEntry
      <4>3. QED  BY <3>0, <4>1, <4>2
    <3>2. cur \in Nat /\ cur + 1 \in Nat /\ cur + 1 > cur  BY DEF TypeOK
    <3>3. WritesOf(cur + 1) = {}  BY <3>2, NothingSavedYet
    <3>4. QED  BY <2>1, <3>1, <3>3 DEF WritesOf
  <2>5. QED  BY <2>3, <2>4
<1>4. QED  BY <1>1, <1>2, <1>3

\* A request arrives before its answer.
LEMMA InitClean == Init => CleanAnswerIsDurable
  BY DEF Init, CleanAnswerIsDurable

\* The answer a client gets without any error comes with all that was saved.
LEMMA NextClean ==
    TypeOK /\ Position /\ BlocksMatchCode /\ WorkIsSavedOrDoomed /\ ErrorsAtHand
        /\ LossHasACause /\ CleanAnswerIsDurable /\ [Next]_vars
        /\ ErrorsAtHand' /\ DurableSoFar' => CleanAnswerIsDurable'
<1> SUFFICES ASSUME TypeOK, Position, BlocksMatchCode, WorkIsSavedOrDoomed, ErrorsAtHand,
                    LossHasACause, CleanAnswerIsDurable, [Next]_vars,
                    ErrorsAtHand', DurableSoFar',
                    phase' = "done", answer' = "responses", ~flag',
                    \A i \in Answered' : responses'[i].errors = {}
             PROVE  conn'.db = saved'
  BY DEF CleanAnswerIsDurable
<1>1. CleanSoFar'  BY DEF ErrorsAtHand, CleanSoFar
<1>2. CASE ~AtomicView
  BY <1>1, <1>2, RequestIsFixed DEF DurableSoFar, InMutationBlock
<1>3. CASE AtomicView /\ LeaveView
  <2>1. InRequestBlock /\ CleanSoFar
    BY <1>1, <1>3 DEF InRequestBlock, Over, LeaveView, execution, CleanSoFar, Answered
  <2>2. ~conn.needs_rollback /\ conn.work = saved
    BY <1>3, <2>1 DEF LossHasACause, WorkIsSavedOrDoomed, LeaveView
  <2>3. PICK refuses \in BOOLEAN :
          /\ conn' = ExitAtomic(conn, refuses)
          /\ CommitRefused(conn, refuses) => answer' = "server_error"
    BY <1>3 DEF LeaveView
  <2>4. ~refuses  BY <2>2, <2>3 DEF CommitRefused
  <2>5. Outermost(conn)
    BY <1>3, <2>1, OutermostLen
    DEF TypeOK, BlocksMatchCode, LeaveView, InMutationBlock
  <2>6. conn'.db = conn.work
    BY <2>2, <2>3, <2>4, <2>5, ExitOutermost, AutocommitFields DEF TypeOK
  <2>7. QED  BY <1>3, <2>2, <2>6 DEF LeaveView, execution
<1>4. CASE UNCHANGED vars
  BY <1>4 DEF vars, CleanAnswerIsDurable, Answered
<1>5. QED
  BY <1>2, <1>3, <1>4
  DEF Next, Handle, EnterView, RefuseMethod, RefuseBody, RenderGraphiQL, Respond,
    BeginResponses, RaiseOnEntry, RejectEntry, FailEntry, BeginExecute,
    ResolveMutationField, EndQuery, EndMutation, FinishEntry, LeaveViewRaising, Crash

-----------------------------------------------------------------------------
\* The inductive invariant holds of every behaviour.
THEOREM Induction == Spec => []IndInv
<1>1. Init => IndInv
  BY InitTypeOK, InitPosition, InitBlocks, InitIsolation, InitGetIsSafe DEF IndInv
<1>2. IndInv /\ [Next]_vars => IndInv'
  BY NextTypeOK, NextPosition, NextBlocks, NextIsolation, NextGetIsSafe DEF IndInv
<1>3. QED  BY <1>1, <1>2, PTL DEF Spec

\* Type correctness of the view, whatever the request and the settings.
THEOREM TypeCorrect == Spec => []TypeOK
<1>1. IndInv => TypeOK  BY DEF IndInv
<1>2. QED  BY <1>1, Induction, PTL

\* The open atomic blocks are those of the running code; none leaks into the
\* next request of the connection.
THEOREM BlocksMatch == Spec => []BlocksMatchCode
<1>1. IndInv => BlocksMatchCode  BY DEF IndInv
<1>2. QED  BY <1>1, Induction, PTL

\* Under ATOMIC_REQUESTS the writes of a request, of however many entries and
\* fields, are invisible until the answer and then all kept or all dropped.
THEOREM RequestIsAtomic == Spec => []RequestAllOrNothing
<1>1. IndInv => RequestAllOrNothing  BY DEF IndInv, Isolation
<1>2. QED  BY <1>1, Induction, PTL

\* Under ATOMIC_REQUESTS a request with an error, the flag or a server error
\* leaves nothing in the database.
THEOREM ErrorsRollBack == Spec => []ErrorsRollBackRequest
<1>1. IndInv => ErrorsRollBackRequest  BY DEF IndInv, Isolation
<1>2. QED  BY <1>1, Induction, PTL

\* No GET ever runs a mutation.
THEOREM GetMutatesNothing == Spec => []GetIsSafe
<1>1. IndInv => GetIsSafe  BY DEF IndInv
<1>2. QED  BY <1>1, Induction, PTL

\* The second inductive invariant holds of every behaviour.
THEOREM EffectInduction == Spec => []EffectInv
<1>1. Init => EffectInv
  BY InitResolved, InitErrors, InitOnlyBlock, InitLoss, InitDurable, InitBad, InitFlag,
     InitClean DEF EffectInv
<1>2. IndInv /\ IndInv' /\ EffectInv /\ [Next]_vars => EffectInv'
  <2> SUFFICES ASSUME IndInv, IndInv', EffectInv, [Next]_vars PROVE EffectInv'
    OBVIOUS
  <2>1. ResolvedInOrder'  BY NextResolved DEF IndInv, EffectInv
  <2>2. ErrorsAtHand'  BY NextErrors DEF IndInv, EffectInv
  <2>3. OnlyBlock'  BY NextOnlyBlock DEF IndInv, Isolation, EffectInv
  <2>4. LossHasACause'  BY NextLoss DEF IndInv, EffectInv
  <2>5. DurableSoFar'  BY NextDurable DEF IndInv, EffectInv
  <2>6. BadSoFar'  BY NextBad DEF IndInv, EffectInv
  <2>7. BadRequestHasNoEffect'  BY <2>6, NextBadRequest DEF IndInv, EffectInv
  <2>8. FlagRollsMutationBack'  BY <2>3, NextFlag DEF IndInv, EffectInv
  <2>9. CleanAnswerIsDurable'  BY <2>2, <2>5, NextClean DEF IndInv, Isolation, EffectInv
  <2>10. QED
    BY <2>1, <2>2, <2>3, <2>4, <2>5, <2>6, <2>7, <2>8, <2>9 DEF EffectInv
<1>3. QED  BY <1>1, <1>2, Induction, PTL DEF Spec

\* ATOMIC_MUTATIONS: a mutation whose form set the errors flag leaves nothing in
\* the database, for any number of fields before and after it.
THEOREM FlagRollsBack == Spec => []FlagRollsMutationBack
<1>1. EffectInv => FlagRollsMutationBack  BY DEF EffectInv
<1>2. QED  BY <1>1, EffectInduction, PTL

\* A client that gets responses without an error has all it saved in the
\* database, under every combination of the transaction settings.
THEOREM CleanAnswers == Spec => []CleanAnswerIsDurable
<1>1. EffectInv => CleanAnswerIsDurable  BY DEF EffectInv
<1>2. QED  BY <1>1, EffectInduction, PTL

\* An entry answered as a bad request has changed nothing, wherever it stands in
\* the batch.
THEOREM BadRequests == Spec => []BadRequestHasNoEffect
<1>1. EffectInv => BadRequestHasNoEffect  BY DEF EffectInv
<1>2. QED  BY <1>1, EffectInduction, PTL
-----------------------------------------------------------------------------
(* The view implements AtomicUnits.                                        *)

\* The units the settings promise divide the writes.
LEMMA UnitsArePartition == Unit \in [Fields -> SUBSET Fields] /\ Abstract!Partition(Unit)
<1>1. Unit \in [Fields -> SUBSET Fields]  BY DEF Unit
<1>2. ASSUME NEW w \in Fields
      PROVE  w \in Unit[w] /\ \A v \in Unit[w] : Unit[v] = Unit[w]
  <2>1. CASE AtomicView  BY <2>1 DEF Unit
  <2>2. CASE ~AtomicView /\ AtomicMutations
    <3>1. \A v \in Fields : Unit[v] = {g \in Fields : g[1] = v[1]}  BY <2>2 DEF Unit
    <3>2. QED  BY <3>1
  <2>3. CASE ~AtomicView /\ ~AtomicMutations
    <3>1. \A v \in Fields : Unit[v] = {v}  BY <2>3 DEF Unit
    <3>2. QED  BY <3>1
  <2>4. QED  BY <2>1, <2>2, <2>3
<1>3. QED  BY <1>1, <1>2 DEF Abstract!Partition

\* A request arrives with no unit decided.
LEMMA InitUnits == Init => Abstract!Init
<1> SUFFICES ASSUME Init PROVE Abstract!Init
  OBVIOUS
<1>1. saved = {} /\ conn.db = {}  BY AutocommitFields DEF Init
<1>2. Settled = {}
  <2>1. ~Over /\ cur = 0 /\ \A f \in Fields : results[f] = "unresolved"
    BY DEF Init, Over
  <2>2. \A f \in Fields : ~EntryIsOver(f[1])
    BY <2>1 DEF EntryIsOver, Fields
  <2>3. QED  BY <2>1, <2>2 DEF Settled
<1>3. QED  BY <1>1, <1>2, UnitsArePartition DEF Abstract!Init

\* An entry that is over stays over, and a request too.
LEMMA OverStaysOver ==
    ASSUME TypeOK, Position, ResolvedInOrder, [Next]_vars
    PROVE  /\ Over => Over' /\ UNCHANGED vars
           /\ \A i \in Nat : EntryIsOver(i) => EntryIsOver(i)'
<1>1. Over => Over' /\ UNCHANGED vars
  BY DEF Over, Next, Handle, vars, EnterView, RefuseMethod, RefuseBody, RenderGraphiQL,
    BeginResponses, RaiseOnEntry, RejectEntry, FailEntry, BeginExecute,
    ResolveMutationField, EndQuery, EndMutation, FinishEntry, LeaveView,
    LeaveViewRaising, Crash
<1>2. cur \in Nat  BY DEF TypeOK
<1>3. CASE BeginResponses
  <2>1. cur = 0 /\ phase = "dispatch"  BY <1>3 DEF BeginResponses, ResolvedInOrder
  <2>2. cur' = 1 \/ (cur' = 0 /\ phase' = "responding")
    BY <1>3, <2>1 DEF BeginResponses, Respond
  <2>3. QED  BY <1>1, <2>1, <2>2 DEF EntryIsOver
<1>4. CASE FinishEntry
  <2>1. cur' = cur + 1 \/ (cur' = cur /\ phase' = "responding")
    BY <1>4 DEF FinishEntry, Respond
  <2>2. QED  BY <1>1, <1>2, <2>1 DEF EntryIsOver
<1>5. CASE ~BeginResponses /\ ~FinishEntry
  <2>1. /\ cur' = cur
        /\ phase \notin {"get_response", "executing"} =>
             phase' \notin {"get_response", "executing"}
    BY <1>5 DEF Next, Handle, vars, execution, EnterView, RefuseMethod, RefuseBody,
      RenderGraphiQL, Respond, RaiseOnEntry, RejectEntry, FailEntry, BeginExecute,
      ResolveMutationField, EndQuery, EndMutation, LeaveView, LeaveViewRaising, Crash
  <2>2. QED  BY <1>1, <2>1 DEF EntryIsOver
<1>6. QED  BY <1>3, <1>4, <1>5

\* Units are decided whole, and for good.
LEMMA UnitsAreSettled ==
    ASSUME TypeOK, Position, ResolvedInOrder, [Next]_vars
    PROVE  /\ Unit' = Unit
           /\ Settled \subseteq Settled' /\ Settled' \subseteq Fields
           /\ \A w \in Settled' : Unit[w] \subseteq Settled'
<1>1. Unit' = Unit  BY RequestIsFixed DEF Unit
<1>2. \A f \in Fields : f[1] \in Nat  BY DEF Fields
<1>3. \A f \in Fields : results[f] # "unresolved" => results'[f] # "unresolved"
  <2>1. CASE ResolveMutationField  BY <2>1, ResolveEffect
  <2>2. CASE ~ResolveMutationField  BY <2>2, OnlyResolveSaves
  <2>3. QED  BY <2>1, <2>2
<1>4. Settled \subseteq Settled'
  BY <1>2, <1>3, OverStaysOver, RequestIsFixed DEF Settled
<1>5. Settled' \subseteq Fields  BY DEF Settled
<1>6. ASSUME NEW w \in Settled', NEW v \in Unit[w] PROVE v \in Settled'
  <2>1. w \in Fields /\ v \in Fields  BY <1>5, <1>6 DEF Unit
  <2>2. CASE Over' \/ AtomicView  BY <1>6, <2>1, <2>2, RequestIsFixed DEF Settled
  <2>3. CASE ~Over' /\ ~AtomicView /\ AtomicMutations
    <3>1. v[1] = w[1]  BY <1>6, <2>1, <2>3 DEF Unit
    <3>2. QED  BY <1>6, <2>1, <2>3, <3>1, RequestIsFixed DEF Settled
  <2>4. CASE ~Over' /\ ~AtomicView /\ ~AtomicMutations
    <3>1. v = w  BY <1>6, <2>1, <2>4 DEF Unit
    <3>2. QED  BY <1>6, <3>1
  <2>5. QED  BY <2>2, <2>3, <2>4
<1>7. QED  BY <1>1, <1>4, <1>5, <1>6

\* A field that saves makes a write of its unit, or of a unit of its own.
LEMMA SavingMakes ==
    ASSUME IndInv, EffectInv, ResolveMutationField, saved' = saved \cup {<<cur, field>>}
    PROVE  LET f == <<cur, field>> IN Abstract!Make(f) \/ Abstract!WriteThrough(f)
<1> DEFINE f == <<cur, field>>
<1> USE DEF IndInv, EffectInv
<1>0. [Next]_vars  BY DEF Next, Handle
<1>1. f \in Fields /\ f \notin saved /\ results[f] = "unresolved" /\ f[1] = cur
  BY ResolveEffect
<1>2. ~Over /\ ~Over' /\ phase = "executing" /\ phase' = "executing" /\ cur' = cur
  BY DEF ResolveMutationField, Over
<1>3. entry.operation = "mutation"  BY DEF ResolveMutationField, Position
<1>4. Unit' = Unit  BY <1>0, UnitsAreSettled
<1>5. CASE AtomicView
  <2>1. Settled = {} /\ Settled' = {}
    BY <1>0, <1>2, <1>5, RequestIsFixed DEF Settled
  <2>2. conn.in_atomic_block
    BY <1>2, <1>5 DEF BlocksMatchCode, InRequestBlock
  <2>3. conn'.db = conn.db  BY <2>2, ResolveOnConnection
  <2>4. QED  BY <1>1, <1>4, <2>1, <2>3 DEF Abstract!Make
<1>6. CASE ~AtomicView /\ AtomicMutations
  <2>1. Settled = {g \in Fields : g[1] < cur} /\ Settled' = {g \in Fields : g[1] < cur}
    <3>1. AtomicView' = AtomicView /\ AtomicMutations' = AtomicMutations
      BY <1>0, RequestIsFixed
    <3>2. Settled = {g \in Fields : EntryIsOver(g[1])}  BY <1>2, <1>6 DEF Settled
    <3>3. Settled' = {g \in Fields : \/ g[1] < cur'
                                     \/ /\ g[1] = cur'
                                        /\ phase' \notin {"get_response", "executing"}}
      BY <1>2, <1>6, <3>1 DEF Settled, EntryIsOver
    <3>4. QED  BY <1>2, <3>2, <3>3 DEF EntryIsOver
  <2>2. Settled' = Settled  BY <2>1
  <2>3. f \notin Settled  BY <1>1, <2>1 DEF TypeOK
  <2>4. conn.in_atomic_block
    BY <1>2, <1>3, <1>6 DEF BlocksMatchCode, InMutationBlock, InTransaction
  <2>5. conn'.db = conn.db  BY <2>4, ResolveOnConnection
  <2>6. QED  BY <1>1, <1>4, <2>2, <2>3, <2>5 DEF Abstract!Make
<1>7. CASE ~AtomicView /\ ~AtomicMutations
  <2>1. Settled = {g \in Fields : results[g] # "unresolved"}
    BY <1>2, <1>7 DEF Settled
  <2>2. Settled' = {g \in Fields : results'[g] # "unresolved"}
    BY <1>0, <1>2, <1>7, RequestIsFixed DEF Settled
  <2>3. Settled' = Settled \cup {f}
    BY <1>1, <2>1, <2>2, ResolveEffect
  <2>4. f \notin Settled  BY <1>1, <2>1
  <2>5. ~conn.in_atomic_block
    BY <1>7 DEF BlocksMatchCode, InRequestBlock, InMutationBlock, InTransaction
  <2>6. conn'.db = conn.db \cup {f}  BY <2>5, ResolveOnConnection
  <2>7. Unit[f] = {f}  BY <1>1, <1>7 DEF Unit
  <2>8. QED  BY <1>1, <1>4, <2>3, <2>4, <2>6, <2>7 DEF Abstract!WriteThrough
<1>8. QED  BY <1>5, <1>6, <1>7

\* Every other step decides whole units, or none.
LEMMA OtherStepsSettle ==
    ASSUME IndInv, IndInv', EffectInv, [Next]_vars, saved' = saved
    PROVE  Abstract!Settle
<1> USE DEF IndInv, EffectInv, Isolation
<1>1. /\ Unit' = Unit /\ Settled \subseteq Settled' /\ Settled' \subseteq Fields
      /\ \A w \in Settled' : Unit[w] \subseteq Settled'
  BY UnitsAreSettled
<1>2. CASE conn'.db = conn.db
  BY <1>1, <1>2 DEF Abstract!Settle
<1>3. CASE conn'.db # conn.db /\ AtomicView
  <2>1. ~Over /\ conn.db = {}
    BY <1>3, OverStaysOver DEF RequestAllOrNothing, vars, Over
  <2>2. Over' /\ conn'.db = saved
    BY <1>3, <2>1, RequestIsFixed DEF RequestAllOrNothing, Over
  <2>3. Settled = {} /\ Settled' = Fields
    BY <1>3, <2>1, <2>2 DEF Settled
  <2>4. saved \subseteq Fields  BY DEF TypeOK
  <2>5. QED  BY <1>1, <2>1, <2>2, <2>3, <2>4 DEF Abstract!Settle
<1>4. CASE conn'.db # conn.db /\ ~AtomicView
  <2>1. \/ ResolveMutationField /\ saved' = saved \cup {<<cur, field>>}
        \/ EndMutation /\ InTransaction(entry) /\ conn'.db = conn.db \cup WritesOf(cur)
    BY <1>4, WhatIsCommitted
  <2>2. EndMutation /\ InTransaction(entry) /\ conn'.db = conn.db \cup WritesOf(cur)
    BY <2>1, ResolveEffect
  <2>3. /\ AtomicMutations /\ ~Over /\ ~Over' /\ cur' = cur
        /\ phase = "executing" /\ phase' = "executed"
    BY <2>2 DEF EndMutation, InTransaction, Over
  <2>4. /\ Settled = {g \in Fields : g[1] < cur}
        /\ Settled' = {g \in Fields : g[1] < cur \/ g[1] = cur}
    <3>1. AtomicView' = AtomicView /\ AtomicMutations' = AtomicMutations
      BY RequestIsFixed
    <3>2. Settled = {g \in Fields : EntryIsOver(g[1])}  BY <1>4, <2>3 DEF Settled
    <3>3. Settled' = {g \in Fields : \/ g[1] < cur'
                                     \/ /\ g[1] = cur'
                                        /\ phase' \notin {"get_response", "executing"}}
      BY <1>4, <2>3, <3>1 DEF Settled, EntryIsOver
    <3>4. QED  BY <2>3, <3>2, <3>3 DEF EntryIsOver
  <2>5. ~(cur < cur)  BY DEF TypeOK
  <2>6. WritesOf(cur) \subseteq saved \cap (Settled' \ Settled)
    BY <2>4, <2>5 DEF WritesOf, TypeOK
  <2>7. \A w \in WritesOf(cur) : Unit[w] \cap saved \subseteq WritesOf(cur)
    <3>1. \A w \in WritesOf(cur) : Unit[w] = {g \in Fields : g[1] = cur}
      BY <1>4, <2>3 DEF Unit, WritesOf, TypeOK
    <3>2. QED  BY <3>1 DEF WritesOf
  <2>8. QED  BY <1>1, <2>2, <2>6, <2>7 DEF Abstract!Settle
<1>5. QED  BY <1>2, <1>3, <1>4

\* The view implements AtomicUnits: what a unit saved becomes visible in one
\* step, whole, at most once and for good, for every request and settings.
THEOREM UnitsAreKept == Spec => AtomicUnitsKept
<1>1. Init => Abstract!Init  BY InitUnits
<1>2. IndInv /\ IndInv' /\ EffectInv /\ [Next]_vars => [Abstract!Next]_(Abstract!vars)
  <2> SUFFICES ASSUME IndInv, IndInv', EffectInv, [Next]_vars PROVE Abstract!Next
    OBVIOUS
  <2>1. CASE saved' = saved
    BY <2>1, OtherStepsSettle DEF Abstract!Next
  <2>2. CASE saved' # saved
    <3>1. ResolveMutationField  BY <2>2, OnlyResolveSaves
    <3>2. <<cur, field>> \in Fields /\ saved' = saved \cup {<<cur, field>>}
      BY <2>2, <3>1, ResolveEffect DEF IndInv, EffectInv
    <3>3. QED  BY <3>1, <3>2, SavingMakes DEF Abstract!Next
  <2>3. QED  BY <2>1, <2>2
<1>3. QED  BY <1>1, <1>2, Induction, EffectInduction, PTL DEF Spec, AtomicUnitsKept, Abstract!Spec
=============================================================================
