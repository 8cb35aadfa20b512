------------------------- MODULE DjangoTransaction -------------------------
(***************************************************************************)
(* The part of a Django database connection that graphene-django relies    *)
(* on: django.db.transaction.atomic, set_rollback and the per-connection   *)
(* bookkeeping behind them.  Django is not part of this repository; the    *)
(* operators say what views.py and utils.py get from it when they call     *)
(* `transaction.atomic()`, `transaction.set_rollback(True)` and            *)
(* `connection.in_atomic_block`.                                           *)
(*                                                                         *)
(* A connection is a value.  db holds the writes that are committed, work  *)
(* those the open transaction would commit; the two are equal in           *)
(* autocommit mode.  savepoint_ids holds, per inner atomic block, the      *)
(* snapshot of work its savepoint took: {work}, or {} for the None pushed  *)
(* by a block that set no savepoint.                                       *)
(***************************************************************************)
EXTENDS Sequences, Naturals

\* Connections over a set of writes, those the mutations of a request can make.
Connection(Writes) ==
    [db : SUBSET Writes, work : SUBSET Writes, in_atomic_block : BOOLEAN,
     savepoint_ids : Seq(SUBSET SUBSET Writes), needs_rollback : BOOLEAN]

Autocommit(db) ==
    [db |-> db, work |-> db, in_atomic_block |-> FALSE,
     savepoint_ids |-> <<>>, needs_rollback |-> FALSE]

-----------------------------------------------------------------------------
\* Atomic.__enter__: the outermost block begins a transaction, an inner one
\* sets a savepoint unless the transaction is already lost.
Savepoint(c) == IF c.needs_rollback THEN {} ELSE {c.work}

EnterAtomic(c) ==
    IF c.in_atomic_block
    THEN [c EXCEPT !.savepoint_ids = Append(@, Savepoint(c))]
    ELSE [c EXCEPT !.in_atomic_block = TRUE, !.needs_rollback = FALSE]

\* Atomic.__exit__: commit and release, or roll back, by nesting depth.
Outermost(c) == c.savepoint_ids = <<>>
Innermost(c) == c.savepoint_ids[Len(c.savepoint_ids)]
Pop(c) == SubSeq(c.savepoint_ids, 1, Len(c.savepoint_ids) - 1)

Commit(c) ==
    IF Outermost(c) THEN Autocommit(c.work)
    ELSE [c EXCEPT !.savepoint_ids = Pop(c)]

Rollback(c) ==
    IF Outermost(c) THEN Autocommit(c.db)
    ELSE IF Innermost(c) = {}
    THEN [c EXCEPT !.savepoint_ids = Pop(c), !.needs_rollback = TRUE]
    ELSE [c EXCEPT !.savepoint_ids = Pop(c), !.needs_rollback = FALSE,
                   !.work = UNION Innermost(c)]

\* Leaving a block without an exception commits unless somebody asked for a
\* rollback; the database may refuse the commit (a deferred constraint, a lost
\* connection), which rolls back and raises out of the block.
CommitRefused(c, refuses) == ~c.needs_rollback /\ refuses

ExitAtomic(c, refuses) ==
    IF c.needs_rollback \/ refuses THEN Rollback(c) ELSE Commit(c)

\* transaction.set_rollback(True), legal only inside an atomic block.
SetRollback(c) == [c EXCEPT !.needs_rollback = TRUE]

\* A successful Model.save(): part of the transaction, or committed at once.
Save(c, w) ==
    IF c.in_atomic_block THEN [c EXCEPT !.work = @ \cup {w}]
    ELSE [c EXCEPT !.work = @ \cup {w}, !.db = @ \cup {w}]

\* A Model.save() the database refuses: mark_for_rollback_on_error.
SaveFails(c) == [c EXCEPT !.needs_rollback = @ \/ c.in_atomic_block]

\* The process dies: the database forgets what was not committed.
Lose(c) == Autocommit(c.db)
=============================================================================
