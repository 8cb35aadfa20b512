-------------------------- MODULE GraphQLViewProps --------------------------
(***************************************************************************)
(* What is checked and proved about GraphQLView: the properties, and the   *)
(* refinement of AtomicUnits.                                              *)
(***************************************************************************)
EXTENDS GraphQLView

Over == phase \in {"done", "crashed"}
WritesOf(i) == {f \in saved : f[1] = i}
Answered == 1..Len(responses)
-----------------------------------------------------------------------------
\* Every variable has its type.
TypeOK ==
    /\ settings \in Settings /\ request \in Request
    /\ phase \in Phases
    /\ cur \in 0..MaxEntries /\ field \in 1..(MaxFields + 1)
    /\ entry \in Entry \cup {NoEntry}
    /\ flag \in BOOLEAN /\ errors \subseteq Errors
    /\ results \in [Fields -> Results] /\ saved \subseteq Fields
    /\ responses \in Seq(Response)
    /\ answer \in Answers /\ http \in {0, 200, 400, 405, 500}
    /\ conn \in Connection(Fields)

\* The atomic blocks that are open are those of the code that is running: the
\* request's from EnterView to the answer, the mutation's while execute runs.
\* No block and no pending rollback is left on the connection for the next
\* request, and set_rollback never marks a connection outside a block.
InRequestBlock == AtomicView /\ phase # "arrived" /\ ~Over
InMutationBlock == phase = "executing" /\ InTransaction(entry)

BlocksMatchCode ==
    /\ conn.in_atomic_block <=> (InRequestBlock \/ InMutationBlock)
    /\ Len(conn.savepoint_ids) = IF InRequestBlock /\ InMutationBlock THEN 1 ELSE 0
    /\ ~conn.in_atomic_block => conn.work = conn.db /\ ~conn.needs_rollback

\* ATOMIC_REQUESTS: nothing is visible before the answer, and then all that
\* the request saved or none of it, however many mutations of a batch rolled
\* their own savepoint back in between.
RequestAllOrNothing ==
    AtomicView => /\ phase # "done" => conn.db = {}
                  /\ conn.db \in {{}, saved}

\* ATOMIC_REQUESTS: a request that set the errors flag, has an error in any
\* response, or was answered by a server error leaves nothing behind.
ErrorsRollBackRequest ==
    AtomicView /\ phase = "done"
        /\ (flag \/ answer = "server_error" \/ \E i \in Answered : responses[i].errors # {})
    => conn.db = {}

\* ATOMIC_MUTATIONS: once a form has set the errors flag, the mutation at hand
\* leaves nothing in the database, what it saved before the flag included.
FlagRollsMutationBack == AtomicMutations /\ flag => WritesOf(cur) \cap conn.db = {}

\* When the client gets responses without any error and no form complained,
\* everything the mutations saved is in the database, under every setting.
CleanAnswerIsDurable ==
    phase = "done" /\ answer = "responses" /\ ~flag
        /\ (\A i \in Answered : responses[i].errors = {})
    => conn.db = saved

\* An entry that is answered as a bad request, by itself or by an HttpError,
\* has changed nothing: a client may correct it and send it again.
BadRequestHasNoEffect ==
    /\ \A i \in Answered : responses[i].status = 400 => WritesOf(i) \cap conn.db = {}
    /\ answer = "http_error" => WritesOf(cur) = {}

\* A GET never resolves a mutation field, in no entry of no batch.
GetIsSafe == request.method = "get" => saved = {} /\ ~flag

\* Every request that reaches the view is answered, unless the process dies.
RequestIsAnswered == <>(Over /\ (phase = "done" => answer # "none"))
-----------------------------------------------------------------------------
(* The inductive invariant behind TypeOK, BlocksMatchCode,                 *)
(* RequestAllOrNothing, ErrorsRollBackRequest and GetIsSafe.               *)

\* Where the handler is: which entry, which field, and what it has by then.
Position ==
    /\ phase \in {"arrived", "dispatch"} => ~flag /\ responses = <<>> /\ saved = {}
    /\ phase \in {"get_response", "executing", "executed"} =>
         cur \in 1..EntryCount /\ Len(responses) = cur - 1
    /\ phase = "executing" =>
         /\ entry \in Entry /\ field \in 1..(entry.fields + 1)
         /\ field <= entry.fields => entry.operation = "mutation" /\ ~NotAllowed(entry)
    /\ answer = "server_error" => phase = "done"

\* ATOMIC_REQUESTS: until the answer the request's transaction holds what was
\* saved, or is lost, or is about to be marked by get_response.
WorkIsSavedOrDoomed ==
    InRequestBlock =>
        \/ conn.work = saved
        \/ conn.needs_rollback
        \/ phase = "executed" /\ RollbackRequested

\* The mutation's block inside it: a block without a savepoint is in a lost
\* transaction, and one that lost its transaction itself has an error to show.
InnerBlock ==
    InRequestBlock /\ InMutationBlock =>
        /\ Innermost(conn) = {} => conn.needs_rollback
        /\ conn.needs_rollback => Innermost(conn) = {} \/ errors # {}

\* Once get_response has seen an error or the flag the transaction stays lost,
\* through the savepoints of later mutations as well.
StaysDoomed ==
    InRequestBlock =>
        /\ (\E i \in Answered : responses[i].errors # {}) =>
             conn.needs_rollback /\ (InMutationBlock => Innermost(conn) = {})
        /\ flag /\ phase \in {"get_response", "responding", "raised"} => conn.needs_rollback

Isolation ==
    /\ RequestAllOrNothing /\ WorkIsSavedOrDoomed /\ InnerBlock
    /\ StaysDoomed /\ ErrorsRollBackRequest

\* The inductive invariant.
IndInv == TypeOK /\ Position /\ BlocksMatchCode /\ Isolation /\ GetIsSafe
-----------------------------------------------------------------------------
(* The inductive invariant behind FlagRollsMutationBack,                   *)
(* CleanAnswerIsDurable and BadRequestHasNoEffect; it is inductive         *)
(* relative to IndInv.                                                     *)

\* Fields are resolved in the order of the entries and, in one, of the fields;
\* only a resolved field has saved.
ResolvedInOrder ==
    /\ phase \in {"arrived", "dispatch"} => cur = 0
    /\ \A f \in Fields : results[f] # "unresolved" =>
         /\ f[1] <= cur
         /\ f[1] = cur => phase # "get_response"
         /\ f[1] = cur /\ phase = "executing" => f[2] < field
    /\ \A f \in saved : results[f] # "unresolved"

\* The errors of the execution at hand: none before it, and one that names no
\* field comes from a document that does not bind.
ErrorsAtHand ==
    /\ phase \notin {"executing", "executed", "crashed"} => errors = {}
    /\ phase = "executing" =>
         /\ "no_path" \in errors => field > entry.fields /\ WritesOf(cur) = {}
         /\ entry.binds /\ entry.operation # "mutation" => errors = {}

\* Nothing is in the database that was not saved.  ATOMIC_MUTATIONS alone: the
\* mutation's transaction adds what the mutation saved, and is lost only when a
\* field has an error.
OnlyBlock ==
    /\ conn.db \subseteq saved
    /\ ~AtomicView /\ InMutationBlock =>
        /\ conn.work = conn.db \cup WritesOf(cur)
        /\ WritesOf(cur) \cap conn.db = {}
        /\ conn.needs_rollback => errors # {}

\* Nothing has gone wrong so far, as far as the client will be told.
CleanSoFar == ~flag /\ errors = {} /\ \A i \in Answered : responses[i].errors = {}

\* The request's transaction is lost only for a reason the client will see.
LossHasACause == InRequestBlock /\ conn.needs_rollback => ~CleanSoFar

\* Without it, what was saved is in the database, but for the mutation at hand.
DurableSoFar ==
    ~AtomicView /\ phase # "crashed" /\ CleanSoFar =>
        conn.db = IF InMutationBlock THEN saved \ WritesOf(cur) ELSE saved

\* A bad request is one that has an error, and it left nothing; nothing runs
\* once the answer is chosen.
BadSoFar ==
    /\ answer # "none" => phase \in {"responding", "done", "crashed"}
    /\ \A i \in Answered : responses[i].status = 400 => responses[i].errors # {}
    /\ phase = "executed" /\ "no_path" \in errors /\ ~AtomicView =>
         WritesOf(cur) \cap conn.db = {}

\* The second inductive invariant.
EffectInv ==
    /\ ResolvedInOrder /\ ErrorsAtHand /\ OnlyBlock /\ LossHasACause /\ DurableSoFar
    /\ BadSoFar /\ FlagRollsMutationBack /\ BadRequestHasNoEffect /\ CleanAnswerIsDurable
-----------------------------------------------------------------------------
\* Which units the settings promise, and which of them are decided by now.
Unit ==
    [f \in Fields |->
        IF AtomicView THEN Fields
        ELSE IF AtomicMutations THEN {g \in Fields : g[1] = f[1]} ELSE {f}]

EntryIsOver(i) == i < cur \/ (i = cur /\ phase \notin {"get_response", "executing"})

Settled ==
    IF Over THEN Fields
    ELSE IF AtomicView THEN {}
    ELSE IF AtomicMutations THEN {f \in Fields : EntryIsOver(f[1])}
    ELSE {f \in Fields : results[f] # "unresolved"}

Abstract == INSTANCE AtomicUnits
    WITH Writes <- Fields, unit <- Unit, made <- saved, settled <- Settled, db <- conn.db

\* The view keeps what the transaction settings promise: what a unit saved
\* becomes visible in one step, whole, once, and for good.
AtomicUnitsKept == Abstract!Spec
-----------------------------------------------------------------------------
(* What the documentation says and the code does not do.                   *)

\* ATOMIC_MUTATIONS: all the fields of a mutation occur or none of them; beside
\* one that raised or reported errors, none that succeeded is in the database.
AllFieldsOccurOrNone ==
    AtomicMutations => \A i \in Answered : \A j, k \in 1..MaxFields :
        results[<<i, j>>] \in {"null", "errors"} /\ results[<<i, k>>] = "payload"
        => <<i, k>> \notin conn.db
=============================================================================
