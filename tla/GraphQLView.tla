---------------------------- MODULE GraphQLView ----------------------------
(***************************************************************************)
(* One HTTP request through graphene_django.views.GraphQLView: dispatch,   *)
(* one get_response per entry of the body, the serial execution of the     *)
(* mutation fields of an operation, and the three places that decide       *)
(* whether what they saved is kept:                                        *)
(*   - Django's ATOMIC_REQUESTS transaction around the view, which         *)
(*     get_response marks for rollback (utils.set_rollback);               *)
(*   - the ATOMIC_MUTATIONS transaction around execute, which              *)
(*     execute_graphql_request marks for rollback;                         *)
(*   - autocommit, when neither is set.                                    *)
(* The mutation classes talk to the view through MUTATION_ERRORS_FLAG, an  *)
(* attribute of the request that nothing ever clears.                      *)
(***************************************************************************)
EXTENDS Naturals, Sequences, Mutations, DjangoTransaction

CONSTANTS
    MaxEntries,   \* bound: entries of a batch
    MaxFields,    \* bound: fields of one mutation operation
    NoEntry       \* between two entries

ASSUME EntriesAssumption == MaxEntries \in Nat \ {0}
ASSUME FieldsAssumption == MaxFields \in Nat \ {0}

\* The j-th mutation field of the i-th entry; a field saves at most once, so a
\* write is named by the field that made it.
Fields == (1..MaxEntries) \X (1..MaxFields)

Settings ==
    {s \in [batch : BOOLEAN, graphiql : BOOLEAN,
            ATOMIC_MUTATIONS : BOOLEAN,      \* GRAPHENE["ATOMIC_MUTATIONS"]
            db_ATOMIC_MUTATIONS : BOOLEAN,   \* DATABASES[...]["ATOMIC_MUTATIONS"]
            ATOMIC_REQUESTS : BOOLEAN,
            non_atomic_requests : BOOLEAN,   \* the view opts out of ATOMIC_REQUESTS
            valid_schema : BOOLEAN] :
        /\ ~(s.batch /\ s.graphiql)
        /\ s.non_atomic_requests => s.ATOMIC_REQUESTS}   \* no effect otherwise

\* What reaches dispatch: the body by content type and, for JSON, by what it
\* decodes to.  wants_html is the verdict of can_display_graphiql.
Request ==
    {r \in [method : {"get", "post", "other"},
            body : {"none", "graphql", "form", "json_dict", "json_list", "json_other"},
            length : 0..MaxEntries, wants_html : BOOLEAN] :
        r.body \notin {"json_list", "form"} => r.length = 0}

\* One operation as get_response meets it.  `binds`: the operation name and
\* the variables suit the document, so execute() starts resolving fields.
Entry ==
    [shape : {"text", "bad_variables", "no_query", "unparsable", "document"},
     operation : {"query", "subscription", "mutation", "none"},
     valid : BOOLEAN, binds : BOOLEAN, fields : 1..MaxFields, required : BOOLEAN]

Phases == {"arrived", "dispatch", "get_response", "executing", "executed",
           "responding", "raised", "done", "crashed"}
Answers == {"none", "graphiql", "responses", "http_error", "server_error"}
Errors == {"path", "no_path"}
Results == {"unresolved", "payload", "errors", "null"}
Response == [errors : SUBSET Errors, status : {200, 400}]

VARIABLES
    settings,   \* the deployment's settings
    request,    \* the request, fixed on arrival
    phase,      \* where the handler is
    cur,        \* index of the entry being answered
    entry,      \* that entry
    field,      \* next mutation field to resolve
    flag,       \* request.graphene_mutation_has_errors
    errors,     \* errors of the current execution result
    results,    \* what each mutation field resolved to
    saved,      \* fields whose save() succeeded (history)
    responses,  \* what get_response returned for the entries so far
    answer,     \* which way the HTTP response came about
    http,       \* its status code
    conn        \* the database connection

vars == <<settings, request, phase, cur, entry, field, flag, errors, results,
          saved, responses, answer, http, conn>>

execution == <<cur, entry, field, flag, errors, results, saved, responses>>
-----------------------------------------------------------------------------
AtomicMutations == settings.ATOMIC_MUTATIONS \/ settings.db_ATOMIC_MUTATIONS
AtomicView == settings.ATOMIC_REQUESTS /\ ~settings.non_atomic_requests

\* Mutant: both settings are required, where the code takes either.
InTransactionNeedsBoth(e) ==
    e.operation = "mutation" /\ settings.ATOMIC_MUTATIONS /\ settings.db_ATOMIC_MUTATIONS

InTransaction(e) == e.operation = "mutation" /\ AtomicMutations

\* parse_body: only a JSON body can be refused.
BodyParses ==
    request.body \in {"json_dict", "json_list", "json_other"} =>
        IF settings.batch THEN request.body = "json_list" /\ request.length > 0
        ELSE request.body = "json_dict"

\* How often dispatch calls get_response; a batch view that got a form or an
\* application/graphql body iterates over the keys of a dict.
EntryCount ==
    IF ~settings.batch \/ request.body = "graphql" THEN 1 ELSE request.length

\* An entry is a dict unless a batch view iterates over keys, or the client put
\* something else in the list.  A text serves, too, if the URL has all four
\* parameters, the query among them: its .get is not asked for then.
PossibleEntries ==
    {e \in Entry :
        /\ e.shape = "text" => settings.batch
        /\ settings.batch /\ request.body # "json_list" => e.shape # "no_query"}

ShowGraphiQL == settings.graphiql /\ request.wants_html
KnownMethod == request.method \in {"get", "post"}

\* get_graphql_params and the first lines of execute_graphql_request.
LacksQuery(e) == e.shape \in {"bad_variables", "no_query"}
FailsToParse(e) == ~settings.valid_schema \/ e.shape = "unparsable"

\* Mutant: the check of the method forgets mutations.
MutationAllowed(e) == request.method = "get" /\ e.operation = "subscription"

NotAllowed(e) == request.method = "get" /\ e.operation \in {"mutation", "subscription"}

\* get_response: an error that names no field makes the entry a bad request.

\* Mutant: any error makes the entry a bad request.
StatusOfAnyError == IF errors # {} THEN 400 ELSE 200

StatusCode == IF "no_path" \in errors THEN 400 ELSE 200

\* utils.set_rollback and its two callers in get_response.

\* Mutant: connection.in_atomic_block is not looked at.
SetRollbackUnguarded(c) == IF settings.ATOMIC_REQUESTS THEN SetRollback(c) ELSE c

SetRollbackOfRequest(c) ==
    IF settings.ATOMIC_REQUESTS /\ c.in_atomic_block THEN SetRollback(c) ELSE c

\* Mutants: one of the two conditions is forgotten, or both.
RollbackOnFlag == flag
RollbackOnErrors == errors # {}
RollbackAlways == TRUE

RollbackRequested == flag \/ errors # {}

\* execute_graphql_request: the flag decides for the mutation's transaction.
\* Mutant: the flag is not looked at.
KeepDespiteFlag(c) == c

MarkIfFlagged(c) == IF flag THEN SetRollback(c) ELSE c

\* dispatch answers with the highest status of the batch.
HighestStatus(rs) == IF \E i \in DOMAIN rs : rs[i].status = 400 THEN 400 ELSE 200

Respond(how, code) == phase' = "responding" /\ answer' = how /\ http' = code
-----------------------------------------------------------------------------
Init ==
    /\ settings \in Settings
    /\ request \in Request
    /\ request.wants_html => settings.graphiql   \* dispatch asks only then
    /\ request.length > 0 => settings.batch      \* and counts only then
    /\ request.body = "form" => request.length <= 1   \* bound: keys of a form
    /\ phase = "arrived"
    /\ cur = 0 /\ entry = NoEntry /\ field = 1
    /\ flag = FALSE /\ errors = {}
    /\ results = [f \in Fields |-> "unresolved"]
    /\ saved = {} /\ responses = <<>>
    /\ answer = "none" /\ http = 0
    /\ conn = Autocommit({})

\* Django's handler: make_view_atomic opens the request's transaction.
EnterView ==
    /\ phase = "arrived"
    /\ phase' = "dispatch"
    /\ conn' = IF AtomicView THEN EnterAtomic(conn) ELSE conn
    /\ UNCHANGED <<settings, request, execution, answer, http>>

RefuseMethod ==
    /\ phase = "dispatch"
    /\ ~KnownMethod
    /\ Respond("http_error", 405)
    /\ UNCHANGED <<settings, request, execution, conn>>

RefuseBody ==
    /\ phase = "dispatch"
    /\ KnownMethod /\ ~BodyParses
    /\ Respond("http_error", 400)
    /\ UNCHANGED <<settings, request, execution, conn>>

RenderGraphiQL ==
    /\ phase = "dispatch"
    /\ KnownMethod /\ BodyParses /\ ShowGraphiQL
    /\ Respond("graphiql", 200)
    /\ UNCHANGED <<settings, request, execution, conn>>

\* The loop over the entries; a batch view that finds none answers "[]".
BeginResponses ==
    /\ phase = "dispatch"
    /\ KnownMethod /\ BodyParses /\ ~ShowGraphiQL
    /\ IF EntryCount = 0
       THEN Respond("responses", 200) /\ UNCHANGED cur
       ELSE phase' = "get_response" /\ cur' = 1 /\ UNCHANGED <<answer, http>>
    /\ UNCHANGED <<settings, request, entry, field, flag, errors, results, saved,
                   responses, conn>>

\* An entry that is not a dict has no .get: an AttributeError nobody catches.
RaiseOnEntry ==
    /\ phase = "get_response"
    /\ \E e \in PossibleEntries : e.shape = "text"
    /\ phase' = "raised"
    /\ UNCHANGED <<settings, request, execution, answer, http, conn>>

\* HttpError abandons the whole loop, with the responses it has built.
RejectEntry ==
    /\ phase = "get_response"
    /\ \E e \in PossibleEntries :
         \/ LacksQuery(e) /\ Respond("http_error", 400)
         \/ /\ e.shape = "document" /\ ~FailsToParse(e) /\ NotAllowed(e)
            /\ Respond("http_error", 405)
    /\ UNCHANGED <<settings, request, execution, conn>>

\* An ExecutionResult that holds schema, syntax or validation errors.
FailEntry ==
    /\ phase = "get_response"
    /\ \E e \in PossibleEntries :
         /\ e.shape \in {"unparsable", "document"}
         /\ FailsToParse(e) \/ (~NotAllowed(e) /\ ~e.valid)
    /\ errors' = {"no_path"}
    /\ phase' = "executed"
    /\ UNCHANGED <<settings, request, cur, entry, field, flag, results, saved,
                   responses, answer, http, conn>>

\* The try block around execute, up to the call.  A document that does not
\* bind comes back with an error and no field resolved.
BeginExecute ==
    /\ phase = "get_response"
    /\ \E e \in PossibleEntries :
         /\ e.shape = "document" /\ ~FailsToParse(e) /\ ~NotAllowed(e) /\ e.valid
         /\ e.operation = "none" => ~e.binds
         /\ entry' = e
         /\ errors' = IF e.binds THEN {} ELSE {"no_path"}
         /\ field' = IF e.binds /\ e.operation = "mutation" THEN 1 ELSE e.fields + 1
         /\ conn' = IF InTransaction(e) THEN EnterAtomic(conn) ELSE conn
    /\ phase' = "executing"
    /\ UNCHANGED <<settings, request, cur, flag, results, saved, responses,
                   answer, http>>

\* One mutation field, resolved and completed before the next begins.  A null
\* for a non-null field of the root type ends the execution.
ResolveMutationField ==
    /\ phase = "executing" /\ field <= entry.fields
    /\ \E o \in Outcomes[conn.needs_rollback] :
         LET f == <<cur, field>>
         IN  /\ results' = [results EXCEPT ![f] = o.data]
             /\ flag' = (flag \/ o.flagged)
             /\ saved' = IF o.saved THEN saved \cup {f} ELSE saved
             /\ conn' = IF o.saved THEN Save(conn, f)
                        ELSE IF o.refused THEN SaveFails(conn) ELSE conn
             /\ errors' = IF o.data = "null" THEN errors \cup {"path"} ELSE errors
             /\ field' = IF o.data = "null" /\ entry.required
                         THEN entry.fields + 1 ELSE field + 1
    /\ UNCHANGED <<settings, request, phase, cur, entry, responses, answer, http>>

\* Mutant: execute of a subscription does not return.
EndQueryOnly ==
    /\ phase = "executing" /\ entry.operation \in {"query", "none"}
    /\ errors' \in IF entry.binds THEN {{}, {"path"}} ELSE {errors}
    /\ phase' = "executed"
    /\ UNCHANGED <<settings, request, cur, entry, field, flag, results, saved,
                   responses, answer, http, conn>>

\* The fields of a query save nothing; some may raise.
EndQuery ==
    /\ phase = "executing" /\ entry.operation # "mutation"
    /\ errors' \in IF entry.binds THEN {{}, {"path"}} ELSE {errors}
    /\ phase' = "executed"
    /\ UNCHANGED <<settings, request, cur, entry, field, flag, results, saved,
                   responses, answer, http, conn>>

\* execute returned: the mutation's transaction ends, and a refused commit
\* replaces the result.
EndMutation ==
    /\ phase = "executing" /\ entry.operation = "mutation" /\ field > entry.fields
    /\ IF InTransaction(entry)
       THEN \E refuses \in BOOLEAN :
              /\ conn' = ExitAtomic(MarkIfFlagged(conn), refuses)
              /\ errors' = IF CommitRefused(MarkIfFlagged(conn), refuses)
                           THEN {"no_path"} ELSE errors
       ELSE UNCHANGED <<conn, errors>>
    /\ phase' = "executed"
    /\ UNCHANGED <<settings, request, cur, entry, field, flag, results, saved,
                   responses, answer, http>>

\* The rest of get_response, and the next turn of dispatch's loop.
FinishEntry ==
    /\ phase = "executed"
    /\ conn' = IF RollbackRequested THEN SetRollbackOfRequest(conn) ELSE conn
    /\ responses' = Append(responses, [errors |-> errors, status |-> StatusCode])
    /\ IF cur < EntryCount
       THEN phase' = "get_response" /\ cur' = cur + 1 /\ UNCHANGED <<answer, http>>
       ELSE Respond("responses", HighestStatus(responses')) /\ UNCHANGED cur
    /\ entry' = NoEntry /\ field' = 1 /\ errors' = {}
    /\ UNCHANGED <<settings, request, flag, results, saved>>

\* Django's handler again: the view returned, so its transaction commits
\* unless it was marked; a refused commit is a server error.
LeaveView ==
    /\ phase = "responding"
    /\ phase' = "done"
    /\ IF AtomicView
       THEN \E refuses \in BOOLEAN :
              /\ conn' = ExitAtomic(conn, refuses)
              /\ IF CommitRefused(conn, refuses)
                 THEN answer' = "server_error" /\ http' = 500
                 ELSE UNCHANGED <<answer, http>>
       ELSE UNCHANGED <<answer, http, conn>>
    /\ UNCHANGED <<settings, request, execution>>

\* An exception that left the view rolls the request's transaction back.
LeaveViewRaising ==
    /\ phase = "raised"
    /\ phase' = "done"
    /\ conn' = IF AtomicView THEN Rollback(conn) ELSE conn
    /\ answer' = "server_error" /\ http' = 500
    /\ UNCHANGED <<settings, request, execution>>

\* The worker process dies at any point of the request.
Crash ==
    /\ phase \notin {"done", "crashed"}
    /\ phase' = "crashed"
    /\ conn' = Lose(conn)
    /\ UNCHANGED <<settings, request, execution, answer, http>>

Handle ==
    \/ EnterView \/ RefuseMethod \/ RefuseBody \/ RenderGraphiQL \/ BeginResponses
    \/ RaiseOnEntry \/ RejectEntry \/ FailEntry \/ BeginExecute
    \/ ResolveMutationField \/ EndQuery \/ EndMutation
    \/ FinishEntry \/ LeaveView \/ LeaveViewRaising

Next == Handle \/ Crash

\* The handler is one synchronous call whose resolvers return: it keeps going.
Fairness == WF_vars(Handle)

Spec == Init /\ [][Next]_vars
FairSpec == Spec /\ Fairness
=============================================================================
