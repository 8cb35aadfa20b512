---------------------------- MODULE DjangoDebug ----------------------------
(***************************************************************************)
(* graphene_django.debug: DjangoDebugMiddleware gives a request a          *)
(* DjangoDebugContext when its first field is resolved, which replaces     *)
(* connection.cursor of the thread's database connection by one that logs  *)
(* into the context's DjangoDebug object (its panel); resolving the field  *)
(* `_debug` puts the cursor back and returns the panel.                    *)
(*                                                                         *)
(* A connection belongs to a thread and outlives the requests the thread   *)
(* serves, so what a request leaves on it meets the next one.  A batch's   *)
(* entries share the request, hence the context.  All connections of a     *)
(* thread are wrapped and unwrapped together: one stands for them.         *)
(***************************************************************************)
EXTENDS Naturals, Sequences

CONSTANTS
    Threads,       \* worker threads
    MaxRequests,   \* bound: GraphQL requests
    MaxFields      \* bound: fields resolved, over all requests

ASSUME DebugAssumption ==
    MaxRequests \in Nat /\ MaxFields \in Nat

\* A panel is named by the request it was made for; 0 stands for no request.
Requests == 1..MaxRequests

\* A query or an exception is named by its request, 0 for a query outside
\* GraphQL, and the number of the field that caused it.
Events == (0..MaxRequests) \X (1..MaxFields)
Panel == [sql : Seq(Events), exceptions : Seq(Events)]

\* What resolving a field other than `_debug` does: it may run a query, and it
\* returns, raises, or returns something that fails when it is completed (a
\* lazy queryset, a value its type refuses).
FieldKind == [queries : BOOLEAN, ends : {"returns", "raises", "fails_later"}]

\* What the request really did so far; `clean` if it found the connection
\* unwrapped.
History == [clean : BOOLEAN, ran : Seq(Events)]

\* A `_debug` as the client got it, beside the history at that moment.
Answer == [panel : Panel, history : History]

VARIABLES
    started,   \* number of requests so far
    resolved,  \* number of fields so far
    current,   \* the request each thread serves, or 0
    context,   \* requests whose django_debug attribute is set
    cursor,    \* per thread: the panel connection.cursor logs to, or 0
    panels,    \* the DjangoDebug object of each request
    history,   \* what each request did
    answers    \* per request: what its `_debug` fields showed

vars == <<started, resolved, current, context, cursor, panels, history, answers>>
-----------------------------------------------------------------------------
\* connections.all() in a thread: Django keeps the connections per thread.
\* Mutant: the connections of every thread.
AllConnections(t) == Threads
Connections(t) == {t}

\* wrap_cursor: a connection that is wrapped already keeps its panel.
WrapCursor(t, r) ==
    [c \in Threads |-> IF c \in Connections(t) /\ cursor[c] = 0 THEN r ELSE cursor[c]]

\* disable_instrumentation, whoever wrapped the cursor.
\* Mutant: nobody unwraps it.
KeepCursor(t) == cursor
UnwrapCursor(t) ==
    [c \in Threads |-> IF c \in Connections(t) THEN 0 ELSE cursor[c]]

\* The middleware's first lines: one context per request.
Instrumented(t) ==
    IF current[t] \in context THEN cursor ELSE WrapCursor(t, current[t])

\* NormalCursorWrapper._record, for a query that fails as for one that does not.
Log(ps, panel, query) ==
    IF panel = 0 THEN ps ELSE [ps EXCEPT ![panel].sql = Append(@, query)]

\* The cursor a resolver finds.
\* Mutant: the one from before the middleware ran.
LateCursor(t) == cursor[t]
ResolverCursor(t) == Instrumented(t)[t]

\* on_resolve_error sees what a resolver raises, nothing that comes later: an
\* exception of a lazy result is in no panel.
OnResolveError(ps, r, event) == [ps EXCEPT ![r].exceptions = Append(@, event)]

\* Marks the moment the context is made.
Observed(t) ==
    IF current[t] \in context THEN history
    ELSE [history EXCEPT ![current[t]].clean = cursor[t] = 0]

Appended(s, event, when) == IF when THEN Append(s, event) ELSE s

Noted(h, event, kind) ==
    [clean |-> h.clean, ran |-> Appended(h.ran, event, kind.queries)]
-----------------------------------------------------------------------------
Init ==
    /\ started = 0 /\ resolved = 0
    /\ current = [t \in Threads |-> 0]
    /\ context = {}
    /\ cursor = [t \in Threads |-> 0]
    /\ panels = [r \in Requests |-> [sql |-> <<>>, exceptions |-> <<>>]]
    /\ history = [r \in Requests |-> [clean |-> FALSE, ran |-> <<>>]]
    /\ answers = [r \in Requests |-> {}]

\* A thread begins to serve a GraphQL request: a fresh HttpRequest.
StartRequest(t) ==
    /\ current[t] = 0 /\ started < MaxRequests
    /\ started' = started + 1
    /\ current' = [current EXCEPT ![t] = started']
    /\ UNCHANGED <<resolved, context, cursor, panels, history, answers>>

\* DjangoDebugMiddleware.resolve, and the completion of what it returns.
ResolveField(t, kind) ==
    /\ current[t] # 0 /\ resolved < MaxFields
    /\ LET r == current[t]
           event == <<r, resolved + 1>>
           logged == IF kind.queries THEN Log(panels, ResolverCursor(t), event) ELSE panels
       IN  /\ panels' = IF kind.ends = "raises" THEN OnResolveError(logged, r, event)
                        ELSE logged
           /\ history' = [Observed(t) EXCEPT ![r] = Noted(@, event, kind)]
           /\ cursor' = Instrumented(t)
           /\ context' = context \cup {r}
    /\ resolved' = resolved + 1
    /\ UNCHANGED <<started, current, answers>>

\* The same for `_debug`: get_debug_result.  Its debug_result is an empty list
\* at all times, so `results` stays empty and the panel is returned at once.
ResolveDebug(t) ==
    /\ current[t] # 0 /\ resolved < MaxFields
    /\ cursor' = UnwrapCursor(t)
    /\ context' = context \cup {current[t]}
    /\ history' = Observed(t)
    /\ answers' = [answers EXCEPT ![current[t]] =
                     @ \cup {[panel |-> panels[current[t]],
                             history |-> history'[current[t]]]}]
    /\ resolved' = resolved + 1
    /\ UNCHANGED <<started, current, panels>>

\* The request is answered.  Nothing unwraps the cursor.
EndRequest(t) ==
    /\ current[t] # 0
    /\ current' = [current EXCEPT ![t] = 0]
    /\ UNCHANGED <<started, resolved, context, cursor, panels, history, answers>>

\* Another view, or Django's own middleware, uses the thread's connection.
QueryOutside(t) ==
    /\ current[t] = 0 /\ resolved < MaxFields
    /\ panels' = Log(panels, cursor[t], <<0, resolved + 1>>)
    /\ resolved' = resolved + 1
    /\ UNCHANGED <<started, current, context, cursor, history, answers>>

Next ==
    \E t \in Threads :
        \/ StartRequest(t) \/ EndRequest(t) \/ QueryOutside(t)
        \/ \E kind \in FieldKind : ResolveField(t, kind)
        \/ ResolveDebug(t)

Spec == Init /\ [][Next]_vars
-----------------------------------------------------------------------------
\* Every variable has its type.
TypeOK ==
    /\ started \in 0..MaxRequests /\ resolved \in 0..MaxFields
    /\ current \in [Threads -> 0..MaxRequests]
    /\ context \subseteq Requests
    /\ cursor \in [Threads -> 0..MaxRequests]
    /\ panels \in [Requests -> Panel]
    /\ history \in [Requests -> History]
    /\ answers \in [Requests -> SUBSET Answer]

OfRequest(s, r) == \A i \in DOMAIN s : s[i][1] = r

\* The first `_debug` among some; the documentation wants one, as last field.
FirstAmong(a, some) == \A b \in some : Len(a.history.ran) <= Len(b.history.ran)

\* What `_debug` shows a client are queries of its own request: none of a
\* request in another thread (the comment in enable_instrumentation), and none
\* that the thread ran before or after, although cursors stay wrapped.
ShowsOwnQueries ==
    \A r \in Requests : \A a \in answers[r] : OfRequest(a.panel.sql, r)

\* A request that found the connection unwrapped gets every query it ran, in
\* order, from its first `_debug`; later ones repeat that list.
CleanThreadShowsAll ==
    \A r \in Requests : \A a \in answers[r] : a.history.clean =>
        /\ SubSeq(a.history.ran, 1, Len(a.panel.sql)) = a.panel.sql
        /\ FirstAmong(a, answers[r]) => a.panel.sql = a.history.ran

\* The list of queries a client got is final: the object goes into the result
\* by reference, and no query of anybody is added to it afterwards.
ShownIsFinal ==
    \A r \in Requests : \A a \in answers[r] : a.panel.sql = panels[r].sql
-----------------------------------------------------------------------------
(* The inductive invariant behind TypeOK, ShowsOwnQueries and ShownIsFinal.*)

\* A request has one thread, and a context once a field was resolved.
OneThreadPerRequest ==
    /\ \A t \in Threads : current[t] <= started
    /\ \A t, u \in Threads : current[t] = current[u] /\ current[t] # 0 => t = u
    /\ \A r \in context : r <= started
    /\ \A r \in Requests \ context : answers[r] = {} /\ panels[r].sql = <<>>

\* A cursor logs for a request of its own thread, one that is over or is still
\* served there, and that has not shown its panel yet.
CursorsStayInThread ==
    \A t \in Threads : cursor[t] # 0 =>
        /\ cursor[t] \in context /\ answers[cursor[t]] = {}
        /\ \A u \in Threads : current[u] = cursor[t] => u = t

\* While a request is served its panel is clean.  (Afterwards it need not be.)
ServedPanelsAreClean ==
    \A t \in Threads : current[t] # 0 => OfRequest(panels[current[t]].sql, current[t])

DebugInv ==
    /\ TypeOK
    /\ OneThreadPerRequest /\ CursorsStayInThread /\ ServedPanelsAreClean
    /\ ShowsOwnQueries /\ ShownIsFinal

\* And behind CleanThreadShowsAll, relative to DebugInv: until its first
\* `_debug`, a request that found the connection unwrapped has its own panel on
\* it, with all its queries; from then on the panel is a beginning of them, and
\* was all of them once.
Begins(s, l) == Len(s) <= Len(l) /\ \A i \in DOMAIN s : s[i] = l[i]

FullyLogged ==
    \A r \in Requests :
        /\ r \notin context => ~history[r].clean /\ history[r].ran = <<>>
        /\ history[r].clean /\ answers[r] = {} =>
             \A t \in Threads : current[t] = r =>
                 cursor[t] = r /\ panels[r].sql = history[r].ran
        /\ \A a \in answers[r] : a.history.clean =>
             history[r].clean /\ Begins(panels[r].sql, a.history.ran)
        /\ history[r].clean /\ answers[r] # {} =>
             /\ Begins(panels[r].sql, history[r].ran)
             /\ \E b \in answers[r] : b.history.ran = panels[r].sql
-----------------------------------------------------------------------------
(* What the documentation says and the code does not do.                   *)

\* `_debug` shows all queries that happened in the GraphQL request.
RequestQueriesAreShown ==
    \A r \in Requests : \A a \in answers[r] :
        FirstAmong(a, answers[r]) => a.panel.sql = a.history.ran
=============================================================================
