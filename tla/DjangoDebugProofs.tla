------------------------- MODULE DjangoDebugProofs -------------------------
(***************************************************************************)
(* Theorems about DjangoDebug for any set of threads and any bounds.       *)
(***************************************************************************)
EXTENDS DjangoDebug, SequenceTheorems, TLAPS

\* Logging changes one panel at most, and there the list of queries only.
LEMMA LogFacts ==
    ASSUME NEW ps \in [Requests -> Panel], NEW p \in 0..MaxRequests, NEW q \in Events
    PROVE  /\ Log(ps, p, q) \in [Requests -> Panel]
           /\ \A r \in Requests : r # p => Log(ps, p, q)[r].sql = ps[r].sql
           /\ \A r \in Requests : r = p => Log(ps, p, q)[r].sql = Append(ps[r].sql, q)
<1>1. CASE p = 0
  BY <1>1, DebugAssumption DEF Log, Requests
<1>2. CASE p # 0
  <2>1. p \in Requests  BY <1>2, DebugAssumption DEF Requests
  <2>2. Append(ps[p].sql, q) \in Seq(Events)  BY <2>1 DEF Panel
  <2>3. [ps EXCEPT ![p].sql = Append(@, q)] \in [Requests -> Panel]
    BY <2>1, <2>2 DEF Panel
  <2>4. QED  BY <1>2, <2>1, <2>3 DEF Log, Panel
<1>3. QED  BY <1>1, <1>2

\* Recording an exception leaves the queries of every panel.
LEMMA ErrorFacts ==
    ASSUME NEW ps \in [Requests -> Panel], NEW p \in Requests, NEW e \in Events
    PROVE  /\ OnResolveError(ps, p, e) \in [Requests -> Panel]
           /\ \A r \in Requests : OnResolveError(ps, p, e)[r].sql = ps[r].sql
<1>1. Append(ps[p].exceptions, e) \in Seq(Events)  BY DEF Panel
<1>2. QED  BY <1>1 DEF OnResolveError, Panel

\* A list of a request's own queries stays one when it logs another.
LEMMA OwnAppend ==
    ASSUME NEW s \in Seq(Events), NEW r, NEW e \in Events, OfRequest(s, r), e[1] = r
    PROVE  OfRequest(Append(s, e), r)
  BY DEF OfRequest

\* The initial state satisfies the invariant.
LEMMA InitDebugInv == Init => DebugInv
<1> SUFFICES ASSUME Init PROVE DebugInv
  OBVIOUS
<1>1. <<>> \in Seq(Events)  OBVIOUS
<1>2. TypeOK
  BY <1>1, DebugAssumption DEF Init, TypeOK, Panel, History, Answer
<1>3. OneThreadPerRequest  BY DebugAssumption DEF Init, OneThreadPerRequest
<1>4. QED
  BY <1>2, <1>3 DEF Init, DebugInv, CursorsStayInThread, ServedPanelsAreClean,
     ShowsOwnQueries, ShownIsFinal
-----------------------------------------------------------------------------
\* Making the context: what the middleware leaves on the connections, and what
\* a resolver finds there.
LEMMA InstrumentedFacts ==
    ASSUME DebugInv, NEW t \in Threads, current[t] # 0
    PROVE  LET cs == Instrumented(t)
           IN  /\ current[t] \in Requests
               /\ cs \in [Threads -> 0..MaxRequests]
               /\ \A u \in Threads : cs[u] # 0 =>
                    /\ cs[u] \in context \cup {current[t]} /\ answers[cs[u]] = {}
                    /\ \A v \in Threads : current[v] = cs[u] => v = u
<1>1. current[t] \in Requests  BY DebugAssumption DEF DebugInv, TypeOK, Requests
<1>2. CASE current[t] \in context
  BY <1>1, <1>2 DEF Instrumented, DebugInv, TypeOK, CursorsStayInThread
<1>3. CASE current[t] \notin context
  <2>1. answers[current[t]] = {}  BY <1>1, <1>3 DEF DebugInv, OneThreadPerRequest
  <2>2. \A v \in Threads : current[v] = current[t] => v = t
    BY DEF DebugInv, OneThreadPerRequest
  <2>3. Instrumented(t) = [c \in Threads |->
                             IF c = t /\ cursor[c] = 0 THEN current[t] ELSE cursor[c]]
    BY <1>3 DEF Instrumented, WrapCursor, Connections
  <2>4. Instrumented(t) \in [Threads -> 0..MaxRequests]
    BY <2>3 DEF DebugInv, TypeOK
  <2>5. QED  BY <1>1, <2>1, <2>2, <2>3, <2>4 DEF DebugInv, CursorsStayInThread
<1>4. QED  BY <1>2, <1>3

\* Making the context leaves the history its type.
LEMMA ObservedFacts ==
    ASSUME TypeOK, NEW t \in Threads, current[t] \in Requests
    PROVE  Observed(t) \in [Requests -> History]
<1>1. (cursor[t] = 0) \in BOOLEAN  OBVIOUS
<1>2. [history EXCEPT ![current[t]].clean = cursor[t] = 0] \in [Requests -> History]
  BY <1>1 DEF TypeOK, History
<1>3. QED  BY <1>2 DEF Observed, TypeOK
-----------------------------------------------------------------------------
\* Resolving a field preserves the invariant: its query is logged by a panel
\* that has not been shown, and by one in service only if it is the request's.
LEMMA ResolveFieldInv ==
    ASSUME DebugInv, NEW t \in Threads, NEW kind \in FieldKind, ResolveField(t, kind)
    PROVE  DebugInv'
<1> DEFINE r == current[t]
           event == <<r, resolved + 1>>
           p == ResolverCursor(t)
           logged == IF kind.queries THEN Log(panels, p, event) ELSE panels
<1>1. TypeOK /\ r # 0  BY DEF DebugInv, ResolveField
<1>2. /\ r \in Requests /\ Instrumented(t) \in [Threads -> 0..MaxRequests]
      /\ \A u \in Threads : Instrumented(t)[u] # 0 =>
           /\ Instrumented(t)[u] \in context \cup {r}
           /\ answers[Instrumented(t)[u]] = {}
           /\ \A v \in Threads : current[v] = Instrumented(t)[u] => v = u
  BY <1>1, InstrumentedFacts
<1>3. event \in Events /\ event[1] = r
  BY <1>1, <1>2, DebugAssumption DEF ResolveField, Events, TypeOK, Requests
<1>4. /\ p \in 0..MaxRequests
      /\ p # 0 => answers[p] = {} /\ p \in context \cup {r}
      /\ \A v \in Threads : p # 0 /\ current[v] = p => v = t
  BY <1>2 DEF ResolverCursor
<1>5. /\ logged \in [Requests -> Panel]
      /\ \A q \in Requests : q # p => logged[q].sql = panels[q].sql
      /\ \A q \in Requests : q = p =>
           logged[q].sql = panels[q].sql \/ logged[q].sql = Append(panels[q].sql, event)
  <2> HIDE DEF event, p
  <2>1. CASE kind.queries
    <3>1. panels \in [Requests -> Panel]  BY <1>1 DEF TypeOK
    <3>2. logged = Log(panels, p, event)  BY <2>1
    <3> HIDE DEF logged
    <3>3. QED  BY <1>3, <1>4, <3>1, <3>2, LogFacts
  <2>2. CASE ~kind.queries
    BY <1>1, <2>2 DEF TypeOK
  <2>3. QED  BY <2>1, <2>2
<1>6. panels' = IF kind.ends = "raises" THEN OnResolveError(logged, r, event) ELSE logged
  BY DEF ResolveField
<1> HIDE DEF logged
<1>7. /\ panels' \in [Requests -> Panel]
      /\ \A q \in Requests : panels'[q].sql = logged[q].sql
  <2> HIDE DEF event, r
  <2>1. CASE kind.ends = "raises"
    BY <1>2, <1>3, <1>5, <1>6, <2>1, ErrorFacts
  <2>2. CASE kind.ends # "raises"
    BY <1>2, <1>5, <1>6, <2>2
  <2>3. QED  BY <2>1, <2>2
<1>8. history' \in [Requests -> History]
  <2>1. Observed(t) \in [Requests -> History]  BY <1>1, <1>2, ObservedFacts
  <2>2. \A s \in Seq(Events), when \in BOOLEAN : Appended(s, event, when) \in Seq(Events)
    BY <1>3 DEF Appended
  <2>3. kind.queries \in BOOLEAN  BY DEF FieldKind
  <2>4. history' = [Observed(t) EXCEPT ![r] = Noted(@, event, kind)]
    BY DEF ResolveField
  <2> HIDE DEF event, r
  <2>5. Noted(Observed(t)[r], event, kind) \in History
    BY <1>2, <2>1, <2>2, <2>3 DEF Noted, History
  <2>6. QED  BY <1>2, <2>1, <2>4, <2>5
<1>9. /\ cursor' = Instrumented(t) /\ context' = context \cup {r}
      /\ resolved' = resolved + 1 /\ resolved < MaxFields
      /\ UNCHANGED <<started, current, answers>>
  BY DEF ResolveField
<1> HIDE DEF event
<1>10. TypeOK'
  <2>1. resolved' \in 0..MaxFields  BY <1>1, <1>9, DebugAssumption DEF TypeOK
  <2>2. QED  BY <1>1, <1>2, <1>7, <1>8, <1>9, <2>1 DEF TypeOK
<1>11. OneThreadPerRequest'
  <2>1. \A q \in Requests \ context' : q # p /\ q \notin context
    <3>1. 0 \notin Requests  BY DEF Requests
    <3> HIDE DEF p, r
    <3>2. QED  BY <1>4, <1>9, <3>1
  <2>2. \A q \in context' : q <= started
    <3>1. r <= started /\ \A q \in context : q <= started
      BY DEF DebugInv, OneThreadPerRequest
    <3> HIDE DEF r
    <3>2. QED  BY <1>9, <3>1
  <2> HIDE DEF p, r
  <2>3. \A q \in Requests \ context' : answers[q] = {} /\ panels'[q].sql = <<>>
    BY <1>5, <1>7, <2>1 DEF DebugInv, OneThreadPerRequest
  <2>4. QED  BY <1>9, <2>2, <2>3 DEF DebugInv, OneThreadPerRequest
<1>12. CursorsStayInThread'
  BY <1>2, <1>9 DEF CursorsStayInThread
<1>13. ServedPanelsAreClean'
  <2> SUFFICES ASSUME NEW u \in Threads, current[u] # 0
               PROVE  OfRequest(panels'[current[u]].sql, current[u])
    BY <1>9 DEF ServedPanelsAreClean
  <2>1. current[u] \in Requests /\ OfRequest(panels[current[u]].sql, current[u])
    BY DebugAssumption DEF DebugInv, TypeOK, Requests, ServedPanelsAreClean
  <2>2. CASE current[u] # p
    BY <1>5, <1>7, <2>1, <2>2
  <2>3. CASE current[u] = p
    <3>1. current[u] = r  BY <1>4, <2>3
    <3>2. panels[r].sql \in Seq(Events)  BY <1>1, <1>2 DEF TypeOK, Panel
    <3>3. OfRequest(Append(panels[r].sql, event), r)
      BY <1>3, <2>1, <3>1, <3>2, OwnAppend
    <3>4. QED  BY <1>5, <1>7, <2>1, <2>3, <3>1, <3>3
  <2>4. QED  BY <2>2, <2>3
<1>14. ShowsOwnQueries'
  BY <1>9 DEF DebugInv, ShowsOwnQueries
<1>15. ShownIsFinal'
  BY <1>4, <1>5, <1>7, <1>9 DEF DebugInv, ShownIsFinal, Requests
<1>16. QED
  BY <1>10, <1>11, <1>12, <1>13, <1>14, <1>15 DEF DebugInv

\* Resolving `_debug` preserves the invariant: the panel it shows is in service,
\* and no cursor logs to it any more.
LEMMA ResolveDebugInv ==
    ASSUME DebugInv, NEW t \in Threads, ResolveDebug(t)
    PROVE  DebugInv'
<1> DEFINE r == current[t]
           shown == [panel |-> panels[r], history |-> history'[r]]
<1>1. TypeOK /\ r \in Requests
  BY DebugAssumption DEF DebugInv, TypeOK, Requests, ResolveDebug
<1>2. /\ history' = Observed(t) /\ context' = context \cup {r}
      /\ answers' = [answers EXCEPT ![r] = @ \cup {shown}]
      /\ resolved' = resolved + 1 /\ resolved < MaxFields
      /\ UNCHANGED <<started, current, panels>>
  BY DEF ResolveDebug
<1>3. cursor' = [c \in Threads |-> IF c = t THEN 0 ELSE cursor[c]]
  BY DEF ResolveDebug, UnwrapCursor, Connections
<1>4. history' \in [Requests -> History]
  BY <1>1, <1>2, ObservedFacts
<1>5. shown \in Answer  BY <1>1, <1>4 DEF Answer, TypeOK
<1>6. /\ OfRequest(shown.panel.sql, r) /\ shown.panel.sql = panels[r].sql
  BY <1>1, <1>4 DEF DebugInv, ServedPanelsAreClean, Requests
<1> HIDE DEF shown
<1>7. \A q \in Requests : \A a \in answers'[q] : a \in answers[q] \/ (q = r /\ a = shown)
  BY <1>1, <1>2 DEF TypeOK
<1>8. \A q \in Requests \ {r} : answers'[q] = answers[q]
  BY <1>1, <1>2 DEF TypeOK
<1>9. TypeOK'
  <2>1. resolved' \in 0..MaxFields  BY <1>1, <1>2, DebugAssumption DEF TypeOK
  <2>2. cursor' \in [Threads -> 0..MaxRequests]
    BY <1>1, <1>3, DebugAssumption DEF TypeOK
  <2>3. answers' \in [Requests -> SUBSET Answer]  BY <1>1, <1>2, <1>5 DEF TypeOK
  <2>4. context' \subseteq Requests  BY <1>1, <1>2 DEF TypeOK
  <2>5. QED  BY <1>1, <1>2, <1>4, <2>1, <2>2, <2>3, <2>4 DEF TypeOK
<1>10. OneThreadPerRequest'
  BY <1>1, <1>2, <1>8 DEF DebugInv, OneThreadPerRequest
<1>11. CursorsStayInThread'
  <2> SUFFICES ASSUME NEW u \in Threads, cursor'[u] # 0
               PROVE  /\ cursor'[u] \in context' /\ answers'[cursor'[u]] = {}
                      /\ \A v \in Threads : current'[v] = cursor'[u] => v = u
    BY DEF CursorsStayInThread
  <2>1. u # t /\ cursor'[u] = cursor[u]  BY <1>3
  <2>2. /\ cursor[u] \in context /\ answers[cursor[u]] = {}
        /\ \A v \in Threads : current[v] = cursor[u] => v = u
    BY <2>1 DEF DebugInv, CursorsStayInThread
  <2>3. cursor[u] \in Requests \ {r}  BY <1>1, <2>1, <2>2 DEF TypeOK
  <2>4. QED  BY <1>2, <1>8, <2>1, <2>2, <2>3
<1>12. ServedPanelsAreClean'  BY <1>2 DEF DebugInv, ServedPanelsAreClean
<1>13. ShowsOwnQueries'  BY <1>6, <1>7 DEF DebugInv, ShowsOwnQueries
<1>14. ShownIsFinal'  BY <1>2, <1>6, <1>7 DEF DebugInv, ShownIsFinal
<1>15. QED
  BY <1>9, <1>10, <1>11, <1>12, <1>13, <1>14 DEF DebugInv

\* A query outside GraphQL preserves the invariant: the panel that may log it
\* belongs to a request that is over.
LEMMA QueryOutsideInv ==
    ASSUME DebugInv, NEW t \in Threads, QueryOutside(t)
    PROVE  DebugInv'
<1> DEFINE p == cursor[t]
           event == <<0, resolved + 1>>
<1>1. TypeOK /\ current[t] = 0  BY DEF DebugInv, QueryOutside
<1>2. event \in Events  BY <1>1, DebugAssumption DEF QueryOutside, Events, TypeOK
<1>3. /\ p \in 0..MaxRequests
      /\ p # 0 => p \in context /\ answers[p] = {}
      /\ \A v \in Threads : p # 0 => current[v] # p
  BY <1>1 DEF DebugInv, TypeOK, CursorsStayInThread
<1>4. panels' = Log(panels, p, event) /\ resolved' = resolved + 1 /\ resolved < MaxFields
      /\ UNCHANGED <<started, current, context, cursor, history, answers>>
  BY DEF QueryOutside
<1> HIDE DEF event
<1>5. /\ panels' \in [Requests -> Panel]
      /\ \A q \in Requests : q # p => panels'[q].sql = panels[q].sql
  BY <1>1, <1>2, <1>3, <1>4, LogFacts DEF TypeOK
<1>6. TypeOK'
  <2>1. resolved' \in 0..MaxFields  BY <1>1, <1>4, DebugAssumption DEF TypeOK
  <2>2. QED  BY <1>1, <1>4, <1>5, <2>1 DEF TypeOK
<1>7. OneThreadPerRequest'
  BY <1>3, <1>4, <1>5 DEF DebugInv, OneThreadPerRequest, Requests
<1>8. CursorsStayInThread'  BY <1>4 DEF DebugInv, CursorsStayInThread
<1>9. ServedPanelsAreClean'
  BY <1>1, <1>3, <1>4, <1>5, DebugAssumption
  DEF DebugInv, ServedPanelsAreClean, TypeOK, Requests
<1>10. ShowsOwnQueries'  BY <1>4 DEF DebugInv, ShowsOwnQueries
<1>11. ShownIsFinal'
  BY <1>3, <1>4, <1>5 DEF DebugInv, ShownIsFinal, Requests
<1>12. QED
  BY <1>6, <1>7, <1>8, <1>9, <1>10, <1>11 DEF DebugInv

\* A new request preserves the invariant: its panel is empty and no thread
\* serves it already.
LEMMA StartRequestInv ==
    ASSUME DebugInv, NEW t \in Threads, StartRequest(t)
    PROVE  DebugInv'
<1>1. TypeOK  BY DEF DebugInv
<1>2. /\ started' = started + 1 /\ started' \in Requests
      /\ current' = [current EXCEPT ![t] = started']
      /\ UNCHANGED <<resolved, context, cursor, panels, history, answers>>
  BY <1>1, DebugAssumption DEF StartRequest, TypeOK, Requests
<1>3. TypeOK'  BY <1>1, <1>2, DebugAssumption DEF TypeOK, Requests
<1>4. /\ started' \notin context
      /\ \A u \in Threads : current[u] # started'
      /\ \A u \in Threads : cursor[u] # 0 => cursor[u] # started'
  BY <1>1, <1>2 DEF DebugInv, OneThreadPerRequest, CursorsStayInThread, TypeOK, Requests
<1>5. OneThreadPerRequest'
  <2>1. \A u \in Threads : current'[u] <= started'
    BY <1>1, <1>2 DEF DebugInv, OneThreadPerRequest, TypeOK
  <2>2. \A u, v \in Threads : current'[u] = current'[v] /\ current'[u] # 0 => u = v
    BY <1>1, <1>2, <1>4 DEF DebugInv, OneThreadPerRequest, TypeOK
  <2>3. \A r \in context' : r <= started'
    BY <1>1, <1>2 DEF DebugInv, OneThreadPerRequest, TypeOK, Requests
  <2>4. QED  BY <1>2, <2>1, <2>2, <2>3 DEF DebugInv, OneThreadPerRequest
<1>6. CursorsStayInThread'
  BY <1>1, <1>2, <1>4 DEF DebugInv, CursorsStayInThread, TypeOK
<1>7. ServedPanelsAreClean'
  <2>1. panels[started'].sql = <<>>  BY <1>2, <1>4 DEF DebugInv, OneThreadPerRequest
  <2>2. QED
    BY <1>1, <1>2, <2>1 DEF DebugInv, ServedPanelsAreClean, OfRequest, TypeOK
<1>8. QED
  BY <1>2, <1>3, <1>5, <1>6, <1>7 DEF DebugInv, ShowsOwnQueries, ShownIsFinal

\* The end of a request preserves the invariant, with its cursor still wrapped.
LEMMA EndRequestInv ==
    ASSUME DebugInv, NEW t \in Threads, EndRequest(t)
    PROVE  DebugInv'
<1>1. TypeOK  BY DEF DebugInv
<1>2. /\ current' = [current EXCEPT ![t] = 0]
      /\ UNCHANGED <<started, resolved, context, cursor, panels, history, answers>>
  BY DEF EndRequest
<1>3. TypeOK'  BY <1>1, <1>2, DebugAssumption DEF TypeOK
<1>4. OneThreadPerRequest' /\ ServedPanelsAreClean'
  BY <1>1, <1>2 DEF DebugInv, OneThreadPerRequest, ServedPanelsAreClean, TypeOK
<1>5. CursorsStayInThread'
  BY <1>1, <1>2 DEF DebugInv, CursorsStayInThread, TypeOK
<1>6. QED
  BY <1>2, <1>3, <1>4, <1>5 DEF DebugInv, ShowsOwnQueries, ShownIsFinal
-----------------------------------------------------------------------------
\* The invariant holds in every reachable state.
THEOREM DebugInduction == Spec => []DebugInv
<1>1. DebugInv /\ [Next]_vars => DebugInv'
  <2> SUFFICES ASSUME DebugInv, [Next]_vars PROVE DebugInv'
    OBVIOUS
  <2>1. CASE UNCHANGED vars
    BY <2>1 DEF vars, DebugInv, TypeOK, OneThreadPerRequest, CursorsStayInThread,
       ServedPanelsAreClean, ShowsOwnQueries, ShownIsFinal
  <2>2. CASE Next
    BY <2>2, StartRequestInv, EndRequestInv, QueryOutsideInv,
       ResolveFieldInv, ResolveDebugInv DEF Next
  <2>3. QED  BY <2>1, <2>2
<1>2. QED  BY InitDebugInv, <1>1, PTL DEF Spec

\* What `_debug` shows are the queries of its own request, however requests
\* interleave in threads and whatever cursors earlier requests left wrapped.
THEOREM DebugShowsOwnQueries == Spec => []ShowsOwnQueries
<1>1. DebugInv => ShowsOwnQueries  BY DEF DebugInv
<1>2. QED  BY <1>1, DebugInduction, PTL

\* A panel that was shown logs nothing more.
THEOREM DebugShownIsFinal == Spec => []ShownIsFinal
<1>1. DebugInv => ShownIsFinal  BY DEF DebugInv
<1>2. QED  BY <1>1, DebugInduction, PTL
-----------------------------------------------------------------------------
(* What a clean request's `_debug` shows.                                  *)

\* A list that begins another still does when that one grows.
LEMMA BeginsGrows ==
    ASSUME NEW s \in Seq(Events), NEW l \in Seq(Events), NEW e \in Events, NEW when \in BOOLEAN,
           Begins(s, l)
    PROVE  Begins(s, Appended(l, e, when))
  BY DEF Begins, Appended

\* Only the panel that connection.cursor logs to gets a query; the middleware
\* wraps the connections of its own thread.
LEMMA ResolveFieldLogs ==
    ASSUME DebugInv, NEW t \in Threads, NEW kind \in FieldKind, ResolveField(t, kind)
    PROVE  LET r == current[t]
               p == ResolverCursor(t)
               event == <<r, resolved + 1>>
           IN  /\ r \in Requests /\ event \in Events /\ p \in 0..MaxRequests
               /\ p # 0 => answers[p] = {}
               /\ \A v \in Threads : p # 0 /\ current[v] = p => v = t
               /\ \A u \in Threads \ {t} : cursor'[u] = cursor[u]
               /\ cursor'[t] = p
               /\ \A q \in Requests \ {p} : panels'[q].sql = panels[q].sql
               /\ \A q \in Requests : q = p =>
                    panels'[q].sql = Appended(panels[q].sql, event, kind.queries)
               /\ \A q \in Requests \ {r} : history'[q] = history[q]
               /\ history'[r].ran = Appended(Observed(t)[r].ran, event, kind.queries)
               /\ history'[r].clean = Observed(t)[r].clean
<1> DEFINE r == current[t]
           p == ResolverCursor(t)
           event == <<r, resolved + 1>>
           logged == IF kind.queries THEN Log(panels, p, event) ELSE panels
<1>1. TypeOK /\ r # 0  BY DEF DebugInv, ResolveField
<1>2. /\ r \in Requests /\ Instrumented(t) \in [Threads -> 0..MaxRequests]
      /\ \A u \in Threads : Instrumented(t)[u] # 0 =>
           /\ answers[Instrumented(t)[u]] = {}
           /\ \A v \in Threads : current[v] = Instrumented(t)[u] => v = u
  BY <1>1, InstrumentedFacts
<1>3. event \in Events
  BY <1>1, <1>2, DebugAssumption DEF ResolveField, Events, TypeOK, Requests
<1>4. /\ p \in 0..MaxRequests
      /\ p # 0 => answers[p] = {}
      /\ \A v \in Threads : p # 0 /\ current[v] = p => v = t
  BY <1>2 DEF ResolverCursor
<1>5. cursor' = Instrumented(t)  BY DEF ResolveField
<1>6. \A u \in Threads \ {t} : cursor'[u] = cursor[u]
  BY <1>1, <1>5 DEF Instrumented, WrapCursor, Connections, TypeOK
<1>7. cursor'[t] = p  BY <1>5 DEF ResolverCursor
<1>8. /\ logged \in [Requests -> Panel]
      /\ \A q \in Requests \ {p} : logged[q].sql = panels[q].sql
      /\ \A q \in Requests : q = p =>
           logged[q].sql = Appended(panels[q].sql, event, kind.queries)
  <2> HIDE DEF event, p
  <2>1. CASE kind.queries
    <3>1. panels \in [Requests -> Panel]  BY <1>1 DEF TypeOK
    <3>2. logged = Log(panels, p, event)  BY <2>1
    <3> HIDE DEF logged
    <3>3. QED  BY <1>3, <1>4, <2>1, <3>1, <3>2, LogFacts DEF Appended
  <2>2. CASE ~kind.queries
    BY <1>1, <2>2 DEF TypeOK, Appended
  <2>3. QED  BY <2>1, <2>2
<1>9. panels' = IF kind.ends = "raises" THEN OnResolveError(logged, r, event) ELSE logged
  BY DEF ResolveField
<1> HIDE DEF logged
<1>10. \A q \in Requests : panels'[q].sql = logged[q].sql
  <2> HIDE DEF event, r
  <2>1. CASE kind.ends = "raises"
    BY <1>2, <1>3, <1>8, <1>9, <2>1, ErrorFacts
  <2>2. CASE kind.ends # "raises"
    BY <1>9, <2>2
  <2>3. QED  BY <2>1, <2>2
<1>11. /\ \A q \in Requests \ {r} : history'[q] = history[q]
       /\ history'[r].ran = Appended(Observed(t)[r].ran, event, kind.queries)
       /\ history'[r].clean = Observed(t)[r].clean
  <2>1. Observed(t) \in [Requests -> History]
    BY <1>1, <1>2, ObservedFacts
  <2>2. history' = [Observed(t) EXCEPT ![r] = Noted(@, event, kind)]
    BY DEF ResolveField
  <2>3. \A q \in Requests \ {r} : Observed(t)[q] = history[q]
    BY <1>1, <1>2 DEF Observed, TypeOK
  <2> HIDE DEF event, r
  <2>4. history'[r] = Noted(Observed(t)[r], event, kind)  BY <1>2, <2>1, <2>2
  <2>5. \A q \in Requests \ {r} : history'[q] = history[q]  BY <2>1, <2>2, <2>3
  <2>6. QED  BY <2>4, <2>5 DEF Noted
<1>12. QED
  BY <1>2, <1>3, <1>4, <1>6, <1>7, <1>8, <1>10, <1>11

\* Making the context notes whether the connection was unwrapped, and nothing
\* else; a request that has one keeps what was noted.
LEMMA ObservedClean ==
    ASSUME DebugInv, FullyLogged, NEW t \in Threads, current[t] \in Requests
    PROVE  LET r == current[t]
           IN  /\ Observed(t)[r].ran = history[r].ran
               /\ \A q \in Requests \ {r} : Observed(t)[q] = history[q]
               /\ r \in context => Observed(t)[r].clean = history[r].clean
               /\ r \notin context =>
                    /\ Observed(t)[r].clean = (cursor[t] = 0)
                    /\ answers[r] = {} /\ panels[r].sql = <<>> /\ history[r].ran = <<>>
<1>1. history \in [Requests -> History]  BY DEF DebugInv, TypeOK
<1>2. CASE current[t] \in context  BY <1>2 DEF Observed
<1>3. CASE current[t] \notin context
  <2>1. Observed(t) = [history EXCEPT ![current[t]].clean = cursor[t] = 0]
    BY <1>3 DEF Observed
  <2>2. /\ answers[current[t]] = {} /\ panels[current[t]].sql = <<>>
        /\ history[current[t]].ran = <<>>
    BY <1>3 DEF DebugInv, OneThreadPerRequest, FullyLogged
  <2>3. QED  BY <1>1, <1>3, <2>1, <2>2 DEF History
<1>4. QED  BY <1>2, <1>3

\* A field keeps a clean request's log complete: its cursor is the request's own.
LEMMA ResolveFieldLogged ==
    ASSUME DebugInv, FullyLogged, NEW t \in Threads, NEW kind \in FieldKind,
           ResolveField(t, kind)
    PROVE  FullyLogged'
<1> DEFINE r == current[t]
           p == ResolverCursor(t)
           event == <<r, resolved + 1>>
<1>1. /\ r \in Requests /\ event \in Events /\ p \in 0..MaxRequests
      /\ p # 0 => answers[p] = {}
      /\ \A v \in Threads : p # 0 /\ current[v] = p => v = t
      /\ \A u \in Threads \ {t} : cursor'[u] = cursor[u]
      /\ cursor'[t] = p
      /\ \A q \in Requests \ {p} : panels'[q].sql = panels[q].sql
      /\ \A q \in Requests : q = p =>
           panels'[q].sql = Appended(panels[q].sql, event, kind.queries)
      /\ \A q \in Requests \ {r} : history'[q] = history[q]
      /\ history'[r].ran = Appended(Observed(t)[r].ran, event, kind.queries)
      /\ history'[r].clean = Observed(t)[r].clean
  BY ResolveFieldLogs
<1>2. /\ Observed(t)[r].ran = history[r].ran
      /\ r \in context => Observed(t)[r].clean = history[r].clean
      /\ r \notin context =>
           /\ Observed(t)[r].clean = (cursor[t] = 0)
           /\ answers[r] = {} /\ panels[r].sql = <<>> /\ history[r].ran = <<>>
  BY <1>1, ObservedClean
<1>3. context' = context \cup {r} /\ UNCHANGED <<current, answers>>
  BY DEF ResolveField
<1>4. r \notin context /\ cursor[t] = 0 => p = r
  BY DEF ResolverCursor, Instrumented, WrapCursor, Connections
<1>5. r \in context => p = cursor[t]
  BY DEF ResolverCursor, Instrumented
<1>6. /\ \A q \in Requests : panels[q].sql \in Seq(Events)
      /\ \A q \in Requests : history[q].ran \in Seq(Events)
      /\ \A q \in Requests : \A a \in answers[q] : a.history.ran \in Seq(Events)
  BY DEF DebugInv, TypeOK, Panel, History, Answer
<1>7. kind.queries \in BOOLEAN  BY DEF FieldKind
<1> HIDE DEF p, event
<1>8. ASSUME NEW q \in Requests, q # r
      PROVE  /\ q \notin context' => ~history'[q].clean /\ history'[q].ran = <<>>
             /\ history'[q].clean /\ answers[q] = {} =>
                  \A u \in Threads : current[u] = q =>
                      cursor'[u] = q /\ panels'[q].sql = history'[q].ran
             /\ \A a \in answers[q] : a.history.clean =>
                  history'[q].clean /\ Begins(panels'[q].sql, a.history.ran)
             /\ history'[q].clean /\ answers[q] # {} =>
                  /\ Begins(panels'[q].sql, history'[q].ran)
                  /\ \E b \in answers[q] : b.history.ran = panels'[q].sql
  <2>1. history'[q] = history[q]  BY <1>1, <1>8
  <2>2. CASE q = p
    <3>1. q # 0 /\ answers[q] = {}  BY <1>1, <2>2 DEF Requests
    <3>2. \A u \in Threads : current[u] # q  BY <1>1, <1>8, <2>2, <3>1
    <3>3. q \notin context' => q \notin context  BY <1>3
    <3>4. QED  BY <2>1, <3>1, <3>2, <3>3 DEF FullyLogged
  <2>3. CASE q # p
    <3>1. panels'[q].sql = panels[q].sql  BY <1>1, <2>3
    <3>2. \A u \in Threads : current[u] = q => cursor'[u] = cursor[u]
      BY <1>1, <1>8
    <3>3. q \notin context' => q \notin context  BY <1>3
    <3>4. QED  BY <2>1, <3>1, <3>2, <3>3 DEF FullyLogged
  <2>4. QED  BY <2>2, <2>3
<1>9. CASE answers[r] = {}
  <2>1. ASSUME history'[r].clean
        PROVE  p = r /\ panels[r].sql = history[r].ran
    <3>1. CASE r \in context
      <4>1. history[r].clean  BY <1>1, <1>2, <2>1, <3>1
      <4>2. cursor[t] = r /\ panels[r].sql = history[r].ran
        BY <1>1, <1>9, <4>1 DEF FullyLogged
      <4>3. QED  BY <1>5, <3>1, <4>2
    <3>2. CASE r \notin context
      <4>1. cursor[t] = 0  BY <1>1, <1>2, <2>1, <3>2
      <4>2. QED  BY <1>2, <1>4, <3>2, <4>1
    <3>3. QED  BY <3>1, <3>2
  <2>2. ASSUME history'[r].clean, NEW u \in Threads, current[u] = r
        PROVE  cursor'[u] = r /\ panels'[r].sql = history'[r].ran
    <3>1. p = r /\ panels[r].sql = history[r].ran  BY <2>1, <2>2
    <3>2. u = t
      <4>1. p # 0  BY <1>1, <3>1 DEF Requests
      <4>2. QED  BY <1>1, <2>2, <3>1, <4>1
    <3>3. QED  BY <1>1, <1>2, <3>1, <3>2
  <2>3. r \in context'  BY <1>3
  <2>4. QED  BY <1>3, <1>8, <1>9, <2>2, <2>3 DEF FullyLogged
<1>10. CASE answers[r] # {}
  <2>1. r \in context  BY <1>2, <1>10
  <2>2. history'[r].clean = history[r].clean  BY <1>1, <1>2, <2>1
  <2>3. p # r
    <3>1. r # 0  BY <1>1 DEF Requests
    <3>2. QED  BY <1>1, <1>10, <3>1
  <2>4. panels'[r].sql = panels[r].sql  BY <1>1, <2>3
  <2>5. history[r].clean => Begins(panels[r].sql, history'[r].ran)
    BY <1>1, <1>2, <1>6, <1>7, <1>10, BeginsGrows DEF FullyLogged
  <2>6. \A a \in answers[r] : a.history.clean =>
          history'[r].clean /\ Begins(panels'[r].sql, a.history.ran)
    BY <1>1, <2>2, <2>4 DEF FullyLogged
  <2>7. history'[r].clean => \E b \in answers[r] : b.history.ran = panels'[r].sql
    <3>1. r \in Requests  BY <1>1
    <3>2. history[r].clean => \E b \in answers[r] : b.history.ran = panels[r].sql
      BY <1>10, <3>1 DEF FullyLogged
    <3> HIDE DEF r
    <3>3. QED  BY <2>2, <2>4, <3>2
  <2>8. r \in context'  BY <1>3
  <2>9. QED  BY <1>3, <1>8, <1>10, <2>2, <2>4, <2>5, <2>6, <2>7, <2>8 DEF FullyLogged
<1>11. QED  BY <1>9, <1>10

\* So does `_debug`: the first one shows all, a later one what the first did.
LEMMA ResolveDebugLogged ==
    ASSUME DebugInv, FullyLogged, NEW t \in Threads, ResolveDebug(t)
    PROVE  FullyLogged'
<1> DEFINE r == current[t]
           shown == [panel |-> panels[r], history |-> history'[r]]
<1>1. TypeOK /\ r \in Requests
  BY DebugAssumption DEF DebugInv, TypeOK, Requests, ResolveDebug
<1>2. /\ history' = Observed(t) /\ context' = context \cup {r}
      /\ answers' = [answers EXCEPT ![r] = @ \cup {shown}]
      /\ UNCHANGED <<current, panels>>
  BY DEF ResolveDebug
<1>3. cursor' = [c \in Threads |-> IF c = t THEN 0 ELSE cursor[c]]
  BY DEF ResolveDebug, UnwrapCursor, Connections
<1>4. /\ history'[r].ran = history[r].ran
      /\ \A q \in Requests \ {r} : history'[q] = history[q]
      /\ r \in context => history'[r].clean = history[r].clean
      /\ r \notin context => answers[r] = {} /\ panels[r].sql = <<>> /\ history[r].ran = <<>>
  BY <1>1, <1>2, ObservedClean
<1>5. shown.history = history'[r]  OBVIOUS
<1> HIDE DEF shown
<1>6. answers'[r] = answers[r] \cup {shown} /\ \A q \in Requests \ {r} : answers'[q] = answers[q]
  BY <1>1, <1>2 DEF TypeOK
<1>7. /\ \A q \in Requests : panels[q].sql \in Seq(Events)
      /\ \A q \in Requests : history[q].ran \in Seq(Events)
  BY <1>1 DEF TypeOK, Panel, History
<1>8. \A l \in Seq(Events) : Begins(l, l)  BY DEF Begins
<1>9. ASSUME NEW q \in Requests, q # r
      PROVE  /\ q \notin context' => ~history'[q].clean /\ history'[q].ran = <<>>
             /\ history'[q].clean /\ answers'[q] = {} =>
                  \A u \in Threads : current[u] = q =>
                      cursor'[u] = q /\ panels[q].sql = history'[q].ran
             /\ \A a \in answers'[q] : a.history.clean =>
                  history'[q].clean /\ Begins(panels[q].sql, a.history.ran)
             /\ history'[q].clean /\ answers'[q] # {} =>
                  /\ Begins(panels[q].sql, history'[q].ran)
                  /\ \E b \in answers'[q] : b.history.ran = panels[q].sql
  <2>1. history'[q] = history[q] /\ answers'[q] = answers[q]  BY <1>4, <1>6, <1>9
  <2>2. \A u \in Threads : current[u] = q => cursor'[u] = cursor[u]  BY <1>3, <1>9
  <2>3. q \notin context' => q \notin context  BY <1>2
  <2>4. QED  BY <2>1, <2>2, <2>3 DEF FullyLogged
<1>10. ASSUME history'[r].clean
       PROVE  /\ Begins(panels[r].sql, history[r].ran)
              /\ answers[r] = {} => panels[r].sql = history[r].ran
              /\ answers[r] # {} => \E b \in answers[r] : b.history.ran = panels[r].sql
  <2>1. CASE r \in context
    <3>1. history[r].clean  BY <1>4, <1>10, <2>1
    <3>2. QED  BY <1>1, <1>7, <1>8, <3>1 DEF FullyLogged
  <2>2. CASE r \notin context
    BY <1>1, <1>4, <1>7, <1>8, <2>2
  <2>3. QED  BY <2>1, <2>2
<1>11. ASSUME NEW a \in answers'[r], a.history.clean
       PROVE  history'[r].clean /\ Begins(panels[r].sql, a.history.ran)
  <2>1. CASE a = shown
    <3>1. history'[r].clean  BY <1>5, <1>11, <2>1
    <3>2. QED  BY <1>4, <1>5, <1>10, <2>1, <3>1
  <2>2. CASE a \in answers[r]
    <3>1. r \in context  BY <1>4, <2>2
    <3>2. QED  BY <1>1, <1>4, <1>11, <2>2, <3>1 DEF FullyLogged
  <2>3. QED  BY <1>6, <2>1, <2>2
<1>12. ASSUME history'[r].clean
       PROVE  /\ Begins(panels[r].sql, history'[r].ran)
              /\ \E b \in answers'[r] : b.history.ran = panels[r].sql
  <2>1. CASE answers[r] = {}
    <3>1. shown.history.ran = panels[r].sql /\ shown \in answers'[r]
      BY <1>4, <1>5, <1>6, <1>10, <1>12, <2>1
    <3>2. QED  BY <1>4, <1>10, <1>12, <3>1
  <2>2. CASE answers[r] # {}
    BY <1>4, <1>6, <1>10, <1>12, <2>2
  <2>3. QED  BY <2>1, <2>2
<1>13. r \in context' /\ answers'[r] # {}  BY <1>2, <1>6
<1>14. QED  BY <1>2, <1>9, <1>11, <1>12, <1>13 DEF FullyLogged

\* No other step touches a panel that may still be shown.
LEMMA OtherStepsLogged ==
    ASSUME DebugInv, FullyLogged, NEW t \in Threads,
           StartRequest(t) \/ EndRequest(t) \/ QueryOutside(t)
    PROVE  FullyLogged'
<1>1. TypeOK  BY DEF DebugInv
<1>2. CASE StartRequest(t)
  <2>1. /\ started' = started + 1 /\ started' \in Requests
        /\ current' = [current EXCEPT ![t] = started']
        /\ UNCHANGED <<context, cursor, panels, history, answers>>
    BY <1>1, <1>2, DebugAssumption DEF StartRequest, TypeOK, Requests
  <2>2. started' \notin context
    BY <1>1, <2>1 DEF DebugInv, OneThreadPerRequest, TypeOK, Requests
  <2>3. ~history[started'].clean  BY <2>1, <2>2 DEF FullyLogged
  <2>4. \A q \in Requests, u \in Threads : current'[u] = q /\ history[q].clean => current[u] = q
    BY <1>1, <2>1, <2>3 DEF TypeOK
  <2>5. QED  BY <2>1, <2>4 DEF FullyLogged
<1>3. CASE EndRequest(t)
  <2>1. /\ current' = [current EXCEPT ![t] = 0]
        /\ UNCHANGED <<context, cursor, panels, history, answers>>
    BY <1>3 DEF EndRequest
  <2>2. \A q \in Requests, u \in Threads : current'[u] = q => current[u] = q
    BY <1>1, <2>1 DEF TypeOK, Requests
  <2>3. QED  BY <2>1, <2>2 DEF FullyLogged
<1>4. CASE QueryOutside(t)
  <2> DEFINE p == cursor[t]
             event == <<0, resolved + 1>>
  <2>1. event \in Events /\ current[t] = 0
    BY <1>1, <1>4, DebugAssumption DEF QueryOutside, Events, TypeOK
  <2>2. /\ p \in 0..MaxRequests
        /\ p # 0 => answers[p] = {}
        /\ \A v \in Threads : p # 0 => current[v] # p
    BY <1>1, <2>1 DEF DebugInv, TypeOK, CursorsStayInThread
  <2>3. /\ panels' = Log(panels, p, event)
        /\ UNCHANGED <<current, context, cursor, history, answers>>
    BY <1>4 DEF QueryOutside
  <2>4. \A q \in Requests \ {p} : panels'[q].sql = panels[q].sql
    <3> HIDE DEF event, p
    <3>1. QED  BY <1>1, <2>1, <2>2, <2>3, LogFacts DEF TypeOK
  <2>5. \A q \in Requests : q = p => answers[q] = {} /\ \A u \in Threads : current[u] # q
    BY <2>2 DEF Requests
  <2> HIDE DEF p, event
  <2>6. QED  BY <2>3, <2>4, <2>5 DEF FullyLogged
<1>5. QED  BY <1>2, <1>3, <1>4

\* A request that found the connection unwrapped gets every query it ran, in
\* order, from its first `_debug`, and that list again from later ones.
THEOREM DebugShowsAll == Spec => []CleanThreadShowsAll
<1>1. Init => FullyLogged
  BY DEF Init, FullyLogged
<1>2. DebugInv /\ FullyLogged /\ [Next]_vars => FullyLogged'
  <2> SUFFICES ASSUME DebugInv, FullyLogged, [Next]_vars PROVE FullyLogged'
    OBVIOUS
  <2>1. CASE UNCHANGED vars  BY <2>1 DEF vars, FullyLogged
  <2>2. CASE Next
    BY <2>2, OtherStepsLogged, ResolveFieldLogged, ResolveDebugLogged DEF Next
  <2>3. QED  BY <2>1, <2>2
<1>3. DebugInv /\ FullyLogged => CleanThreadShowsAll
  <2> SUFFICES ASSUME DebugInv, FullyLogged, NEW r \in Requests, NEW a \in answers[r],
                      a.history.clean
               PROVE  LET sql == a.panel.sql
                          ran == a.history.ran
                      IN  /\ SubSeq(ran, 1, Len(sql)) = sql
                          /\ FirstAmong(a, answers[r]) => sql = ran
    BY DEF CleanThreadShowsAll
  <2> DEFINE sql == a.panel.sql
             ran == a.history.ran
  <2>1. sql = panels[r].sql  BY DEF DebugInv, ShownIsFinal
  <2>2. Begins(sql, ran)  BY <2>1 DEF FullyLogged
  <2>3. sql \in Seq(Events) /\ ran \in Seq(Events)
    BY DEF DebugInv, TypeOK, Answer, Panel, History
  <2>4. \E b \in answers[r] : b.history.ran = sql
    BY <2>1 DEF FullyLogged
  <2> HIDE DEF sql, ran
  <2>5. SubSeq(ran, 1, Len(sql)) = sql
    <3>1. \A i \in 1..Len(sql) : ran[i] = sql[i] /\ ran[i] \in Events
      BY <2>2, <2>3 DEF Begins
    <3>2. Len(sql) \in Nat  BY <2>3
    <3>3. /\ SubSeq(ran, 1, Len(sql)) \in Seq(Events)
          /\ Len(SubSeq(ran, 1, Len(sql))) = IF 1 <= Len(sql) THEN Len(sql) - 1 + 1 ELSE 0
          /\ \A i \in 1..(Len(sql) - 1 + 1) : SubSeq(ran, 1, Len(sql))[i] = ran[1 + i - 1]
      BY <3>1, <3>2, SubSeqProperties
    <3>4. \A i \in 1..Len(sql) : 1 + i - 1 = i /\ i \in 1..(Len(sql) - 1 + 1)  BY <3>2
    <3>5. Len(SubSeq(ran, 1, Len(sql))) = Len(sql)  BY <3>2, <3>3
    <3>6. \A i \in 1..Len(sql) : SubSeq(ran, 1, Len(sql))[i] = sql[i]
      BY <3>1, <3>3, <3>4
    <3>7. QED  BY <2>3, <3>3, <3>5, <3>6, SeqEqual
  <2>6. ASSUME FirstAmong(a, answers[r]) PROVE sql = ran
    <3>1. Len(ran) <= Len(sql)  BY <2>4, <2>6 DEF FirstAmong, ran
    <3>2. Len(sql) = Len(ran)  BY <2>2, <2>3, <3>1 DEF Begins
    <3>3. \A i \in 1..Len(sql) : sql[i] = ran[i]  BY <2>2, <2>3 DEF Begins
    <3>4. QED  BY <2>3, <3>2, <3>3, SeqEqual
  <2>7. QED  BY <2>5, <2>6 DEF sql, ran
<1>4. QED  BY <1>1, <1>2, <1>3, DebugInduction, PTL DEF Spec
=============================================================================
