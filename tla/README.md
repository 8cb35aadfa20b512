# A TLA+ model of graphene-django

graphene-django serves a GraphQL schema over Django: a view that turns an HTTP
request into executions of GraphQL operations, mutation classes on top of Django
forms and REST framework serializers, fields that page through querysets, object
types derived from models, filters, a debug middleware, and a management command
that dumps the schema. This directory models the
parts of it that keep state, take decisions across several steps or meet other
actors, checks them with TLC on small instances, and proves invariants of them
with TLAPS for all instances.

`PROJECT.json` lists the components, the runs with the configuration each one
uses, one mutation of the model per checked property (which the run must
detect), the source lines behind each definition, the findings, the hazards and
the main theorems.

    tlc -workers 2 -config registry.cfg MCTypeRegistry.tla     # one run
    tlapm TypeRegistryProofs.tla                               # one proof module

Source paths below are relative to `src/graphene_django/`.

## 1. The system

| Component | State | Operations | Interacts with |
|---|---|---|---|
| HTTP view (`views.py`, `utils/utils.py`) | none of its own: the request, one execution per batch entry, Django's transaction on the connection | `dispatch`, `parse_body`, `get_graphql_params`, `execute_graphql_request`, `get_response`, `set_rollback` | Django's request handler (ATOMIC_REQUESTS), graphql-core, the mutations through `request.graphene_mutation_has_errors` |
| Form and serializer mutations (`forms/mutation.py`, `rest_framework/mutation.py`) | the database; the errors flag on the request | `mutate_and_get_payload`, `perform_mutate`, `get_form_kwargs`, `get_serializer_kwargs` | the view, the registry (when a class is defined) |
| Debug middleware (`debug/`) | `request.django_debug`; `connection.cursor` of each thread's connections, which outlives the request | `DjangoDebugMiddleware.resolve`, `enable_instrumentation`, `disable_instrumentation`, `get_debug_result` | every resolver; Django's connections |
| Connection fields (`fields.py`) | none between requests; the client holds a cursor | `connection_resolver`, `resolve_connection` | graphql-relay, the database |
| Type registry and object types (`registry.py`, `types.py`, `converter.py`) | per registry, the type of each model and a cache of converted fields; a global registry | class definition, `register`, `register_converted_field`, `reset_global_registry`, the lazy `dynamic_type` of relations | graphene's schema construction |
| Relation resolvers (`converter.py`, `types.py`, `DjangoListField`) | what Django's descriptors have cached on a root instance | the `custom_resolver`s, `list_resolver`, `get_node`, `get_queryset` | the database, resolvers of the application |
| Filters (`filter/`) | per field, a filterset class and its arguments, made when first read | `filtering_args`, `resolve_queryset`, `filter` of each filter class | the registry, connection fields, django-filter |
| Field, form and serializer converters (`converter.py`, `forms/`, `rest_framework/serializer_converter.py`) | types, fixed when a class is defined; a cache of serializer input types | one conversion per field class, `get_choices`, `parse_value` of converted enums | settings, the registry |
| Settings (`settings.py`) | the dictionary in force; per settings object, the dictionary it answers from and a cache | attribute access, `reload_graphene_settings` | all of the above, which keep the object they imported |
| Management command (`graphql_schema.py`) | the output file | `handle`, `get_schema`, and both again in a child process for every save with `--watch` | Django's reloader, settings |
| Test client, string helpers | none | HTTP calls; one conversion | - |

What is hard about each, and the properties that make it correct:

* **View and mutations.** Three mechanisms decide over the same writes: the
  transaction around the request, the one around a mutation, and autocommit.
  Errors reach them by three routes: an exception that leaves the view, an
  exception that graphql-core turns into an error of the result, and the flag.
  Correct means: what is durable afterwards agrees with the settings and the
  response (`RequestAllOrNothing`, `ErrorsRollBackRequest`,
  `FlagRollsMutationBack`, `CleanAnswerIsDurable`, `BadRequestHasNoEffect`), the
  stack of blocks matches the code (`BlocksMatchCode`), a GET mutates nothing
  (`GetIsSafe`), each request is answered (`RequestIsAnswered`), also with a
  crash, a refused commit or a broken transaction anywhere.
* **Debug.** Cursors are wrapped per thread and only `_debug` unwraps them, so
  the panel of one request meets the queries of others. Correct means that what
  a client is shown is of its own request, complete where it can be, and final
  (`ShowsOwnQueries`, `CleanThreadShowsAll`, `ShownIsFinal`).
* **Connection fields.** `count()` and the slice are two queries on a queryset,
  and none on one that was prefetched or on a list, whose slices take other
  bounds; a cursor is a position, and four arguments are combined with a limit
  and an offset. Correct means the page is the one the arguments describe and fits to the next one
  (`PageIsDescribed`, `LimitRespected`, `PageInfoIsTrue`,
  `LegalArgumentsAreServed`, `PagesFit`, `EndIsTheEnd`, `NoRowTwice`,
  `NeverLost`, `WalkEnds`).
* **Registry.** Types are defined in any order, several for one model, some fail
  or skip the registry, and the registry may be reset between them. Correct
  means that a schema can always be built and shows what was declared
  (`OneRegistryBuilds`, `RelationsStayInRegistry`, `DeclarationsDecide`).
* **Filters.** What a value asks for is decided in four places: the argument's
  type in the schema, the conversion of enums, the form that cleans it and the
  filter's own idea of an empty value; and the queryset is lazy. Correct means
  that the answer holds the rows the arguments describe, that nonsense is refused
  and the rest is served (`AnswerIsDescribed`, `MeaninglessIsRefused`,
  `MeaningfulIsServed`).
* **Conversion of fields.** One model field has a type in the output and others
  in the inputs, made by three converters; names of enum members are made up
  until they are distinct. Correct means that a type can be made, that a stored
  value can be shown, and that what a client was shown is understood when it
  sends it back (`DefinitionFailsOnlyIf`, `LegalValueShows`,
  `SendingBackSucceeds`, `SendingBackKeeps`).
* **Settings.** The object is replaced while modules hold the old one, and looks
  its dictionary up late. Correct means that one object never mixes two
  dictionaries (`OneSource`), that the one `settings.py` names answers by the
  dictionary in force (`NewestAnswersByPresent`), and that the library's names
  of enums are in one style (`OneNamingStyle`).
* **Schema dump.** Opening the file truncates it, a save kills the process that
  writes, and the reloader only knows what it has seen. Correct means that what
  is reported as dumped is on disk, that a refusal costs nothing, and that a
  watched save is dumped in the end (`SuccessMeansDumped`, `RefusedLeavesFile`,
  `SavesAreDumped`).
* **Relation resolvers.** A check (`get_queryset`) and a use (the resolver) with
  writes of others between them, and instances cached on the root. Correct
  means that what is shown passed the check (`ShownPassed`, `AnswerOfOneMoment`).

## 2. Modules

| Module | Models or states | Builds on |
|---|---|---|
| `DjangoTransaction` | external: what `transaction.atomic`, savepoints, `needs_rollback` and autocommit do with the writes of one connection | - |
| `Mutations` | the three mutation classes as functions from an input to an outcome | - |
| `GraphQLView` | the handler of one request, an action for each step of `dispatch`, `get_response` and `execute_graphql_request` | the two above |
| `AtomicUnits` | abstract: writes come in units that become visible whole, once and for good | - |
| `GraphQLViewProps` | properties of the view, the refinement of `AtomicUnits`, the inductive invariant | `GraphQLView` |
| `GraphQLViewProofs` | lemmas about blocks; the view's theorems | `GraphQLViewProps` |
| `DjangoDebug`, `DjangoDebugProofs` | middleware and instrumentation over threads and requests | - |
| `Pagination` | the arithmetic of `resolve_connection` and of graphql-relay's slice | - |
| `ConnectionField`, `ConnectionFieldProofs` | one resolution of a connection field | `Pagination` |
| `ConnectionWalk`, `ConnectionWalkProofs` | a client that pages through a table others change | `Pagination` |
| `TypeRegistry`, `MCTypeRegistry`, `TypeRegistryProofs` | class statements, registries, lazily resolved relations | - |
| `RelationResolution`, `MCRelationResolution`, `RelationResolutionProofs` | resolving a relation again and again on one root | - |
| `FilterField`, `MCFilterField`, `FilterFieldProofs` | the arguments of a filter connection field, their cleaning and the lazy queryset | - |
| `GrapheneSettings` | settings objects, overrides, and modules that keep what they imported | - |
| `FieldConversion`, `MCFieldConversion` | a field's types in output and inputs, enums and their names, and a value's way out and back | `GrapheneSettings`, which it composes with the definition of types |
| `SchemaDump` | the management command, once and under the reloader | - |
| `SchemaBuildProofs` | the theorems of the settings, the definition of types and enums, a value's way out and back, and the schema dump | `FieldConversion`, `SchemaDump` |

### How state and actions correspond to the code

**GraphQLView.** `settings` and `request` are fixed by `Init`: all combinations
of batch, GraphiQL, the two places ATOMIC_MUTATIONS may be set, ATOMIC_REQUESTS,
`non_atomic_requests`, and all bodies by what they decode to. `phase` is where
the handler is; `cur`, `entry`, `field`, `errors` and `results` are the locals of
one entry's execution; `flag` is `request.graphene_mutation_has_errors`;
`conn` is the connection with its blocks. `EnterView`, `LeaveView` and
`LeaveViewRaising` are Django's handler. `RefuseMethod`, `RefuseBody`,
`RenderGraphiQL` and `BeginResponses` are the branches of `dispatch`;
`RaiseOnEntry`, `RejectEntry`, `FailEntry` and `BeginExecute` those of
`get_graphql_params` and `execute_graphql_request` up to `execute`;
`ResolveMutationField` is one serial field, whose outcome is any that `Mutations`
allows in a sound or in a broken transaction; `EndMutation`/`EndQuery` leave the
block; `FinishEntry` is the rest of `get_response`, `set_rollback` and the
status code. `Crash` may come anywhere.

**DjangoDebug.** `cursor[t]` is the panel that the wrapped cursor of thread `t`
logs to; `context` are the requests with a `django_debug` attribute; `panels`
their `DjangoDebug` objects. `ResolveField` is one call of the middleware with
the resolver under it, `ResolveDebug` the `_debug` field, `QueryOutside` any
other use of the thread's connection. `history` and `answers` only observe.

**ConnectionField / ConnectionWalk.** `Count` is `connection_resolver` with its
asserts up to `count()`, `Slice` the rest of `resolve_connection`. `kind` is what
the resolver returned: a queryset, one whose rows were prefetched, which Django
slices to a list, or a list; `SliceRaises` and `PageEnd` tell them apart.
`AddRow` and `DeleteRow` are other clients, at any place of the queryset's order.
Rows are numbers and cursors are positions, as in the code; a cursor that does
not decode is `Invalid`. In `ConnectionWalk`, `moved` and `shifted` only observe:
that a write moved the row of the cursor since the last page, and that one moved
a row that may have been seen to where the walk is still to read.

**TypeRegistry.** `DefineType` is a class statement with all its effects in
order: each field looked up in or put into the cache, then the registration. A
statement may fail after its fields were converted. `RelatedType` is
`dynamic_type`, which reads the registry when a schema is built; building a
schema changes nothing, so `Members` and `Builds` are functions of the state.

**RelationResolution.** `rows` is the related model's table, each row visible to
the client through `get_queryset` or not. `root` is the instance being resolved:
the key it holds and what Django has cached on it. The target's `get_queryset`
is the default one, one that returns the queryset it is given, or one that
filters; a list that is returned as it was given shows what was prefetched.
One action per way of resolving; `ResolveForward` and `OwnResolver` are the two halves of a foreign
key with a resolver of the application's own, with `Write` possible between.

**FilterField.** `filterset` is a sequence of filters, each a record of what the
code looks at: its class, lookup and attribute, whether it was declared, its
method and input type. `ArgumentType` is `get_filtering_args_from_filterset`,
which depends on `registered`, the models that have types when the arguments are
first read. `GiveArgument` is the client, limited to values of that type.
`Refuse` and `Filter` are the two outcomes of `resolve_queryset`; the query is
`Steps`, each filter with its value, and `Evaluate` applies them in turn
(`Filtered`) to the rows there are by then, after `get_queryset`. A filter that
its value does not make narrow (`Narrows`) returns the rows it was given;
`ListNarrows`, `ArrayNarrows` and `MethodNarrows` are the rules about empty
values that the filter classes state. `WellFormed` says which filters the model
is about: those whose lookup suits the attribute and the type of the argument. A
key that is no number (`NoKey`) is a raw one that is empty, or a text, or what a
global id decodes to.

**GrapheneSettings.** `objects` are the settings objects made so far; the first
is the one the package imports, the last the one `settings.graphene_settings`
names now. `Read` is attribute access: it fixes the dictionary, then caches the
value unless its import fails. `Override` and `Restore` are Django's
`override_settings` with the signal; `ImportViews` binds a module to the object
of the moment.

**FieldConversion.** A name is a sequence of parts joined by "_", so that
`A_1` as a name made up and as a choice of that text are one name, as in the
code. Choices are one sequence, each with its group, as the calls of
`get_choices` for nested lists name each list on its own. `Names` is recursive:
a choice is named by the names `Earlier` in its group, and `Distinguished` is the
loop that suffixes it, as the least number of suffixes that makes it new; that
there is one, so that the loop ends, is proved. `Members` are what Python's
`Enum` keeps of them, which drops names of the form `__A__` (`Dunder`), and
`SchemaTakes` is the validation of the schema before a request is served, which
refuses the other names that begin with `__`. `DefineType` is the conversion of one field when its object type is
defined, reading the settings object of the package; `DefineOther` is the same
for other models, as far as settings are read. `Show` is `EnumValueField` and the
output scalar; `SendBack` sends what was shown through one of three inputs, as a
variable or as a literal, and what the form or the serializer saves is the new
value.

**SchemaDump.** `process` is the command, or with `--watch` the parent that does
nothing but start children, and the child. `dump` is where `get_schema` is, in
the child's daemon thread; `FirstLook` and `NoticeChange` are the child's main
thread. `source` grows with every save of a file, each version being good or bad
in one of four ways, and `file` is the output: of which version, and how much.

## 3. Runs and bounds

| Run | Instance | Shows |
|---|---|---|
| `view_safety` | 2 entries, 2 fields each | All safety properties of the view, that it implements `AtomicUnits`, and that every request is answered |
| `view_partial_mutation` | 1 entry, 2 fields | A mutation that is half done is kept (finding) |
| `debug` | 2 threads, 3 requests, 4 fields | What `_debug` shows |
| `debug_leftover` | 1 thread suffices | Queries of a request missing from its `_debug` (finding) |
| `field_page` | 3 rows, counts -1..2, limits none/0..2, three kinds of iterable | One resolution with every combination of arguments, and rows added and deleted anywhere between count and slice |
| `walk` | 4 rows, 2 deletions, sizes up to 3 | A client's whole walk, forward or backward, rows coming and going anywhere |
| `registry` | 3 class statements, 2 models, 3 fields, 1 reset, 1 own registry | What schemas show, in every order of definitions |
| `relations` | 2 rows | All kinds of relation, `get_queryset` and resolver, any number of resolutions and writes |
| `relation_to_field` | 2 rows, keys other than the primary key | A foreign key looked up by the wrong column (finding) |
| `filters` | 18 filters (two of them slice, some exclude), alone and in ordered pairs, 4 rows, lists up to 3 | Every argument of every type, and one row deleted before the query |
| `definitions` | a field of every kind, 14 lists of choices, 4 dictionaries, an override by each of them | Settings, the definition of types, and a value's way out and back |
| `schema_dump` | 3 versions of the source | The command once and watching, interrupted anywhere |

Why the bounds are enough. For the view: two fields are the least for one to
succeed beside one that fails, two entries the least for one to leave the flag
or a marked transaction to another; a third entry meets the connection in a
state the second already met. A form in a batch view has up to one key: each is
an entry of text, as entries of a list may be. For debug: two threads for interleaving, three
requests so that a thread meets a cursor left by one request while another is
served. For a page: -1, 0, 1 and 2 are on both sides of each comparison
with up to three rows. For a walk: four rows are two pages or more of
the smaller sizes, and with two deletions and any number of rows added later a
write comes in front of the cursor, at it and behind it, in either half of a page. For registries: three definitions are two types of one model with
a type of the other before, between or after them. For relations: two rows
tell a right row from a wrong one, and that run has no bound on steps at all.
For filters: a filter acts on the queryset and on nothing else, so an ordered
pair shows every way one may disturb another; the rows hold each attribute with,
without and with several of the values, and one row is hidden by
`get_queryset`. For definitions: objects made before an override, in
it and after it are all there are to ask, and the choices are those where made-up names collide with each other, with a
choice's own text, across groups, or with names that Python or GraphQL reserves,
as given or made up ("+" and "-" both come to `_`). `MCNext` lets
the settings rest once the field has its type, as nothing reads them after that,
and puts the field's own definition before any override; enums of other types
are defined at any time. For the dump: three versions are one the file is from,
one that cuts a dump short, and one that comes before the child looks again.
What is proved (section 5) holds for every bound.

The runs disable the deadlock check where the modelled program may stop: a
request is over, all counters of the bound are used up, a client has reached
its last page, a value was sent back, or the command has ended. `relations` can always go on and keeps the check.

Fairness. `view_safety` assumes weak fairness of the handler as a whole
(`WF_vars(Handle)`): `dispatch` is one synchronous call, and a resolver, a query
and a commit return or raise. It assumes nothing of `Crash`, after which nothing
is claimed. `walk` assumes that the client goes on and that its requests are
answered (`WF_vars(Client)`); the writers may act at any time or never.
`schema_dump` assumes that the command's processes, the thread that dumps and
the thread that polls are run (`WF_vars` of each); saves and interrupts may come
at any time or never.

## 4. Findings

Each is a run with one property, which TLC finds violated; the text that the
code disagrees with is quoted in `PROJECT.json`.

1. `AllFieldsOccurOrNone`: under ATOMIC_MUTATIONS only the errors flag rolls a
   mutation back. A field that raises, or a `SerializerMutation` that reports
   errors, leaves what the other fields saved (`views.py:372`).
2. `RequestQueriesAreShown`: a request that does not ask for `_debug` leaves the
   cursor wrapped, and the queries of later requests of its thread go to it.
3. `KeyFindsNode`: with `to_field`, a foreign key to a type that overrides
   `get_queryset` is looked up by primary key with another column's value.

Behaviour that the models show and that no text speaks against, or not clearly,
or that has no run of its own:

* View: an `HttpError` in a batch under ATOMIC_REQUESTS commits what earlier
  entries saved while dropping their responses. The errors flag is never
  cleared, so in a batch it rolls back later mutations of which every field
  succeeded (`views.py:372`; `docs/mutations.rst:328` promises all or nothing per
  mutation).
* Debug: the entries of a batch share one debug context, so queries of an entry
  after the first `_debug` are not logged; an exception raised while a returned
  value is completed comes after the middleware has returned
  (`debug/middleware.py:66`) and is in no `_debug`, of which `debug/types.py:13`
  says that it shows the exceptions raised for the query.
* Connections and relations: the slice of a list, or of a prefetched queryset,
  takes a `before` in front of its start for a position counted from its end, and
  the page may exceed RELAY_CONNECTION_MAX_LIMIT: with after 2, before 1, first 2,
  a limit of 2 and 10 rows it has five (`fields.py:176`; `docs/settings.rst:95` calls
  the limit "the maximum size of objects that can be requested"); a row added in front of the cursor, as new rows are
  with an order that is newest first, makes a forward walk show a row again; a
  limit of zero is held against neither `first` nor `last` (`fields.py:212`);
  a list relation whose `get_queryset` returns its queryset as it was given shows
  the rows prefetched with the root (`docs/authorization.rst:153`); a resolver
  of a `DjangoListField` that returns `None` gets all rows of the model
  (`fields.py:57`); the reverse of a one-to-one relation to a type with its own
  `get_queryset` never calls a resolver of the application (`converter.py:320`).
* Registry: the first conversion of a field in a registry wins over
  `convert_choices_to_enum` of later types (`converter.py:154`;
  `docs/queries.rst:166`).
* Filters: a filter over several ids gets a single ID as its argument when the
  related model has a type by the time the arguments are made, and then refuses
  whatever it is given but null and the empty text (`filter/utils.py:76`). A method that slices makes every
  later filter raise, but for one that slices again. `fk__in` takes raw primary keys where the exact filter
  takes global ids, and of a global id only the part after the type counts. A key
  that is no number, the empty text among the raw ones, passes the form and raises
  when the queryset is built.
* Enums: only lists select fields in `convert_choices_to_enum`; a tuple converts
  all (`types.py:50`), and `[]` is not `False` to `DjangoFormInputObjectType`. A
  field with choices that is required and kept out of enums makes that class
  statement raise (`forms/types.py:77` calls the type, which is a `NonNull`). A
  converted enum is converted back from a variable only, not from a literal of
  the query, since `parse_literal` is that of `String`. A plain form input takes
  raw values where the output shows enum names, and with choices "a" and "A" the
  name of one is the value of the other. A serializer names the members of all
  groups together, an object type each group apart. A choice that comes to a name
  of the form `__A__` is no member, as Python's `Enum` drops it without an error,
  and its value cannot be shown; of choices "+" and "-" the second gets the name
  `__1`, for which GraphQL refuses the whole schema (`converter.py:97-99`).
* Values: a duration cannot be shown, being a `timedelta` for a `Float`; an array
  sent to a form as it was shown becomes its Python text; integers beyond 32 bit
  are shown as `BigInt` and have no input of that type.
* Settings: modules imported under an override keep that override's object; the
  object of the package keeps the dictionary in force when it is first asked.
* Schema dump: a schema that introspects but does not print costs the last dump,
  as the file is open by then. With `--watch`, a save between a child's import and
  its first look at the files is taken for known and not dumped until the next
  one; a version that does not import ends the watch.

## 5. Proofs

All proofs are of the same specifications that TLC runs, for every value of the
constants under the named `ASSUME`s (bounds are natural numbers, `None` is not a
number, the tables of models and fields have their types, foreign keys determine
their row, the settings that name enums are settings, filters are `WellFormed`, choices
have texts and numerals are parts of names).
Each follows one line: an inductive invariant, that `Init` implies it, that each
action keeps it, one step per action, and the property as a consequence. Where a
component has two invariants, the second is inductive relative to the first. Each
was checked by TLC on the instance of its run before it was proved.

* **View** (`GraphQLViewProofs`, with the lemmas about atomic blocks first).
  `IndInv` = types, `Position` (where the handler is and what it has by then),
  `BlocksMatchCode`, `Isolation`, `GetIsSafe`. `ErrorsRollBackRequest` is not
  inductive: between the error and `set_rollback` the transaction is not marked
  yet, and a mutation's savepoint may be rolled back or released meanwhile.
  `WorkIsSavedOrDoomed`, `InnerBlock` and `StaysDoomed` say what the transaction
  holds in between. `EffectInv` is about what single mutations left: fields run
  in order (`ResolvedInOrder`), an entry's own block adds what that entry saved
  (`OnlyBlock`), and a transaction is lost only for a reason the client gets to
  see (`LossHasACause`), so that as long as nothing has gone wrong the database
  has what was saved (`DurableSoFar`). Proved: every safety property of the run.
  `UnitsAreKept` is the refinement of `AtomicUnits`: units are a partition
  (`UnitsArePartition`), initial states map to initial states, what a field saves
  is made in, or written through, a unit that is not settled (`SavingMakes`), and any other step
  settles whole units or stutters (`OtherStepsSettle`).
* **Debug** (`DjangoDebugProofs`): `DebugInv` adds that a request has one thread,
  that a cursor logs only for a request of its own thread that has not shown its
  panel, and that the panel of a request being served is clean (afterwards it
  need not be, which is why `ShowsOwnQueries` alone is not inductive).
  `FullyLogged` is behind `CleanThreadShowsAll`: the panel of a request that
  found the connection unwrapped is all its queries until the first `_debug`, and
  a beginning of them from then on. Proved: every safety property of the run.
* **Connection field** (`ConnectionFieldProofs`): `FieldInv`, and `PageMade`, that
  an answer is the page of the count the arguments were combined with. The rest
  is arithmetic, stated as lemmas about `PageStart` and `PageEnd`: they are the
  ends of the window that `Described` takes from its definition by first, last,
  after, before and limit. Proved: every safety property of the run.
* **Walk** (`ConnectionWalkProofs`): `WalkInv` says what the client's cursor, the
  rows it has seen and the table have to do with each other: no seen row is still
  to be read, until a write moves one there (`SeenIsBehind`); the cursor's row is
  the last one seen, until a write moves it (`CursorAtEdge`); while nothing is
  deleted a cursor has rows before it (`MoreToCome`), and what was seen going
  forward is the table up to the cursor (`SeenFromStart`). `ForwardPage` and
  `BackwardPage` are the page such a request gets. Proved: every safety property
  of the run.
* **Registry** (`TypeRegistryProofs`): `RegistryInv` says that a type's fields
  are, for good, those of its registry's cache, that a cache's relations look
  into the registry it belongs to, and that registered types are what they were
  registered as. `OneRegistryBuilds` follows by way of the set of types a root
  can reach, which stays in one registry. `LastIsRegistered` and
  `CacheKnowsMaker`, that a registry has its model's last type and a cache what a
  definition that shows the field made of it, are behind `DeclarationsDecide`.
  Proved: every property of the run.
* **Relations** (`RelationResolutionProofs`): `NodeIsOnRoot` says that between
  check and resolver the root holds the checked instance, and that it was what
  the relation led to. Proved, if keys are primary keys: `ShownPassed`,
  `AnswerOfOneMoment`.
* **Filters** (`FilterFieldProofs`): `FilterInv` says that every argument is of
  its type and that the phase is what the filterset's judgement makes it. Then,
  class by class, what the form refuses is `Meaningless` and the reverse, what a
  filter leaves of any rows is what the client's argument holds of
  (`FilterLeavesWhatHolds`), and `FiltersDescribe` puts any number of filters
  together. That last step is an induction over the filters, with a slicing one
  among them; as an induction theorem over an arbitrary operator is not to be
  had, `StepByStep` gets it for sets of numbers from the well-foundedness of
  strict inclusion (`LeastNumber`). Proved: every property of the run.
* **Settings and naming** (`SchemaBuildProofs`): `SettingsInv` says that every
  object is as it was made or holds one dictionary and values of it, and that the
  newest one has looked nowhere else than in the dictionary in force; `OneSource`
  alone does not say which dictionary an object that was just replaced looked at.
  `NamingInv` adds that every enum was named from the dictionary that the
  library's object holds (`NamedFrom`): it looks up its dictionary before the
  first name is made and keeps it. Proved: `OneSource`, `NewestAnswersByPresent`
  for the settings alone (`SettingsSpec`) and while types are defined, and
  `OneNamingStyle`.
* **Conversion of fields** (`SchemaBuildProofs`): first the names. That choices
  have names at all (`NamesExist`) and that each is made from the ones before it
  (`NamesUnfold`) is an induction over a list of any length, by the least index
  without a name (`LeastIndex`); of one more suffixed names than there are names
  one is new, by the pigeonhole (`DistinguishedIsNew`), so that names in a group
  are distinct and an enum fails only for two groups or a reserved name
  (`EnumFailsFor`). What underscores Python's `Enum` drops and GraphQL refuses is
  followed from the choice to the name made of it. Then the values: `EnumReadsBack` and `ScalarReadsBack` say
  what an input reads of what was shown (`Meant`). `ConversionInv`, inductive
  relative to `NamingInv`, says why a definition failed, that a type that was
  made is a scalar or an enum with names of its own, and what shown and sent
  values have to do with the stored one; `DefinitionFailsOnlyIf` alone does not
  say what the enum is that a client's value is looked up in. Proved: every
  property of the run, for fields of any kind with any choices in any groups.
* **Schema dump** (`SchemaBuildProofs`): `DumpInv` adds that a process dumps what
  it imported and that the file is open for that version. Proved:
  `SuccessMeansDumped`, `RefusedLeavesFile`.

Only model-checked:

* `RequestIsAnswered`, `WalkEnds` and `SavesAreDumped`: liveness under fairness
  and `ENABLED` are outside of the prover's reach.
* The three findings, which are counterexamples.

The modules that hold or support theorems declare no RECURSIVE operator.

## 6. What is abstracted, and what is not modelled

* A write is named by the mutation field that makes it; a field saves at most
  once. The content of forms, serializers, documents and variables is reduced to
  how they answer (valid or not, raises, refused by the database).
* Django and graphql-core are modelled as far as `graphene_django` uses them and
  marked external. One database connection stands for all of a thread.
* Wording of errors, the rendering of GraphiQL, JSON text, and the content of a
  debug log entry are left out.
* In `ConnectionField` and `ConnectionWalk` a row is added or deleted at any place
  of the order, but no row changes its place otherwise, and a walk is over a
  queryset, not over rows in memory. What the walk's properties say while rows
  move is limited as they state: `PagesFit` holds for a seam up to which nothing
  was added or deleted since the last page, and `NoRowTwice` while nothing was
  added in front of a forward cursor (or deleted in front of a backward one).
  Cursors are those a server gives out, or do not decode; one that a client makes
  up of a negative position is left out.
* Asynchronous views and promises are not modelled. A coroutine resolver of a
  relation is, as one that `get_queryset` does not see.
* In `TypeRegistry`, which fields a model has is a constant; interfaces and
  connection classes are left out. That a schema builds means that no model field
  has two enum classes in it; two types of one name are not looked for.
* In `FilterField`, `order_by` and filterset classes of the application are left
  out; a lookup is what the database makes of it, external. An answer is a set of
  rows, so a row given twice by a many-to-many join is not seen. Filters over
  friends are those of several ids: an `in` over a many-to-many field, whose
  argument becomes a list of lists without a registered type
  (`filter/utils.py:83-95`), is not modelled.
* In `FieldConversion` a value is a text, a legal value or a number too big for
  `Int`; which scalars read what others write is graphene's, external. What
  `to_const` makes of a choice is given with the choice. Relations as inputs,
  nested serializers with the cache of their input types, files, multiple
  choices, colliding names of types (`OneNamingStyle` is about the enums of object
  types; a serializer names its own by the field) and fields that the application declares on a form are left out.
* In `SchemaDump` the reloader is Django's, polling for file times; the command
  is run with one schema, and a disk that fails is a version that does not print.
* In `RelationResolution` a root is a model instance that has its key, reverse
  relations refer to the root's primary key, and a resolver of the application's
  own returns the relation, nothing, or, for a list field, a list.
* Components not modelled, with the reason: see `PROJECT.json`.

## 7. Plan

Done so far: the view with its mutations, debug, connection fields, the registry,
the relation resolvers, filters, settings, the conversion of fields and the
schema dump; every safety property of the runs is proved, and the refinement of
`AtomicUnits` by the view. Next, by importance:

1. `is_type_of` and the node interface's dispatch over several types of one
   model and proxies, composed with `TypeRegistry`; the eager lookup of payload
   types in form mutations; `get_model_fields` in place of the constant.
2. Filters on top of a page: `FilterField` composed with `ConnectionField`, and
   `order_by` with a walk.
3. Nested serializers and the cache of their input types.
