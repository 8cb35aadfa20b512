-------------------------- MODULE GrapheneSettings --------------------------
(***************************************************************************)
(* settings.py: the GRAPHENE dictionary of Django's settings, the objects  *)
(* that answer from it, each caching what it was asked, and the signal     *)
(* that replaces the object when a test overrides the setting.  A module   *)
(* of the library keeps the object it imported.                            *)
(***************************************************************************)
EXTENDS Naturals, Sequences

CONSTANTS
    Dicts,       \* values of GRAPHENE: functions from some settings to values
    Defaults,    \* DEFAULTS: a function from all settings to values
    ImportStrings, \* the settings that name a Python object
    BadImports,  \* names that do not import
    MaxOverrides \* bound: overrides in a history

ASSUME SettingsAssumption ==
    /\ MaxOverrides \in Nat
    /\ ImportStrings \subseteq DOMAIN Defaults
    /\ \A d \in Dicts : DOMAIN d \subseteq DOMAIN Defaults

Attrs == DOMAIN Defaults
NoDict == [a \in {} |-> 0]
Unread == [unread |-> TRUE]
EmptyCache == [a \in {} |-> 0]

VARIABLES
    GRAPHENE,     \* the project's dictionary, then the overrides in force
    objects,      \* the settings objects made so far: what each answers from
                  \* (user: <<>> before it looked, else <<dict>>) and its cache
    views         \* the object graphene_django.views imported, 0 before

settings_vars == <<GRAPHENE, objects, views>>
-----------------------------------------------------------------------------
Present == GRAPHENE[Len(GRAPHENE)]
Newest == Len(objects)

\* GrapheneSettings(value, ...): an empty or absent value is not kept.
New(value) == [user |-> IF value = NoDict THEN <<>> ELSE <<value>>, cache |-> EmptyCache]

\* The object every module imports that is loaded with the package itself.
Library == 1

\* user_settings: looked up in Django's settings once.
\* Mutant: looked up each time.
PresentSettings(o) == <<Present>>

UserSettings(o) == IF objects[o].user = <<>> THEN <<Present>> ELSE objects[o].user

\* What __getattr__ gives for a setting, from a dictionary.
Value(d, attr) == IF attr \in DOMAIN d THEN d[attr] ELSE Defaults[attr]

\* perform_import raises; nothing is cached then.
ImportFails(d, attr) == attr \in ImportStrings /\ Value(d, attr) \in BadImports

\* __getattr__ is asked only for what the object does not have yet.
Answer(o, attr) ==
    IF attr \in DOMAIN objects[o].cache THEN objects[o].cache[attr]
    ELSE Value(UserSettings(o)[1], attr)

\* The object after it was asked for some settings.
AfterReading(o, attrs) ==
    LET user == UserSettings(o)
        read == {a \in attrs : ~ImportFails(user[1], a)} \cup DOMAIN objects[o].cache
    IN  [user |-> user, cache |-> [a \in read |-> Answer(o, a)]]

\* Mutant: __getattr__ remembers nothing.
ReadAgain(o, attrs) == UNCHANGED objects

Read(o, attrs) == objects' = [objects EXCEPT ![o] = AfterReading(o, attrs)]
-----------------------------------------------------------------------------
SettingsInit ==
    /\ GRAPHENE \in {<<d>> : d \in Dicts}
    /\ objects = <<New(NoDict)>>
    /\ views = 0

\* reload_graphene_settings.  Mutant: only for a value.
ReplaceIfAny(value) ==
    IF value = NoDict THEN UNCHANGED objects ELSE objects' = Append(objects, New(value))

Replace(value) == objects' = Append(objects, New(value))

\* override_settings(GRAPHENE=d), entered and left (external), with the signal
\* setting_changed.
Override ==
    /\ Len(objects) + Len(GRAPHENE) <= 2 * MaxOverrides
    /\ \E d \in Dicts : GRAPHENE' = Append(GRAPHENE, d) /\ Replace(d)
    /\ UNCHANGED views

Restore ==
    /\ Len(GRAPHENE) > 1
    /\ GRAPHENE' = SubSeq(GRAPHENE, 1, Len(GRAPHENE) - 1)
    /\ Replace(GRAPHENE'[Len(GRAPHENE')])
    /\ UNCHANGED views

\* graphene_django.views is imported for the first time.
ImportViews ==
    /\ views = 0
    /\ views' = Newest
    /\ UNCHANGED <<GRAPHENE, objects>>

\* A GraphQLView is made: it asks the object that module imported.
ReadByViews ==
    /\ views # 0
    /\ \E attr \in Attrs : Read(views, {attr})
    /\ UNCHANGED <<GRAPHENE, views>>

\* Somebody asks settings.graphene_settings.
ReadNewest ==
    /\ \E attr \in Attrs : Read(Newest, {attr})
    /\ UNCHANGED <<GRAPHENE, views>>

SettingsNext == Override \/ Restore \/ ImportViews \/ ReadByViews \/ ReadNewest

SettingsSpec == SettingsInit /\ [][SettingsNext]_settings_vars
-----------------------------------------------------------------------------
\* Whatever is overridden between its answers, all that one object ever
\* answers comes from one dictionary, with the defaults where it is silent.
OneSource == \A o \in DOMAIN objects :
    LET object == objects[o] IN
    /\ object.user = <<>> => object.cache = EmptyCache
    /\ \A d \in Dicts : object.user = <<d>> =>
         \A a \in DOMAIN object.cache : object.cache[a] = Value(d, a)

\* The object that settings.graphene_settings names answers by the dictionary
\* in force, inside an override and after it, and with no override before.
NewestAnswersByPresent == \A a \in Attrs : Answer(Newest, a) = Value(Present, a)

-----------------------------------------------------------------------------
(* The inductive invariant behind both.                                    *)

\* The objects that answer from one dictionary, or have answered nothing.
AnsweredFrom(d, attrs) == [user |-> <<d>>, cache |-> [a \in attrs |-> Value(d, a)]]

Answering ==
    {New(NoDict)} \cup {AnsweredFrom(p[1], p[2]) : p \in Dicts \X SUBSET Attrs}

SettingsInv ==
    /\ GRAPHENE \in Seq(Dicts) /\ GRAPHENE # <<>>
    /\ objects \in Seq(Answering) /\ objects # <<>>
    /\ views \in 0..Newest
    /\ objects[Newest].user \in {<<>>, <<Present>>}
=============================================================================
