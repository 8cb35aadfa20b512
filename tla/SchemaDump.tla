----------------------------- MODULE SchemaDump -----------------------------
(***************************************************************************)
(* manage.py graphql_schema: import the schema, introspect it, and write   *)
(* it as JSON or SDL to a file or to stdout; once, or with --watch each    *)
(* time a file of the project is saved.  Watching is Django's reloader     *)
(* (external): the command starts itself again as a child, which dumps in  *)
(* a daemon thread while its main thread polls the files; on a change the  *)
(* child exits with code 3, whatever the thread is doing, and is started   *)
(* anew, and any other exit code ends the watch.                           *)
(***************************************************************************)
EXTENDS Naturals, Sequences

CONSTANT MaxSaves   \* bound: versions of the project's source

ASSUME SavesAssumption == MaxSaves \in Nat \ {0}

\* What a saved version of the source comes to when the command gets it.
Versions == {"no_import", "no_schema", "no_introspection", "no_print", "good"}

CommandOptions == [out : {"stdout", "json", "graphql", "other"}, watch : BOOLEAN]

\* Contents of the output file: of which version (0: what was there before the
\* command), and how much of it.
Contents == [version : 0..MaxSaves, state : {"empty", "partial", "whole"}]
Before == [version |-> 0, state |-> "whole"]

VARIABLES
    source,    \* the versions saved so far, the last one being on disk
    options,   \* the command line
    process,   \* "command", "parent", "child", "running" or "over"
    loaded,    \* the version the running process imported, 0 before
    seen,      \* the version the reloader takes for known, 0 before its first look
    dump,      \* where get_schema is
    file       \* the output file

dump_vars == <<source, options, process, loaded, seen, dump, file>>
project == <<source, options>>
-----------------------------------------------------------------------------
Latest == Len(source)
ToFile == options.out \in {"json", "graphql"}

Truncated(v) == [version |-> v, state |-> "empty"]

\* Mutant: the file is opened as soon as the schema is there.
TruncateFirst(v) == Truncated(v)

FileBeforeOpen(v) == file

\* What a dump that stops now leaves on disk: no more than it has written.
Left == IF dump = "opened" THEN {file, [file EXCEPT !.state = "partial"]} ELSE {file}

PrintFails(v) == source[v] = "no_print"

\* Mutant: the child keeps the modules its predecessor imported.
KeepLoaded == process' = "running" /\ loaded' = loaded /\ dump' = "called"

Restart == process' = "child" /\ loaded' = 0 /\ dump' = "none"
-----------------------------------------------------------------------------
DumpInit ==
    /\ source \in {<<v>> : v \in Versions}
    /\ options \in CommandOptions
    /\ process = "command" /\ loaded = 0 /\ seen = 0
    /\ dump = "none" /\ file = Before

\* Somebody saves a file of the project.
SaveSource ==
    /\ Latest < MaxSaves
    /\ \E v \in Versions : source' = Append(source, v)
    /\ UNCHANGED <<options, process, loaded, seen, dump, file>>

\* handle: imports the schema (or add_arguments does, for the one of the
\* settings).  A module that does not import, or has no schema, is an error,
\* and in a child an exit code that ends the watch.
ImportSchema ==
    /\ process \in {"command", "child"}
    /\ IF source[Latest] \in {"no_import", "no_schema"}
       THEN process' = "over" /\ UNCHANGED <<loaded, dump>>
       ELSE IF options.watch /\ process = "command"
       THEN process' = "parent" /\ UNCHANGED <<loaded, dump>>
       ELSE process' = "running" /\ loaded' = Latest /\ dump' = "called"
    /\ UNCHANGED <<project, seen, file>>

\* run_with_reloader in the first process: a child that imports all again.
StartChild ==
    /\ process = "parent"
    /\ process' = "child"
    /\ UNCHANGED <<project, loaded, seen, dump, file>>

\* get_schema: introspection comes first, whatever the format.
Introspect ==
    /\ dump = "called"
    /\ dump' = IF source[loaded] = "no_introspection" THEN "failed" ELSE "introspected"
    /\ file' = FileBeforeOpen(loaded)

\* To stdout, or to a file whose extension says no known format.
WriteNoFile ==
    /\ dump = "introspected" /\ ~ToFile
    /\ dump' = IF options.out = "other" \/ PrintFails(loaded) THEN "failed" ELSE "finished"
    /\ UNCHANGED file

\* open(out, "w") truncates; only then is the schema printed.
OpenFile ==
    /\ dump = "introspected" /\ ToFile
    /\ dump' = "opened" /\ file' = Truncated(loaded)

\* Mutant: what the printer raises is caught inside the with block.
PrintSwallowed ==
    dump = "opened" /\ PrintFails(loaded) /\ dump' = "finished" /\ UNCHANGED file

\* json.dump writes chunk by chunk, print_schema gives the whole text or raises;
\* leaving the with block closes the file either way.
PrintRaises ==
    /\ dump = "opened" /\ PrintFails(loaded)
    /\ dump' = "failed"
    /\ file' \in IF options.out = "json" THEN Left ELSE {file}

WriteAndClose ==
    /\ dump = "opened" /\ ~PrintFails(loaded)
    /\ dump' = "finished" /\ file' = [file EXCEPT !.state = "whole"]

GetSchema ==
    /\ process = "running"
    /\ Introspect \/ WriteNoFile \/ OpenFile \/ PrintRaises \/ WriteAndClose
    /\ UNCHANGED <<project, process, loaded, seen>>

\* Without --watch the command ends with get_schema.
EndCommand ==
    /\ process = "running" /\ ~options.watch /\ dump \in {"finished", "failed"}
    /\ process' = "over"
    /\ UNCHANGED <<project, loaded, seen, dump, file>>

\* The reloader looks at the files for the first time: all of them are known.
FirstLook ==
    /\ process = "running" /\ options.watch /\ seen = 0
    /\ seen' = Latest
    /\ UNCHANGED <<project, process, loaded, dump, file>>

\* It sees a file with a newer time: exit code 3, and the parent's loop starts
\* the next child.  The daemon thread dies where it is.
NoticeChange ==
    /\ process = "running" /\ seen # 0 /\ seen < Latest
    /\ Restart
    /\ seen' = 0 /\ file' \in Left
    /\ UNCHANGED project

\* The command is interrupted or killed.
Interrupt ==
    /\ process # "over"
    /\ process' = "over" /\ file' \in Left
    /\ UNCHANGED <<project, loaded, seen, dump>>

Command == ImportSchema \/ StartChild \/ EndCommand
Reload == FirstLook \/ NoticeChange
DumpNext == SaveSource \/ Command \/ GetSchema \/ Reload \/ Interrupt

\* The processes and the two threads of a child run until they are stopped.
DumpFairness == WF_dump_vars(Command) /\ WF_dump_vars(GetSchema) /\ WF_dump_vars(Reload)

DumpSpec == DumpInit /\ [][DumpNext]_dump_vars
FairDumpSpec == DumpSpec /\ DumpFairness
-----------------------------------------------------------------------------
\* Every variable has its type.
TypeOK ==
    /\ source \in Seq(Versions) /\ Latest \in 1..MaxSaves
    /\ options \in CommandOptions
    /\ process \in {"command", "parent", "child", "running", "over"}
    /\ loaded \in 0..Latest /\ seen \in 0..Latest
    /\ dump \in {"none", "called", "introspected", "opened", "finished", "failed"}
    /\ file \in Contents

\* A dump that is reported as done is whole on disk, and of a version that can
\* be imported, introspected and printed.
SuccessMeansDumped ==
    dump = "finished" =>
        /\ source[loaded] = "good" /\ options.out # "other"
        /\ ToFile => file = [version |-> loaded, state |-> "whole"]

\* The file there was is given up only for a schema that introspects and a
\* format the command knows: no other failure costs the last good dump.
RefusedLeavesFile ==
    file # Before => ToFile /\ source[file.version] \in {"good", "no_print"}

\* With --watch, once the reloader looks, a version saved later is in the file
\* in the end, itself or a newer one, whatever dump its arrival cut short;
\* unless the watch ended or one of the versions since cannot be dumped.
SavesAreDumped == \A v \in 1..MaxSaves :
    /\ options.watch /\ ToFile
    /\ process = "running" /\ seen \in 1..(v - 1) /\ v = Latest
    ~> \/ process = "over" \/ \E w \in v..Latest : source[w] # "good"
       \/ file.version >= v /\ file.state = "whole"
-----------------------------------------------------------------------------
(* The inductive invariant behind SuccessMeansDumped and RefusedLeavesFile. *)

\* get_schema runs on a version that was imported, in a process that did so.
GetsWhatWasImported ==
    /\ dump # "none" => /\ process \in {"running", "over"} /\ loaded # 0
                        /\ source[loaded] \notin {"no_import", "no_schema"}
    /\ dump \in {"introspected", "opened", "finished"} =>
         source[loaded] # "no_introspection"
    /\ dump = "opened" => ToFile /\ file.version = loaded
    /\ file # Before => file.version \in 1..Latest

DumpInv ==
    /\ TypeOK /\ GetsWhatWasImported
    /\ SuccessMeansDumped /\ RefusedLeavesFile
=============================================================================
