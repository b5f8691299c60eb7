------------------------------- MODULE Driver -------------------------------
(***************************************************************************)
(* The driver of the Python bootstrap, cmotive.py: its runs, one after     *)
(* another, on files that stay on the disk between them.  A run turns each *)
(* source into C with CompilerPipeline, calls the C compiler on it, links  *)
(* the objects, writes debug metadata and calls CMotiveSymsToDebugFile.    *)
(* Any of the programs it calls may fail, an exception or an interrupt may *)
(* end it between two steps, in the middle of writing a file too, and      *)
(* sources are edited meanwhile.                                           *)
(*                                                                         *)
(* A unit is the C made of one version of one source; a binary is the list *)
(* of units in it.  NativeCodegen.emit gives every unit a main, its own or *)
(* an empty one, so the linker refuses two units.  Flags for the C         *)
(* compiler, printing options and --keep-c are left out.  --target-arch    *)
(* goes the way of the -g level in the debug metadata.                     *)
(***************************************************************************)
EXTENDS Naturals, Sequences, SequencesExt

CONSTANTS
    Sources,      \* paths of sources
    Stem,         \* Path.stem of each source
    CFile,        \* the C file beside the output: its stem and ".c"
    WithMain,     \* the sources that define main
    Outputs,      \* names given with -o
    Neighbour,    \* for each of Outputs, the one whose metadata the symbol
                  \* tool finds beside it: "a" for "a.o"
    Foreign,      \* an object made by a C compiler, without a main
    Inputs,       \* bound: the sources of a command line
    Options,      \* bound: the -g level, 0 without -g, and the -O of one
    None,         \* no such file
    Cut,          \* the beginning of a file that was not written to its end
    MaxRuns,      \* bound: runs of the driver
    MaxEdits      \* bound: edits of sources

Modes == {"link", "compile", "emit"}

Objects == Outputs \union {Foreign}

Commands ==
    [mode : Modes, srcs : Inputs, objs : {<<>>} \union {<<o>> : o \in Objects},
     out : Outputs, options : Options]

\* What a binary or C file may hold.
Units == [source : Sources, version : 0..MaxEdits]

Contents ==
    [kind : {"object", "program", "c"},
     units : {<<>>} \union {<<u>> : u \in Units}]

ASSUME DriverAssumption ==
    /\ DOMAIN Stem = Sources /\ DOMAIN CFile = Sources
    /\ \A s, t \in Sources : CFile[s] = CFile[t] <=> Stem[s] = Stem[t]
    /\ WithMain \subseteq Sources
    /\ Neighbour \in [Outputs -> Outputs]
    /\ Foreign \notin Outputs
    /\ \A s \in Sources : CFile[s] \notin Objects   \* -o does not name it
    /\ None \notin Contents /\ Cut \notin Contents /\ None # Cut
    /\ Options \subseteq [level : Nat, optimize : STRING]
    /\ Inputs \subseteq Seq(Sources)
    /\ MaxRuns \in Nat /\ MaxEdits \in Nat

VARIABLES
    version,   \* of each source
    disk,      \* binaries and C files: content, Cut or None
    json,      \* OUT.cmotive.debug.json: metadata, Cut or None
    syms,      \* OUT_cmot_debugsymbols.syms: metadata, Cut or None
    run,       \* the run in progress
    runs,      \* runs that were started
    edits      \* edits that were made

vars == <<version, disk, json, syms, run, runs, edits>>

-----------------------------------------------------------------------------
(* Units, binaries, records.                                               *)

Unit(s) == [source |-> s, version |-> version[s]]

Binary(kind, units) == [kind |-> kind, units |-> units]

Names == Objects \union {CFile[s] : s \in Sources}

\* build_debug_symbols: one function for each source, and its main.
Records(unit) ==
    {[symbol |-> unit.source, unit |-> unit]} \union
    (IF unit.source \in WithMain THEN {[symbol |-> "main", unit |-> unit]} ELSE {})

Symbols(records) == {r.symbol : r \in records}

\* The records of some units; of two of one symbol the first, as all readers
\* of the metadata take it.
FirstRecords(units) ==
    UNION {{r \in Records(units[i]) :
              \A j \in 1..(i - 1) : r.symbol \notin Symbols(Records(units[j]))} :
           i \in DOMAIN units}

\* What write_debug_metadata makes of the units of a run with these options.
Metadata(options, units) ==
    [options |-> options, inputs |-> {u.source : u \in ToSet(units)},
     records |-> FirstRecords(units)]

NoMetadata ==
    [options |-> [level |-> 0, optimize |-> ""], inputs |-> {}, records |-> {}]

\* Mutant: what is found beside the binary goes first.
MergedNeighbourFirst(own, found) ==
    [options |-> own.options,
     inputs |-> own.inputs \union found.inputs,
     records |-> found.records \union
                    {r \in own.records : r.symbol \notin Symbols(found.records)}]

\* The options of the header: the last ones that say anything.
Overridden(own, found) ==
    [level |-> IF found.level = 0 THEN own.level ELSE found.level,
     optimize |-> IF found.optimize = "" THEN own.optimize ELSE found.optimize]

\* read_metadata, the binary's own first, then what is found beside it: the
\* first record of a symbol stays, all inputs, the last options.
Merged(own, found) ==
    [options |-> Overridden(own.options, found.options),
     inputs |-> own.inputs \union found.inputs,
     records |-> own.records \union
                    {r \in found.records : r.symbol \notin Symbols(own.records)}]

-----------------------------------------------------------------------------
(* A run.  phase says what comes next; td holds the temporary directory's  *)
(* objects, by stem; made lists the objects to link; compiled the units    *)
(* that were made.  open says that a file is being written: write_text     *)
(* empties it first.                                                       *)

Idle ==
    [phase |-> "idle", command |-> None, next |-> 1, td |-> [s \in {} |-> s],
     made |-> <<>>, compiled |-> <<>>, open |-> FALSE, rc |-> 0]

Init ==
    /\ version = [s \in Sources |-> 0]
    /\ disk = [n \in Names |-> IF n = Foreign THEN Binary("object", <<>>) ELSE None]
    /\ json = [o \in Outputs |-> None]
    /\ syms = [o \in Outputs |-> None]
    /\ run = Idle
    /\ runs = 0
    /\ edits = 0

Cmd == run.command

Edit(s) ==
    /\ edits < MaxEdits
    /\ edits' = edits + 1
    /\ version' = [version EXCEPT ![s] = @ + 1]
    /\ UNCHANGED <<disk, json, syms, run, runs>>

\* No input files: argparse refuses.
Begin(command) ==
    /\ run.phase \in {"idle", "returned"}
    /\ runs < MaxRuns
    /\ command.srcs # <<>> \/ command.objs # <<>>
    /\ runs' = runs + 1
    /\ run' = [Idle EXCEPT !.phase = "sources", !.command = command]
    /\ UNCHANGED <<version, disk, json, syms, edits>>

Returned(r, rc) ==
    [r EXCEPT !.phase = "returned", !.open = FALSE, !.rc = rc]

\* An exception of the compiler or of a write, an interrupt: the run is over,
\* and a file that was open stays as it is.
Abort ==
    /\ run.phase \notin {"idle", "returned"}
    /\ run' = Returned(run, 1)
    /\ UNCHANGED <<version, disk, json, syms, runs, edits>>

Compiling ==
    /\ run.phase = "sources"
    /\ ~run.open
    /\ run.next \in DOMAIN Cmd.srcs

Source == Cmd.srcs[run.next]

\* Mutant: every source of -c is compiled to the output.
ToOutputAlways == Cmd.mode = "compile"

\* With -c and one source the object goes to the output, else to td.
ToOutput == Cmd.mode = "compile" /\ Len(Cmd.srcs) = 1

\* --emit-c: the C goes to the output, or to a file named after the source.
Target(s) == IF Len(Cmd.srcs) = 1 THEN Cmd.out ELSE CFile[s]

\* compile_to_c, and the file that is to take the C is opened.
OpenC ==
    /\ Compiling
    /\ Cmd.mode = "emit"
    /\ disk' = [disk EXCEPT ![Target(Source)] = Cut]
    /\ run' = [run EXCEPT !.next = @ + 1,
                          !.compiled = Append(@, Unit(Source)),
                          !.open = TRUE]
    /\ UNCHANGED <<version, json, syms, runs, edits>>

\* All of the C is written.
EmitC ==
    /\ run.phase = "sources"
    /\ run.open
    /\ LET unit == run.compiled[Len(run.compiled)]
       IN  disk' = [disk EXCEPT ![Target(unit.source)] = Binary("c", <<unit>>)]
    /\ run' = [run EXCEPT !.open = FALSE]
    /\ UNCHANGED <<version, json, syms, runs, edits>>

\* The temporary directory with a file more: td / (s.stem + '.o').
Stored(td, stem, object) ==
    [x \in {stem} \union DOMAIN td |-> IF x = stem THEN object ELSE td[x]]

\* Mutant: an object file is linked once, however many sources made it.
CompileSourceStemOnce ==
    /\ Compiling
    /\ Cmd.mode # "emit"
    /\ LET object == Binary("object", <<Unit(Source)>>)
           stem == Stem[Source]
       IN  IF ToOutput
           THEN /\ disk' = [disk EXCEPT ![Cmd.out] = object]
                /\ run' = [run EXCEPT !.next = @ + 1,
                                      !.compiled = Append(@, Unit(Source))]
           ELSE /\ run' = [run EXCEPT
                              !.next = @ + 1,
                              !.td = Stored(@, stem, object),
                              !.made = IF stem \in DOMAIN run.td THEN @ ELSE Append(@, stem),
                              !.compiled = Append(@, Unit(Source))]
                /\ UNCHANGED disk
    /\ UNCHANGED <<version, json, syms, runs, edits>>

\* compile_to_c, the C file and the C compiler.
CompileSource ==
    /\ Compiling
    /\ Cmd.mode # "emit"
    /\ LET object == Binary("object", <<Unit(Source)>>)
           stem == Stem[Source]
       IN  IF ToOutput
           THEN /\ disk' = [disk EXCEPT ![Cmd.out] = object]
                /\ run' = [run EXCEPT !.next = @ + 1,
                                      !.compiled = Append(@, Unit(Source))]
           ELSE /\ run' = [run EXCEPT
                              !.next = @ + 1,
                              !.td = Stored(@, stem, object),
                              !.made = Append(@, stem),
                              !.compiled = Append(@, Unit(Source))]
                /\ UNCHANGED disk
    /\ UNCHANGED <<version, json, syms, runs, edits>>

\* Mutant: the loop over the sources goes on after a failure.
CompileFailsAndGoesOn ==
    /\ Compiling
    /\ Cmd.mode # "emit"
    /\ \/ UNCHANGED disk
       \/ ToOutput /\ \E left \in {None, Cut} : disk' = [disk EXCEPT ![Cmd.out] = left]
    /\ run' = [run EXCEPT !.next = @ + 1]
    /\ UNCHANGED <<version, json, syms, runs, edits>>

\* The C compiler fails; it may remove its output or leave a part of it.
CompileFails ==
    /\ Compiling
    /\ Cmd.mode # "emit"
    /\ \/ UNCHANGED disk
       \/ ToOutput /\ \E left \in {None, Cut} : disk' = [disk EXCEPT ![Cmd.out] = left]
    /\ run' = Returned(run, 1)
    /\ UNCHANGED <<version, json, syms, runs, edits>>

SourcesDone ==
    run.phase = "sources" /\ ~run.open /\ run.next > Len(Cmd.srcs)

\* -g was given.
Debugging == Cmd.options.level > 0

\* --emit-c returns; -c goes on to the metadata if -g was given.
FinishCompile ==
    /\ SourcesDone
    /\ Cmd.mode # "link"
    /\ run' = IF Debugging /\ Cmd.mode = "compile"
              THEN [run EXCEPT !.phase = "metadata"] ELSE Returned(run, 0)
    /\ UNCHANGED <<version, disk, json, syms, runs, edits>>

\* The objects on the linker's command line.
Linked == [i \in DOMAIN run.made |-> run.td[run.made[i]]]
              \o [i \in DOMAIN Cmd.objs |-> disk[Cmd.objs[i]]]

\* Those of them with a unit in them, and so with a main.
WithUnit == {i \in DOMAIN Linked : Linked[i].units # <<>>}

\* There is nothing to link that is not an object, and one main.
Linkable ==
    /\ \A i \in DOMAIN Linked :
          Linked[i] \notin {None, Cut} /\ Linked[i].kind = "object"
    /\ \E i \in DOMAIN Linked : WithUnit = {i}

Link ==
    /\ SourcesDone
    /\ Cmd.mode = "link"
    /\ Linkable
    /\ \E i \in WithUnit :
          disk' = [disk EXCEPT ![Cmd.out] = Binary("program", Linked[i].units)]
    /\ run' = IF Debugging THEN [run EXCEPT !.phase = "metadata"]
              ELSE Returned(run, 0)
    /\ UNCHANGED <<version, json, syms, runs, edits>>

\* The linker refuses, or fails; it may remove the output or leave a part.
LinkFails ==
    /\ SourcesDone
    /\ Cmd.mode = "link"
    /\ \/ UNCHANGED disk
       \/ \E left \in {None, Cut} : disk' = [disk EXCEPT ![Cmd.out] = left]
    /\ run' = Returned(run, 1)
    /\ UNCHANGED <<version, json, syms, runs, edits>>

\* write_debug_metadata opens its file.
OpenMetadata ==
    /\ run.phase = "metadata"
    /\ ~run.open
    /\ json' = [json EXCEPT ![Cmd.out] = Cut]
    /\ run' = [run EXCEPT !.open = TRUE]
    /\ UNCHANGED <<version, disk, syms, runs, edits>>

WriteMetadata ==
    /\ run.phase = "metadata"
    /\ run.open
    /\ json' = [json EXCEPT ![Cmd.out] = Metadata(Cmd.options, run.compiled)]
    /\ run' = [run EXCEPT !.phase = "symbols", !.open = FALSE]
    /\ UNCHANGED <<version, disk, syms, runs, edits>>

\* Metadata beside the binary, its own among it.  A part of one cannot be
\* parsed and is passed over.
Found ==
    LET n == Neighbour[Cmd.out]
    IN  IF json[n] \in {None, Cut} THEN NoMetadata ELSE json[n]

\* CMotiveSymsToDebugFile on the output: it opens the .syms.
OpenSymbols ==
    /\ run.phase = "symbols"
    /\ ~run.open
    /\ disk[Cmd.out] # None
    /\ syms' = [syms EXCEPT ![Cmd.out] = Cut]
    /\ run' = [run EXCEPT !.open = TRUE]
    /\ UNCHANGED <<version, disk, json, runs, edits>>

WriteSymbols ==
    /\ run.phase = "symbols"
    /\ run.open
    /\ syms' = [syms EXCEPT ![Cmd.out] = Merged(json[Cmd.out], Found)]
    /\ run' = Returned(run, 0)
    /\ UNCHANGED <<version, disk, json, runs, edits>>

\* Mutant: the symbol tool is called again until it succeeds.
SymbolsFailRetried ==
    /\ run.phase = "symbols"
    /\ UNCHANGED vars

\* It fails, as it does when there is no output.  Only a link reports it.
SymbolsFail ==
    /\ run.phase = "symbols"
    /\ run' = Returned(run, IF Cmd.mode = "link" THEN 1 ELSE 0)
    /\ UNCHANGED <<version, disk, json, syms, runs, edits>>

Step ==
    \/ OpenC \/ EmitC \/ CompileSource \/ CompileFails \/ FinishCompile
    \/ Link \/ LinkFails \/ OpenMetadata \/ WriteMetadata
    \/ OpenSymbols \/ WriteSymbols \/ SymbolsFail

Next ==
    \/ \E s \in Sources : Edit(s)
    \/ \E command \in Commands : Begin(command)
    \/ Abort
    \/ Step

Spec == Init /\ [][Next]_vars

\* A run that was begun goes on; none has to be begun, no source edited.
FairSpec == Spec /\ WF_vars(Step)

-----------------------------------------------------------------------------
(* Properties.                                                             *)

\* Every variable has its type.
TypeOK ==
    /\ version \in [Sources -> 0..MaxEdits]
    /\ DOMAIN disk = Names
    /\ \A n \in Names : disk[n] \notin {None, Cut} =>
          /\ disk[n].kind \in {"object", "program", "c"}
          /\ Len(disk[n].units) <= 1
    /\ run.phase \in {"idle", "sources", "metadata", "symbols", "returned"}
    /\ run.next <= Len(run.compiled) + 1
    /\ run.open => run.phase \in {"sources", "metadata", "symbols"}
    /\ runs \in 0..MaxRuns /\ edits \in 0..MaxEdits

Succeeded == run.phase = "returned" /\ run.rc = 0

\* What a run was asked for, as far as the driver keeps it: with -c and
\* several sources the objects go away with the temporary directory.
Asked == Cmd.mode = "link" \/ Len(Cmd.srcs) = 1

\* A run that returns 0 has left in its output what it made of its sources
\* and objects, each source compiled in this run, whatever was on the disk
\* before and was edited meanwhile.  Sources of one stem overwrite each other
\* in the temporary directory (td / (s.stem + '.o')): no program may come out
\* of it that misses one of them (main, compile_c, link_objects).
Delivered ==
    (Succeeded /\ Asked) =>
        /\ disk[Cmd.out] \notin {None, Cut}
        /\ disk[Cmd.out].kind = CASE Cmd.mode = "link" -> "program"
                                  [] Cmd.mode = "compile" -> "object"
                                  [] Cmd.mode = "emit" -> "c"
        /\ Len(run.compiled) = Len(Cmd.srcs)
        /\ Cmd.srcs # <<>> => disk[Cmd.out].units = run.compiled

\* A step of a run changes no file but its output, the C files of its sources
\* with --emit-c and several of them, and its own metadata and .syms.  It
\* removes its output only when it fails, and leaves a part of it only while
\* it writes or when it fails; otherwise it writes all of it.
Contained ==
    run.phase \notin {"idle", "returned"} =>
        /\ \A n \in Names \ {Cmd.out} : disk'[n] # disk[n] =>
              /\ Cmd.mode = "emit" /\ Len(Cmd.srcs) # 1
              /\ \E s \in ToSet(Cmd.srcs) : n = CFile[s]
        /\ \A o \in Outputs \ {Cmd.out} : json'[o] = json[o] /\ syms'[o] = syms[o]
        /\ disk'[Cmd.out] # disk[Cmd.out] =>
              \/ disk'[Cmd.out] = None /\ run'.rc # 0
              \/ disk'[Cmd.out] = Cut /\ (run'.open \/ run'.rc # 0)
              \/ /\ disk'[Cmd.out] \in Contents
                 /\ ToSet(run'.compiled) \subseteq ToSet(disk'[Cmd.out].units)

\* A run that fails or is interrupted leaves its output as it was, without
\* one, cut off, or as it should be; no other binary, metadata or .syms
\* changes (write_text, run_cmd).
FailureContained == [][Contained]_vars

\* Each symbol of a run's sources has one record in the .syms, one made by
\* this run, though metadata of other binaries and of earlier versions lies
\* beside it (read_metadata, default_metadata_candidates).
OwnRecordsWin ==
    [][WriteSymbols =>
        \A u \in ToSet(run.compiled) : \A r \in Records(u) :
            \E v \in ToSet(run.compiled) : \E own \in Records(v) :
                {q \in syms'[Cmd.out].records : q.symbol = r.symbol} = {own}]_vars

\* A run ends.
RunEnds == run.phase \notin {"idle", "returned"} ~> run.phase = "returned"

=============================================================================
