---------------------------- MODULE DriverProofs ----------------------------
(***************************************************************************)
(* Proofs about Driver, for any sources, stems, outputs and command lines  *)
(* and any number of runs and edits.                                       *)
(***************************************************************************)
EXTENDS Driver, SequenceTheorems, WellFoundedInduction, TLAPS

USE DriverAssumption

\* What there may be of a file.
Files == Contents \union {None, Cut}

Phases == {"idle", "sources", "metadata", "symbols", "returned"}

StemNames == {Stem[s] : s \in Sources}

\* What is in the temporary directory: objects of one unit, by stem.
Compiled == {Binary("object", <<u>>) : u \in Units}
Directories == UNION {[D -> Compiled] : D \in SUBSET StemNames}

Runs ==
    [phase : Phases, command : Commands \union {None}, next : Nat,
     td : Directories, made : Seq(StemNames), compiled : Seq(Units),
     open : BOOLEAN, rc : {0, 1}]

-----------------------------------------------------------------------------
(* The inductive invariant. *)

\* Types.  A version is no larger than the number of edits.
Typed ==
    /\ edits \in 0..MaxEdits /\ runs \in 0..MaxRuns
    /\ version \in [Sources -> 0..edits]
    /\ disk \in [Names -> Files]
    /\ json = [o \in Outputs |-> json[o]]
    /\ syms = [o \in Outputs |-> syms[o]]
    /\ run \in Runs

Afterwards ==
    run.phase \in {"metadata", "symbols"} \/ (run.phase = "returned" /\ run.rc = 0)

\* How far a run is: it compiles its sources in their order, all of them if
\* it succeeds.
Counted ==
    /\ run.phase # "idle" => run.command \in Commands
    /\ run.next = Len(run.compiled) + 1
    /\ run.phase = "sources" => Len(run.compiled) <= Len(run.command.srcs)
    /\ Afterwards => Len(run.compiled) = Len(run.command.srcs)
    /\ run.phase \in {"metadata", "symbols"} => run.command.mode # "emit"
    /\ \A k \in 1..Len(run.compiled) :
          run.compiled[k].source = run.command.srcs[k]
    /\ run.phase # "returned" => run.rc = 0
    /\ run.open => run.phase \in {"sources", "metadata", "symbols"}
    /\ run.open /\ run.phase = "sources" =>
          run.command.mode = "emit" /\ Len(run.compiled) >= 1

\* The objects of a link: one for each source, the only one that of the only
\* source.
ObjectsMade ==
    /\ \A k \in DOMAIN run.made : run.made[k] \in DOMAIN run.td
    /\ run.phase = "sources" /\ run.command.mode = "link" =>
          /\ Len(run.made) = Len(run.compiled)
          /\ Len(run.compiled) = 1 =>
                run.td[run.made[1]].units = run.compiled

\* What the output holds, once it was written.
OutputWritten ==
    /\ (/\ run.phase # "idle" /\ run.command.mode # "link"
        /\ run.rc = 0 /\ (run.phase = "sources" => ~run.open)
        /\ Len(run.command.srcs) = 1 /\ Len(run.compiled) = 1)
          => disk[run.command.out] =
                Binary(IF run.command.mode = "emit" THEN "c" ELSE "object",
                       run.compiled)
    /\ Afterwards /\ run.command.mode = "link" =>
          /\ disk[run.command.out] \in Contents
          /\ disk[run.command.out].kind = "program"
          /\ run.command.srcs # <<>> =>
                disk[run.command.out].units = run.compiled

\* The symbol tool finds the records of this run in its binary's metadata.
RecordsWritten ==
    run.phase = "symbols" =>
        json[run.command.out] = Metadata(run.command.options, run.compiled)

IInv == Typed /\ Counted /\ ObjectsMade /\ OutputWritten /\ RecordsWritten

-----------------------------------------------------------------------------
(* Facts about the data. *)

LEMMA CommandParts ==
    ASSUME NEW c \in Commands
    PROVE  /\ c.mode \in {"link", "compile", "emit"}
           /\ c.srcs \in Seq(Sources) /\ Len(c.srcs) \in Nat
           /\ DOMAIN c.srcs = 1..Len(c.srcs)
           /\ c.out \in Outputs /\ c.out \in Names
           /\ c.objs = <<>> \/ \E o \in Objects : c.objs = <<o>>
  <1>1. /\ c.mode \in {"link", "compile", "emit"} /\ c.srcs \in Inputs
        /\ c.out \in Outputs
        /\ c.objs \in {<<>>} \union {<<o>> : o \in Objects}
    BY DEF Commands, Modes
  <1>2. c.srcs \in Seq(Sources)
    BY <1>1
  <1>3. QED
    BY <1>1, <1>2, LenProperties DEF Names, Objects

\* A binary of one unit, or of that of another, can be written.
LEMMA BinaryContents ==
    ASSUME NEW k \in {"object", "program", "c"}, NEW u \in Units
    PROVE  /\ Binary(k, <<u>>) \in Contents /\ Binary(k, <<u>>) \in Files
           /\ Binary(k, <<u>>) \notin {None, Cut}
  BY DEF Binary, Contents, Files

LEMMA ContentParts ==
    ASSUME NEW b \in Contents
    PROVE  /\ b \notin {None, Cut}
           /\ b.kind \in {"object", "program", "c"}
           /\ Len(b.units) <= 1
  <1>1. b \notin {None, Cut} /\ b.kind \in {"object", "program", "c"}
    BY DEF Contents
  <1>2. CASE b.units = <<>>
    BY <1>1, <1>2
  <1>3. CASE \E u \in Units : b.units = <<u>>
    <2>1. PICK u \in Units : b.units = <<u>>
      BY <1>3
    <2>2. QED
      BY <1>1, <2>1
  <1>4. QED
    BY <1>2, <1>3 DEF Contents

LEMMA CompiledParts ==
    ASSUME NEW b \in Compiled
    PROVE  /\ b \in Contents /\ b.kind = "object"
           /\ \E u \in Units : b.units = <<u>>
  BY DEF Compiled, Contents, Binary

LEMMA DirectoryGrows ==
    ASSUME NEW td \in Directories, NEW stem \in StemNames, NEW b \in Compiled
    PROVE  /\ Stored(td, stem, b) \in Directories
           /\ DOMAIN Stored(td, stem, b) = {stem} \union DOMAIN td
           /\ Stored(td, stem, b)[stem] = b
  <1> DEFINE D == {stem} \union DOMAIN td
  <1>1. D \in SUBSET StemNames /\ \A x \in DOMAIN td : td[x] \in Compiled
    BY DEF Directories
  <1>2. Stored(td, stem, b) \in [D -> Compiled]
    BY <1>1 DEF Stored
  <1>3. QED
    BY <1>1, <1>2 DEF Directories, Stored

\* The unit made of the next source.
LEMMA NextUnit ==
    ASSUME Typed, Counted, Compiling
    PROVE  /\ run.command \in Commands
           /\ Source \in Sources
           /\ Unit(Source) \in Units
           /\ Stem[Source] \in StemNames
           /\ run.next = Len(run.compiled) + 1
           /\ run.next <= Len(run.command.srcs)
  <1>1. run.command \in Commands
    BY DEF Counted, Compiling
  <1>2. Source \in Sources
    BY <1>1, CommandParts DEF Compiling, Source, Cmd
  <1>3. Unit(Source) \in Units
    BY <1>2 DEF Typed, Unit, Units
  <1>4. QED
    BY <1>1, <1>2, <1>3, CommandParts DEF Counted, Compiling, Cmd, StemNames

LEMMA AppendUnit ==
    ASSUME NEW s \in Seq(Units), NEW u \in Units
    PROVE  /\ Append(s, u) \in Seq(Units)
           /\ Len(Append(s, u)) = Len(s) + 1
           /\ Len(s) \in Nat
           /\ Len(s) = 0 => Append(s, u) = <<u>>
  <1>1. Append(s, u) \in Seq(Units) /\ Len(Append(s, u)) = Len(s) + 1 /\ Len(s) \in Nat
    BY AppendProperties, LenProperties
  <1>2. ASSUME Len(s) = 0 PROVE Append(s, u) = <<u>>
    <2>1. /\ Append(s, u) \in Seq(Units) /\ Append(s, u)[1] = u
          /\ Len(Append(s, u)) = 1
      BY <1>1, <1>2, AppendProperties
    <2>2. <<u>> \in Seq(Units) /\ Len(<<u>>) = 1 /\ <<u>>[1] = u
      OBVIOUS
    <2>3. \A i \in 1..Len(Append(s, u)) : Append(s, u)[i] = <<u>>[i]
      BY <2>1, <2>2
    <2>4. QED
      BY <2>1, <2>2, <2>3, SeqEqual
  <1>3. QED
    BY <1>1, <1>2

-----------------------------------------------------------------------------
(* Every step keeps the invariant: one lemma for each action.              *)

LEMMA InitInv == Init => IInv
  <1> SUFFICES ASSUME Init PROVE IInv
    OBVIOUS
  <1> USE DEF Init
  <1>1. run = Idle
    OBVIOUS
  <1>2. Idle.td \in Directories
    <2>1. Idle.td \in [{} -> Compiled]
      BY DEF Idle
    <2>2. QED
      BY <2>1 DEF Directories
  <1>3. run \in Runs
    BY <1>1, <1>2 DEF Idle, Runs, Phases
  <1>4. disk \in [Names -> Files]
    BY DEF Binary, Contents, Files
  <1>5. Typed
    BY <1>3, <1>4 DEF Typed
  <1>6. Counted /\ ObjectsMade /\ OutputWritten /\ RecordsWritten
    BY <1>1 DEF Idle, Counted, ObjectsMade, OutputWritten, RecordsWritten, Afterwards
  <1>7. QED
    BY <1>5, <1>6 DEF IInv

\* The parts of a run.
LEMMA RunParts ==
    ASSUME run \in Runs
    PROVE  /\ run.phase \in Phases /\ run.command \in Commands \union {None}
           /\ run.next \in Nat /\ run.td \in Directories
           /\ run.made \in Seq(StemNames) /\ run.compiled \in Seq(Units)
           /\ Len(run.made) \in Nat /\ DOMAIN run.made = 1..Len(run.made)
           /\ Len(run.compiled) \in Nat
           /\ run.open \in BOOLEAN /\ run.rc \in {0, 1}
  <1>1. /\ run.phase \in Phases /\ run.command \in Commands \union {None}
        /\ run.next \in Nat /\ run.td \in Directories
        /\ run.made \in Seq(StemNames) /\ run.compiled \in Seq(Units)
        /\ run.open \in BOOLEAN /\ run.rc \in {0, 1}
    BY DEF Runs
  <1>2. QED
    BY <1>1, LenProperties

LEMMA EditInv ==
    ASSUME IInv, NEW s \in Sources, Edit(s)
    PROVE  IInv'
  <1> USE DEF IInv, Edit
  <1>1. Typed'
    BY DEF Typed
  <1>2. Counted' /\ ObjectsMade' /\ OutputWritten' /\ RecordsWritten'
    BY DEF Counted, ObjectsMade, OutputWritten, RecordsWritten, Afterwards
  <1>3. QED
    BY <1>1, <1>2

LEMMA BeginInv ==
    ASSUME IInv, NEW c \in Commands, Begin(c)
    PROVE  IInv'
  <1> USE DEF IInv
  <1>1. /\ run'.phase = "sources" /\ run'.command = c /\ run'.next = 1
        /\ run'.made = <<>> /\ run'.compiled = <<>> /\ run'.rc = 0
        /\ run'.open = FALSE
        /\ run'.td = Idle.td
    BY DEF Idle, Begin
  <1>2. Idle.td \in Directories
    <2>1. Idle.td \in [{} -> Compiled]
      BY DEF Idle
    <2>2. QED
      BY <2>1 DEF Directories
  <1>3. run' \in Runs
    <2>1. run' = [phase |-> "sources", command |-> c, next |-> 1, td |-> Idle.td,
                  made |-> <<>>, compiled |-> <<>>, open |-> FALSE, rc |-> 0]
      BY DEF Idle, Begin
    <2>2. QED
      BY <2>1, <1>2 DEF Runs, Phases
  <1>4. Typed'
    BY <1>3 DEF Typed, Begin
  <1>5. Counted' /\ ObjectsMade' /\ OutputWritten' /\ RecordsWritten'
    BY <1>1, CommandParts DEF Counted, ObjectsMade, OutputWritten, RecordsWritten, Afterwards, Begin
  <1>6. QED
    BY <1>4, <1>5

\* A run that returns, with the disk as it was.
LEMMA ReturnedRun ==
    ASSUME run \in Runs, NEW rc \in {0, 1}, run' = Returned(run, rc)
    PROVE  /\ run' \in Runs /\ run'.phase = "returned" /\ run'.rc = rc
           /\ run'.command = run.command /\ run'.next = run.next
           /\ run'.td = run.td /\ run'.made = run.made
           /\ run'.compiled = run.compiled /\ run'.open = FALSE
  BY DEF Returned, Runs, Phases

LEMMA AbortInv ==
    ASSUME IInv, Abort
    PROVE  IInv'
  <1> USE DEF IInv, Abort
  <1>1. /\ run' \in Runs /\ run'.phase = "returned" /\ run'.rc = 1
        /\ run'.command = run.command /\ run'.next = run.next
        /\ run'.td = run.td /\ run'.made = run.made
        /\ run'.compiled = run.compiled /\ run'.open = FALSE
    BY ReturnedRun DEF Typed
  <1>2. Typed'
    BY <1>1 DEF Typed
  <1>3. Counted'
    BY <1>1 DEF Counted, Afterwards
  <1>4. ObjectsMade' /\ OutputWritten' /\ RecordsWritten'
    BY <1>1 DEF ObjectsMade, OutputWritten, RecordsWritten, Afterwards
  <1>5. QED
    BY <1>2, <1>3, <1>4

\* Where the C of one of the sources goes is a name.
LEMMA TargetName ==
    ASSUME NEW s \in Sources, run.command \in Commands
    PROVE  Target(s) \in Names
  <1>1. run.command.out \in Names
    BY CommandParts
  <1>2. QED
    BY <1>1 DEF Target, Cmd, Names

\* A source's unit is added to those that were made.
LEMMA OneMore ==
    ASSUME Typed, Counted, Compiling, NEW more,
           more = Append(run.compiled, Unit(Source))
    PROVE  /\ more \in Seq(Units) /\ Len(more) = Len(run.compiled) + 1
           /\ Len(run.compiled) = 0 => more = <<Unit(Source)>>
           /\ \A k \in 1..Len(more) : more[k].source = run.command.srcs[k]
  <1>1. /\ Unit(Source) \in Units
        /\ run.next = Len(run.compiled) + 1
    BY NextUnit
  <1>2. run.compiled \in Seq(Units) /\ Len(run.compiled) \in Nat
    BY RunParts DEF Typed
  <1>3. /\ more \in Seq(Units) /\ Len(more) = Len(run.compiled) + 1
        /\ Len(run.compiled) = 0 => more = <<Unit(Source)>>
    BY <1>1, <1>2, AppendUnit
  <1>4. /\ \A k \in 1..Len(run.compiled) : more[k] = run.compiled[k]
        /\ more[Len(run.compiled) + 1] = Unit(Source)
    BY <1>1, <1>2, AppendProperties
  <1>5. Unit(Source).source = run.command.srcs[run.next]
    BY DEF Unit, Source, Cmd
  <1>6. ASSUME NEW k \in 1..Len(more) PROVE more[k].source = run.command.srcs[k]
    <2>1. CASE k \in 1..Len(run.compiled)
      BY <1>4, <2>1 DEF Counted
    <2>2. CASE k = Len(run.compiled) + 1
      BY <1>1, <1>4, <1>5, <2>2
    <2>3. QED
      BY <1>2, <1>3, <2>1, <2>2
  <1>7. QED
    BY <1>3, <1>6

LEMMA OpenCInv ==
    ASSUME IInv, OpenC
    PROVE  IInv'
  <1> DEFINE more == Append(run.compiled, Unit(Source))
  <1> USE DEF IInv
  <1>1. /\ run.command \in Commands /\ run.command.mode = "emit"
        /\ Source \in Sources
        /\ run.next = Len(run.compiled) + 1
        /\ run.next <= Len(run.command.srcs)
        /\ run.phase = "sources" /\ run.rc = 0
    BY NextUnit DEF OpenC, Compiling, Cmd, Counted
  <1>2. /\ run \in Runs /\ Len(run.compiled) \in Nat /\ run.next \in Nat
        /\ Len(run.command.srcs) \in Nat
    BY <1>1, RunParts, CommandParts DEF Typed
  <1>3. /\ more \in Seq(Units) /\ Len(more) = Len(run.compiled) + 1
        /\ \A k \in 1..Len(more) : more[k].source = run.command.srcs[k]
    BY OneMore DEF OpenC
  <1>4. /\ run' \in Runs
        /\ run'.phase = "sources" /\ run'.command = run.command
        /\ run'.next = run.next + 1 /\ run'.td = run.td /\ run'.made = run.made
        /\ run'.compiled = more /\ run'.open = TRUE /\ run'.rc = 0
    <2> HIDE DEF more
    <2>1. run' = [run EXCEPT !.next = run.next + 1, !.compiled = more, !.open = TRUE]
      BY DEF OpenC, more
    <2>2. run.next + 1 \in Nat
      BY <1>2
    <2>3. QED
      BY <1>1, <1>2, <1>3, <2>1, <2>2 DEF Runs
  <1>5. disk' \in [Names -> Files]
    <2>1. Target(Source) \in Names
      BY <1>1, TargetName
    <2>2. QED
      BY <2>1 DEF OpenC, Typed, Files
  <1>6. Typed'
    BY <1>4, <1>5 DEF Typed, OpenC
  <1>7. Counted'
    <2> HIDE DEF more
    <2>1. QED
      BY <1>1, <1>2, <1>3, <1>4 DEF Counted, Afterwards
  <1>8. ObjectsMade' /\ RecordsWritten' /\ OutputWritten'
    BY <1>1, <1>4 DEF ObjectsMade, RecordsWritten, OutputWritten, Afterwards
  <1>9. QED
    BY <1>6, <1>7, <1>8

\* The file that is open takes the C of the last source compiled.
LEMMA LastUnit ==
    ASSUME IInv, EmitC
    PROVE  LET u == run.compiled[Len(run.compiled)]
           IN  /\ run.command \in Commands /\ run.command.mode = "emit"
               /\ run.phase = "sources" /\ run.rc = 0
               /\ u \in Units /\ u.source \in Sources
               /\ Len(run.compiled) \in 1..Len(run.command.srcs)
               /\ u.source = run.command.srcs[Len(run.compiled)]
               /\ Len(run.compiled) = 1 => run.compiled = <<u>>
  <1>1. /\ run.phase = "sources" /\ run.open
        /\ run.command \in Commands /\ run.command.mode = "emit" /\ run.rc = 0
        /\ Len(run.compiled) >= 1 /\ Len(run.compiled) <= Len(run.command.srcs)
    BY DEF IInv, EmitC, Counted
  <1>2. /\ run.compiled \in Seq(Units) /\ Len(run.compiled) \in Nat
        /\ Len(run.command.srcs) \in Nat
    BY <1>1, RunParts, CommandParts DEF IInv, Typed
  <1>3. Len(run.compiled) \in 1..Len(run.compiled)
    BY <1>1, <1>2
  <1>4. run.compiled[Len(run.compiled)] \in Units
    BY <1>2, <1>3, ElementOfSeq
  <1>5. run.compiled[Len(run.compiled)].source \in Sources
    BY <1>4 DEF Units
  <1>6. ASSUME Len(run.compiled) = 1 PROVE run.compiled = <<run.compiled[1]>>
    BY <1>2, <1>6
  <1>7. run.compiled[Len(run.compiled)].source = run.command.srcs[Len(run.compiled)]
    BY <1>3 DEF IInv, Counted
  <1>8. QED
    BY <1>1, <1>2, <1>4, <1>5, <1>6, <1>7

\* The C files of --emit-c.
LEMMA EmitCInv ==
    ASSUME IInv, EmitC
    PROVE  IInv'
  <1> DEFINE u == run.compiled[Len(run.compiled)]
             b == Binary("c", <<u>>)
  <1> USE DEF IInv
  <1>1. /\ run.command \in Commands /\ run.command.mode = "emit"
        /\ run.phase = "sources" /\ run.rc = 0
        /\ u \in Units /\ u.source \in Sources
        /\ Len(run.compiled) \in 1..Len(run.command.srcs)
        /\ Len(run.compiled) = 1 => run.compiled = <<u>>
    BY LastUnit
  <1>2. b \in Files /\ Target(u.source) \in Names /\ run.command.out \in Names
    BY <1>1, BinaryContents, TargetName, CommandParts
  <1> HIDE DEF u, b
  <1>3. disk' = [disk EXCEPT ![Target(u.source)] = b]
    BY DEF EmitC, u, b
  <1>4. /\ run' \in Runs
        /\ run'.phase = "sources" /\ run'.command = run.command
        /\ run'.next = run.next /\ run'.td = run.td /\ run'.made = run.made
        /\ run'.compiled = run.compiled /\ run'.open = FALSE /\ run'.rc = 0
    <2>1. run' = [run EXCEPT !.open = FALSE]
      BY DEF EmitC
    <2>2. QED
      BY <1>1, <2>1 DEF Typed, Runs
  <1>5. Typed'
    BY <1>2, <1>3, <1>4 DEF Typed, EmitC
  <1>6. Counted'
    BY <1>1, <1>4 DEF Counted, Afterwards
  <1>7. ObjectsMade' /\ RecordsWritten'
    BY <1>1, <1>4 DEF ObjectsMade, RecordsWritten
  <1>8. OutputWritten'
    <2> SUFFICES ASSUME Len(run.command.srcs) = 1, Len(run.compiled) = 1
                 PROVE  disk'[run.command.out] = Binary("c", run.compiled)
      BY <1>1, <1>4 DEF OutputWritten, Afterwards
    <2>1. Target(u.source) = run.command.out
      BY DEF Target, Cmd
    <2>2. disk'[run.command.out] = b
      BY <1>2, <1>3, <2>1 DEF Typed
    <2>3. QED
      BY <1>1, <2>2 DEF b
  <1>9. QED
    BY <1>5, <1>6, <1>7, <1>8

\* The C compiler makes an object, of the output or of the directory.
LEMMA CompileSourceInv ==
    ASSUME IInv, CompileSource
    PROVE  IInv'
  <1> DEFINE u == Unit(Source)
             b == Binary("object", <<u>>)
             stem == Stem[Source]
  <1> USE DEF IInv
  <1>1. /\ run.command \in Commands /\ run.command.mode \in {"link", "compile"}
        /\ u \in Units /\ stem \in StemNames
        /\ run.next = Len(run.compiled) + 1
        /\ run.next <= Len(run.command.srcs)
        /\ run.phase = "sources" /\ run.open = FALSE /\ run.rc = 0
    BY NextUnit, CommandParts, RunParts
    DEF CompileSource, Compiling, Cmd, Typed, Counted
  <1>2. /\ run \in Runs /\ run.compiled \in Seq(Units) /\ Len(run.compiled) \in Nat
        /\ run.made \in Seq(StemNames) /\ Len(run.made) \in Nat
        /\ DOMAIN run.made = 1..Len(run.made)
        /\ run.td \in Directories /\ run.next \in Nat
        /\ Len(run.command.srcs) \in Nat /\ run.command.out \in Names
    BY <1>1, RunParts, CommandParts DEF Typed
  <1>3. /\ Append(run.compiled, u) \in Seq(Units)
        /\ Len(Append(run.compiled, u)) = Len(run.compiled) + 1
        /\ Len(run.compiled) = 0 => Append(run.compiled, u) = <<u>>
        /\ \A k \in 1..Len(Append(run.compiled, u)) :
              Append(run.compiled, u)[k].source = run.command.srcs[k]
    BY OneMore DEF CompileSource
  <1>4. b \in Files /\ b \in Compiled /\ b.units = <<u>>
    BY <1>1, BinaryContents DEF Compiled, Binary
  <1>5. run.next + 1 \in Nat
    BY <1>2
  <1>6. CASE ToOutput
    <2>1. run.command.mode = "compile" /\ Len(run.command.srcs) = 1
      BY <1>6 DEF ToOutput, Cmd
    <2>2. /\ run' = [run EXCEPT !.next = run.next + 1,
                                !.compiled = Append(run.compiled, u)]
          /\ disk' = [disk EXCEPT ![run.command.out] = b]
      BY <1>6 DEF CompileSource, Cmd
    <2>3. /\ run' \in Runs
          /\ run'.phase = "sources" /\ run'.command = run.command
          /\ run'.next = run.next + 1 /\ run'.td = run.td /\ run'.made = run.made
          /\ run'.compiled = Append(run.compiled, u)
          /\ run'.open = FALSE /\ run'.rc = 0
      BY <1>1, <1>2, <1>3, <1>5, <2>2 DEF Runs
    <2>4. Typed'
      BY <1>4, <2>2, <2>3 DEF Typed, CompileSource
    <2>5. Counted'
      BY <1>1, <1>2, <1>3, <2>3 DEF Counted, Afterwards
    <2>6. ObjectsMade' /\ RecordsWritten'
      BY <2>1, <2>3 DEF ObjectsMade, RecordsWritten
    <2>7. run'.compiled = <<u>>
      BY <1>1, <1>2, <1>3, <2>1, <2>3
    <2>8. disk'[run.command.out] = b
      BY <1>2, <2>2 DEF Typed
    <2>9. OutputWritten'
      BY <2>1, <2>3, <2>7, <2>8 DEF OutputWritten, Afterwards
    <2>10. QED
      BY <2>4, <2>5, <2>6, <2>9
  <1>7. CASE ~ToOutput
    <2>1. ~(run.command.mode = "compile" /\ Len(run.command.srcs) = 1)
      BY <1>7 DEF ToOutput, Cmd
    <2>2. /\ run' = [run EXCEPT !.next = run.next + 1,
                                !.td = Stored(run.td, stem, b),
                                !.made = Append(run.made, stem),
                                !.compiled = Append(run.compiled, u)]
          /\ disk' = disk
      BY <1>7 DEF CompileSource
    <2>3. /\ Stored(run.td, stem, b) \in Directories
          /\ DOMAIN Stored(run.td, stem, b) = {stem} \union DOMAIN run.td
          /\ Stored(run.td, stem, b)[stem] = b
      <3>1. run.td \in Directories /\ stem \in StemNames /\ b \in Compiled
        BY <1>1, <1>2, <1>4
      <3>2. \A t \in Directories : \A k \in StemNames : \A o \in Compiled :
              /\ Stored(t, k, o) \in Directories
              /\ DOMAIN Stored(t, k, o) = {k} \union DOMAIN t
              /\ Stored(t, k, o)[k] = o
        BY DirectoryGrows
      <3>3. Stored(run.td, stem, b) \in Directories
        BY <3>1, <3>2
      <3>4. DOMAIN Stored(run.td, stem, b) = {stem} \union DOMAIN run.td
        BY <3>1, <3>2
      <3>5. Stored(run.td, stem, b)[stem] = b
        BY DEF Stored
      <3>6. QED
        BY <3>3, <3>4, <3>5
    <2>4. /\ Append(run.made, stem) \in Seq(StemNames)
          /\ Len(Append(run.made, stem)) = Len(run.made) + 1
          /\ \A i \in 1..Len(run.made) : Append(run.made, stem)[i] = run.made[i]
          /\ Append(run.made, stem)[Len(run.made) + 1] = stem
      BY <1>1, <1>2, AppendProperties
    <2>5. DOMAIN Append(run.made, stem) = 1..(Len(run.made) + 1)
      BY <2>4, LenProperties
    <2>6. /\ run' \in Runs
          /\ run'.phase = "sources" /\ run'.command = run.command
          /\ run'.next = run.next + 1 /\ run'.td = Stored(run.td, stem, b)
          /\ run'.made = Append(run.made, stem)
          /\ run'.compiled = Append(run.compiled, u)
          /\ run'.open = FALSE /\ run'.rc = 0
      BY <1>1, <1>2, <1>3, <1>5, <2>2, <2>3, <2>4 DEF Runs
    <2>7. Typed'
      BY <2>2, <2>6 DEF Typed, CompileSource
    <2>8. Counted'
      BY <1>1, <1>2, <1>3, <2>6 DEF Counted, Afterwards
    <2>9. \A k \in DOMAIN run'.made : run'.made[k] \in DOMAIN run'.td
      BY <1>2, <2>3, <2>4, <2>5, <2>6 DEF ObjectsMade
    <2>10. ASSUME run.command.mode = "link"
           PROVE  /\ Len(run'.made) = Len(run'.compiled)
                  /\ Len(run'.compiled) = 1 =>
                        run'.td[run'.made[1]].units = run'.compiled
      <3>1. Len(run.made) = Len(run.compiled)
        BY <1>1, <2>10 DEF ObjectsMade
      <3>2. Len(run'.made) = Len(run'.compiled)
        BY <1>3, <2>4, <2>6, <3>1
      <3>3. ASSUME Len(run'.compiled) = 1
            PROVE  run'.td[run'.made[1]].units = run'.compiled
        <4>1. Len(run.compiled) = 0 /\ Len(run.made) = 0
          BY <1>2, <1>3, <2>6, <3>1, <3>3
        <4>2. run'.made[1] = stem
          BY <2>4, <2>6, <4>1
        <4>3. run'.compiled = <<u>>
          BY <1>3, <2>6, <4>1, SMTT(30)
        <4>4. QED
          BY <1>4, <2>3, <2>6, <4>2, <4>3
      <3>4. QED
        BY <3>2, <3>3
    <2>11. ObjectsMade' /\ RecordsWritten'
      BY <2>6, <2>9, <2>10 DEF ObjectsMade, RecordsWritten
    <2>12. OutputWritten'
      BY <1>1, <2>1, <2>6 DEF OutputWritten, Afterwards
    <2>13. QED
      BY <2>7, <2>8, <2>11, <2>12
  <1>8. QED
    BY <1>6, <1>7

\* An output that a failing program may have removed or cut off.
LEMMA Removed ==
    ASSUME IInv, run.phase \notin {"idle"},
           \/ UNCHANGED disk
           \/ \E left \in {None, Cut} : disk' = [disk EXCEPT ![Cmd.out] = left]
    PROVE  /\ run.command \in Commands /\ run.command.out \in Names
           /\ disk' \in [Names -> Files]
  <1>1. run.command \in Commands
    BY DEF IInv, Counted
  <1>2. run.command.out \in Names
    BY <1>1, CommandParts
  <1>3. QED
    BY <1>1, <1>2 DEF IInv, Typed, Cmd, Files

LEMMA CompileFailsInv ==
    ASSUME IInv, CompileFails
    PROVE  IInv'
  <1> USE DEF IInv
  <1>1. /\ run' \in Runs /\ run'.phase = "returned" /\ run'.rc = 1
        /\ run'.command = run.command /\ run'.next = run.next
        /\ run'.td = run.td /\ run'.made = run.made
        /\ run'.compiled = run.compiled /\ run'.open = FALSE
    BY ReturnedRun DEF Typed, CompileFails
  <1>2. /\ run.command \in Commands /\ run.command.out \in Names
        /\ disk' \in [Names -> Files]
    BY Removed DEF CompileFails, Compiling
  <1>3. Typed'
    BY <1>1, <1>2 DEF Typed, CompileFails
  <1>4. Counted' /\ ObjectsMade' /\ RecordsWritten'
    BY <1>1, SMTT(30) DEF Counted, ObjectsMade, RecordsWritten, Afterwards, CompileFails, Compiling
  <1>5. ~(Len(run.command.srcs) = 1 /\ Len(run.compiled) = 1)
    <2>1. /\ run.next = Len(run.compiled) + 1
          /\ run.next <= Len(run.command.srcs)
      BY NextUnit DEF CompileFails
    <2>2. Len(run.compiled) \in Nat
      BY RunParts DEF Typed
    <2>3. QED
      BY <2>1, <2>2
  <1>6. OutputWritten'
    BY <1>1, <1>5 DEF OutputWritten, Afterwards
  <1>7. QED
    BY <1>3, <1>4, <1>6

LEMMA LinkFailsInv ==
    ASSUME IInv, LinkFails
    PROVE  IInv'
  <1> USE DEF IInv
  <1>1. /\ run' \in Runs /\ run'.phase = "returned" /\ run'.rc = 1
        /\ run'.command = run.command /\ run'.next = run.next
        /\ run'.td = run.td /\ run'.made = run.made
        /\ run'.compiled = run.compiled /\ run'.open = FALSE
    BY ReturnedRun DEF Typed, LinkFails
  <1>2. disk' \in [Names -> Files]
    BY Removed DEF LinkFails, SourcesDone
  <1>3. Typed'
    BY <1>1, <1>2 DEF Typed, LinkFails
  <1>4. Counted' /\ ObjectsMade' /\ RecordsWritten'
    BY <1>1 DEF Counted, ObjectsMade, RecordsWritten, Afterwards, LinkFails, SourcesDone
  <1>5. OutputWritten'
    BY <1>1 DEF OutputWritten, Afterwards, LinkFails, Cmd
  <1>6. QED
    BY <1>3, <1>4, <1>5

\* When all sources are compiled, the counts of the run agree.
LEMMA AllCompiled ==
    ASSUME IInv, SourcesDone
    PROVE  /\ run.command \in Commands
           /\ Len(run.compiled) = Len(run.command.srcs)
           /\ run.phase = "sources" /\ run.open = FALSE /\ run.rc = 0
  <1>1. /\ run.command \in Commands /\ run.phase = "sources"
        /\ run.next = Len(run.compiled) + 1 /\ run.next > Len(run.command.srcs)
        /\ Len(run.compiled) <= Len(run.command.srcs)
    BY DEF IInv, Counted, SourcesDone, Cmd
  <1>2. /\ Len(run.compiled) \in Nat /\ Len(run.command.srcs) \in Nat
        /\ run.open = FALSE /\ run.rc = 0
    BY <1>1, RunParts, CommandParts DEF IInv, Typed, Counted, SourcesDone
  <1>3. QED
    BY <1>1, <1>2

LEMMA FinishCompileInv ==
    ASSUME IInv, FinishCompile
    PROVE  IInv'
  <1> USE DEF IInv
  <1>1. /\ run.command \in Commands /\ run.command.mode # "link"
        /\ Len(run.compiled) = Len(run.command.srcs)
        /\ run.phase = "sources" /\ run.open = FALSE /\ run.rc = 0
    BY AllCompiled DEF FinishCompile, Cmd
  <1>2. /\ run' \in Runs /\ run'.command = run.command /\ run'.next = run.next
        /\ run'.td = run.td /\ run'.made = run.made
        /\ run'.compiled = run.compiled /\ run'.open = FALSE
        /\ \/ run'.phase = "metadata" /\ run.command.mode # "emit"
           \/ run'.phase = "returned"
        /\ run'.rc = 0
    <2>1. CASE Debugging /\ Cmd.mode = "compile"
      <3>1. run' = [run EXCEPT !.phase = "metadata"] /\ run.command.mode = "compile"
        BY <2>1 DEF FinishCompile, Cmd
      <3>2. QED
        BY <1>1, <3>1 DEF Typed, Runs, Phases
    <2>2. CASE ~(Debugging /\ Cmd.mode = "compile")
      <3>1. run' = Returned(run, 0)
        BY <2>2 DEF FinishCompile
      <3>2. QED
        BY <3>1, ReturnedRun DEF Typed
    <2>3. QED
      BY <2>1, <2>2
  <1>3. Typed'
    BY <1>2 DEF Typed, FinishCompile
  <1>4. Counted' /\ ObjectsMade' /\ RecordsWritten'
    BY <1>1, <1>2 DEF Counted, ObjectsMade, RecordsWritten, Afterwards
  <1>5. OutputWritten'
    BY <1>1, <1>2 DEF OutputWritten, Afterwards, FinishCompile
  <1>6. QED
    BY <1>3, <1>4, <1>5

\* The linker takes at most one unit, and a source makes one: if there is a
\* source, the program is its unit.
LEMMA LinkedUnit ==
    ASSUME IInv, SourcesDone, Cmd.mode = "link", Linkable, NEW i \in WithUnit
    PROVE  /\ Binary("program", Linked[i].units) \in Contents
           /\ run.command.srcs # <<>> => Linked[i].units = run.compiled
  <1>1. /\ run.command \in Commands /\ run.command.mode = "link"
        /\ Len(run.compiled) = Len(run.command.srcs)
        /\ run.phase = "sources"
    BY AllCompiled DEF Cmd
  <1>2. /\ run.made \in Seq(StemNames) /\ Len(run.made) \in Nat
        /\ DOMAIN run.made = 1..Len(run.made) /\ run.td \in Directories
        /\ run.compiled \in Seq(Units)
    BY RunParts DEF IInv, Typed
  <1>3. /\ \A k \in DOMAIN run.made : run.made[k] \in DOMAIN run.td
        /\ Len(run.made) = Len(run.compiled)
        /\ Len(run.compiled) = 1 => run.td[run.made[1]].units = run.compiled
    BY <1>1 DEF IInv, ObjectsMade
  <1> DEFINE made == [k \in DOMAIN run.made |-> run.td[run.made[k]]]
             objs == [k \in DOMAIN Cmd.objs |-> disk[Cmd.objs[k]]]
  <1>4. \A k \in DOMAIN run.made : run.td[run.made[k]] \in Compiled
    BY <1>2, <1>3 DEF Directories
  <1>5. made \in Seq(Compiled) /\ Len(made) = Len(run.made)
    BY <1>2, <1>4
  <1>6. objs \in Seq(Files)
    <2>1. Cmd.objs \in Seq(Objects)
      <3>1. CASE Cmd.objs = <<>>
        BY <3>1
      <3>2. CASE \E o \in Objects : Cmd.objs = <<o>>
        BY <3>2
      <3>3. QED
        BY <1>1, <3>1, <3>2, CommandParts DEF Cmd
    <2>2. Len(Cmd.objs) \in Nat /\ DOMAIN Cmd.objs = 1..Len(Cmd.objs)
      BY <2>1, LenProperties
    <2>3. \A k \in DOMAIN Cmd.objs : disk[Cmd.objs[k]] \in Files
      BY <2>1, <2>2, ElementOfSeq DEF Names, IInv, Typed
    <2>4. QED
      BY <2>2, <2>3
  <1>7. \A b \in Compiled : b \in Contents /\ b.units # <<>>
    <2> SUFFICES ASSUME NEW b \in Compiled PROVE b \in Contents /\ b.units # <<>>
      OBVIOUS
    <2>1. b \in Contents /\ \E u \in Units : b.units = <<u>>
      BY CompiledParts
    <2>2. QED
      BY <2>1
  <1>8. made \in Seq(Files)
    BY <1>5, <1>7 DEF Files
  <1>9. /\ Linked \in Seq(Files)
        /\ Len(Linked) = Len(made) + Len(objs)
        /\ \A k \in 1..Len(made) : Linked[k] = made[k]
        /\ Len(objs) \in Nat /\ Len(made) \in Nat
    <2> HIDE DEF made, objs
    <2>1. Linked = made \o objs
      BY DEF Linked, made, objs
    <2>2. Len(objs) \in Nat /\ Len(made) \in Nat
      BY <1>6, <1>8, LenProperties
    <2>3. QED
      BY <1>6, <1>8, <2>1, <2>2, ConcatProperties
  <1>10. DOMAIN Linked = 1..Len(Linked)
    BY <1>9, LenProperties
  <1>11. \A k \in 1..Len(made) : k \in WithUnit
    <2> SUFFICES ASSUME NEW k \in 1..Len(made) PROVE k \in WithUnit
      OBVIOUS
    <2> HIDE DEF made, objs
    <2>1. made[k] \in Compiled
      BY <1>5
    <2>2. Linked[k] = made[k] /\ k \in DOMAIN Linked
      BY <1>9, <1>10
    <2>3. QED
      BY <1>7, <2>1, <2>2 DEF WithUnit
  <1>12. \A k \in WithUnit : k = i
    BY DEF Linkable
  <1>13. Linked[i] \in Contents
    BY <1>9, <1>10 DEF WithUnit, Linkable, Files
  <1>14. Binary("program", Linked[i].units) \in Contents
    BY <1>13 DEF Contents, Binary
  <1>15. ASSUME run.command.srcs # <<>>
         PROVE  Linked[i].units = run.compiled
    <2>1. Len(run.command.srcs) \in Nat /\ Len(run.command.srcs) # 0
      BY <1>1, <1>15, CommandParts, EmptySeq
    <2>2. Len(made) = Len(run.compiled) /\ Len(made) >= 1
      BY <1>1, <1>3, <1>5, <2>1
    <2>3. Len(made) = 1 /\ i = 1
      <3>1. 1 \in WithUnit
        BY <1>9, <1>11, <2>2
      <3>2. Len(made) >= 2 => 2 \in WithUnit
        BY <1>9, <1>11
      <3>3. QED
        BY <1>9, <1>12, <2>2, <3>1, <3>2
    <2>4. Linked[1] = run.td[run.made[1]]
      <3>1. made[1] = run.td[run.made[1]]
        BY <1>2, <1>5, <2>3
      <3> HIDE DEF made, objs
      <3>2. QED
        BY <1>9, <2>3, <3>1
    <2>5. QED
      BY <1>3, <2>2, <2>3, <2>4
  <1>16. QED
    BY <1>14, <1>15

LEMMA LinkInv ==
    ASSUME IInv, Link
    PROVE  IInv'
  <1> USE DEF IInv
  <1>1. /\ run.command \in Commands /\ run.command.mode = "link"
        /\ Len(run.compiled) = Len(run.command.srcs)
        /\ run.phase = "sources" /\ run.open = FALSE /\ run.rc = 0
    BY AllCompiled DEF Link, Cmd
  <1>2. /\ run' \in Runs /\ run'.command = run.command /\ run'.next = run.next
        /\ run'.td = run.td /\ run'.made = run.made
        /\ run'.compiled = run.compiled /\ run'.open = FALSE
        /\ run'.phase = "metadata" \/ run'.phase = "returned"
        /\ run'.rc = 0
    <2>1. CASE Debugging
      <3>1. run' = [run EXCEPT !.phase = "metadata"]
        BY <2>1 DEF Link
      <3>2. QED
        BY <1>1, <3>1 DEF Typed, Runs, Phases
    <2>2. CASE ~Debugging
      <3>1. run' = Returned(run, 0)
        BY <2>2 DEF Link
      <3>2. QED
        BY <3>1, ReturnedRun DEF Typed
    <2>3. QED
      BY <2>1, <2>2
  <1>3. PICK i \in WithUnit :
            disk' = [disk EXCEPT ![run.command.out] = Binary("program", Linked[i].units)]
    BY DEF Link, Cmd
  <1>4. /\ Binary("program", Linked[i].units) \in Contents
        /\ run.command.srcs # <<>> => Linked[i].units = run.compiled
    BY LinkedUnit DEF Link
  <1>5. run.command.out \in Names
    BY <1>1, CommandParts
  <1>6. Typed'
    BY <1>2, <1>3, <1>4 DEF Typed, Link, Files
  <1>7. Counted' /\ ObjectsMade' /\ RecordsWritten'
    BY <1>1, <1>2 DEF Counted, ObjectsMade, RecordsWritten, Afterwards
  <1>8. /\ disk'[run.command.out] \in Contents
        /\ disk'[run.command.out].kind = "program"
        /\ disk'[run.command.out].units = Linked[i].units
    <2>1. disk'[run.command.out] = Binary("program", Linked[i].units)
      BY <1>3, <1>5 DEF Typed
    <2>2. QED
      BY <1>4, <2>1 DEF Binary
  <1>9. OutputWritten'
    BY <1>1, <1>2, <1>4, <1>8 DEF OutputWritten, Afterwards
  <1>10. QED
    BY <1>6, <1>7, <1>9

\* The file for the metadata, or the symbols, is opened.
LEMMA OpenedRun ==
    ASSUME IInv, OpenMetadata \/ OpenSymbols
    PROVE  /\ run' \in Runs /\ run'.phase = run.phase
           /\ run.phase \in {"metadata", "symbols"}
           /\ run'.command = run.command /\ run'.next = run.next
           /\ run'.td = run.td /\ run'.made = run.made
           /\ run'.compiled = run.compiled /\ run'.rc = run.rc
           /\ run'.open = TRUE
  <1>1. run' = [run EXCEPT !.open = TRUE] /\ run \in Runs
    BY DEF OpenMetadata, OpenSymbols, IInv, Typed
  <1>2. run.phase \in {"metadata", "symbols"}
    BY DEF OpenMetadata, OpenSymbols
  <1>3. QED
    BY <1>1, <1>2 DEF Runs

LEMMA OpenMetadataInv ==
    ASSUME IInv, OpenMetadata
    PROVE  IInv'
  <1> USE DEF IInv
  <1>1. /\ run' \in Runs /\ run'.phase = run.phase
        /\ run.phase = "metadata"
        /\ run'.command = run.command /\ run'.next = run.next
        /\ run'.td = run.td /\ run'.made = run.made
        /\ run'.compiled = run.compiled /\ run'.rc = run.rc
        /\ run'.open = TRUE
    BY OpenedRun DEF OpenMetadata
  <1>2. Typed'
    BY <1>1 DEF Typed, OpenMetadata
  <1>3. Counted' /\ ObjectsMade' /\ RecordsWritten'
    BY <1>1 DEF Counted, ObjectsMade, RecordsWritten, Afterwards
  <1>4. OutputWritten'
    BY <1>1 DEF OutputWritten, Afterwards, OpenMetadata
  <1>5. QED
    BY <1>2, <1>3, <1>4

LEMMA WriteMetadataInv ==
    ASSUME IInv, WriteMetadata
    PROVE  IInv'
  <1> USE DEF IInv
  <1>1. /\ run.phase = "metadata" /\ run.command \in Commands
        /\ run.command.out \in Outputs /\ run.rc = 0
    BY CommandParts DEF WriteMetadata, Counted
  <1>2. /\ run' \in Runs /\ run'.phase = "symbols"
        /\ run'.command = run.command /\ run'.next = run.next
        /\ run'.td = run.td /\ run'.made = run.made
        /\ run'.compiled = run.compiled /\ run'.open = FALSE
        /\ run'.rc = run.rc
    <2>1. run' = [run EXCEPT !.phase = "symbols", !.open = FALSE]
      BY DEF WriteMetadata
    <2>2. QED
      BY <2>1 DEF Typed, Runs, Phases
  <1>3. json' = [json EXCEPT ![run.command.out] =
                    Metadata(run.command.options, run.compiled)]
    BY DEF WriteMetadata, Cmd
  <1>4. Typed'
    BY <1>2, <1>3 DEF Typed, WriteMetadata
  <1>5. Counted' /\ ObjectsMade'
    BY <1>1, <1>2 DEF Counted, ObjectsMade, Afterwards
  <1>6. RecordsWritten'
    BY <1>1, <1>2, <1>3 DEF Typed, RecordsWritten
  <1>7. OutputWritten'
    BY <1>1, <1>2 DEF OutputWritten, Afterwards, WriteMetadata
  <1>8. QED
    BY <1>4, <1>5, <1>6, <1>7

LEMMA OpenSymbolsInv ==
    ASSUME IInv, OpenSymbols
    PROVE  IInv'
  <1> USE DEF IInv
  <1>1. /\ run' \in Runs /\ run'.phase = run.phase
        /\ run.phase = "symbols"
        /\ run'.command = run.command /\ run'.next = run.next
        /\ run'.td = run.td /\ run'.made = run.made
        /\ run'.compiled = run.compiled /\ run'.rc = run.rc
        /\ run'.open = TRUE
    BY OpenedRun DEF OpenSymbols
  <1>2. Typed'
    BY <1>1 DEF Typed, OpenSymbols
  <1>3. Counted' /\ ObjectsMade' /\ RecordsWritten'
    BY <1>1 DEF Counted, ObjectsMade, RecordsWritten, Afterwards, OpenSymbols
  <1>4. OutputWritten'
    BY <1>1 DEF OutputWritten, Afterwards, OpenSymbols
  <1>5. QED
    BY <1>2, <1>3, <1>4

LEMMA WriteSymbolsInv ==
    ASSUME IInv, WriteSymbols
    PROVE  IInv'
  <1> USE DEF IInv
  <1>1. /\ run' \in Runs /\ run'.phase = "returned" /\ run'.rc = 0
        /\ run'.command = run.command /\ run'.next = run.next
        /\ run'.td = run.td /\ run'.made = run.made
        /\ run'.compiled = run.compiled /\ run'.open = FALSE
    BY ReturnedRun DEF Typed, WriteSymbols
  <1>2. syms' = [syms EXCEPT ![Cmd.out] = Merged(json[Cmd.out], Found)]
    BY DEF WriteSymbols
  <1>3. Typed'
    BY <1>1, <1>2 DEF Typed, WriteSymbols
  <1>4. Counted' /\ ObjectsMade' /\ RecordsWritten'
    BY <1>1, SMTT(30) DEF Counted, ObjectsMade, RecordsWritten, Afterwards, WriteSymbols
  <1>5. OutputWritten'
    BY <1>1 DEF OutputWritten, Afterwards, WriteSymbols, Counted
  <1>6. QED
    BY <1>3, <1>4, <1>5

LEMMA SymbolsFailInv ==
    ASSUME IInv, SymbolsFail
    PROVE  IInv'
  <1> USE DEF IInv
  <1>1. /\ run' \in Runs /\ run'.phase = "returned"
        /\ run'.command = run.command /\ run'.next = run.next
        /\ run'.td = run.td /\ run'.made = run.made
        /\ run'.compiled = run.compiled /\ run'.open = FALSE
    BY ReturnedRun DEF Typed, SymbolsFail
  <1>2. Typed'
    BY <1>1 DEF Typed, SymbolsFail
  <1>3. Counted' /\ ObjectsMade' /\ RecordsWritten'
    BY <1>1 DEF Counted, ObjectsMade, RecordsWritten, Afterwards, SymbolsFail
  <1>4. OutputWritten'
    BY <1>1 DEF OutputWritten, Afterwards, SymbolsFail, Counted
  <1>5. QED
    BY <1>2, <1>3, <1>4

LEMMA NextInv == IInv /\ [Next]_vars => IInv'
  <1> SUFFICES ASSUME IInv, [Next]_vars PROVE IInv'
    OBVIOUS
  <1>1. ASSUME NEW s \in Sources, Edit(s) PROVE IInv'
    BY <1>1, EditInv
  <1>2. ASSUME NEW c \in Commands, Begin(c) PROVE IInv'
    BY <1>2, BeginInv
  <1>3. CASE Abort
    BY <1>3, AbortInv
  <1>4. CASE Step
    BY <1>4, OpenCInv, EmitCInv, CompileSourceInv, CompileFailsInv,
       FinishCompileInv, LinkInv, LinkFailsInv, OpenMetadataInv, WriteMetadataInv,
       OpenSymbolsInv, WriteSymbolsInv, SymbolsFailInv DEF Step
  <1>5. CASE UNCHANGED vars
    BY <1>5 DEF vars, IInv, Typed, Counted, ObjectsMade, OutputWritten,
       RecordsWritten, Afterwards
  <1>6. QED
    BY <1>1, <1>2, <1>3, <1>4, <1>5 DEF Next

LEMMA Inductive == Spec => []IInv
  BY InitInv, NextInv, PTL DEF Spec

-----------------------------------------------------------------------------
(* Theorems.                                                               *)

\* The variables have their types: nothing the driver writes holds more than
\* one unit, and it never gets ahead of the units it made.
THEOREM TypeCorrect == Spec => []TypeOK
  <1>1. IInv => TypeOK
    <2> SUFFICES ASSUME IInv PROVE TypeOK
      OBVIOUS
    <2>1. version \in [Sources -> 0..MaxEdits] /\ runs \in 0..MaxRuns /\ edits \in 0..MaxEdits
      BY DEF IInv, Typed
    <2>2. disk \in [Names -> Files]
      BY DEF IInv, Typed
    <2>3. ASSUME NEW n \in Names, disk[n] \notin {None, Cut}
          PROVE  disk[n].kind \in {"object", "program", "c"} /\ Len(disk[n].units) <= 1
      BY <2>2, <2>3, ContentParts DEF Files
    <2>4. /\ run.phase \in {"idle", "sources", "metadata", "symbols", "returned"}
          /\ run.next <= Len(run.compiled) + 1
          /\ run.open => run.phase \in {"sources", "metadata", "symbols"}
      BY RunParts DEF IInv, Typed, Counted, Phases
    <2>5. QED
      BY <2>1, <2>2, <2>3, <2>4 DEF TypeOK
  <1>2. QED
    BY <1>1, Inductive, PTL

\* A run that returns 0 has delivered what it compiled, though sources of one
\* stem overwrite each other's objects: then there are two of them, and the
\* linker refuses.
THEOREM AlwaysDelivered == Spec => []Delivered
  <1>1. IInv => Delivered
    <2> SUFFICES ASSUME IInv, Succeeded, Asked
                 PROVE  /\ disk[Cmd.out] \notin {None, Cut}
                        /\ disk[Cmd.out].kind = CASE Cmd.mode = "link" -> "program"
                                                  [] Cmd.mode = "compile" -> "object"
                                                  [] Cmd.mode = "emit" -> "c"
                        /\ Len(run.compiled) = Len(Cmd.srcs)
                        /\ Cmd.srcs # <<>> => disk[Cmd.out].units = run.compiled
      BY DEF Delivered
    <2>1. /\ run.command \in Commands /\ run.command.out \in Names
          /\ run.command.mode \in {"link", "compile", "emit"}
          /\ Len(run.compiled) = Len(run.command.srcs)
          /\ Afterwards /\ run.phase = "returned" /\ run.rc = 0
      BY CommandParts DEF IInv, Counted, Succeeded, Afterwards
    <2>2. CASE run.command.mode = "link"
      BY <2>1, <2>2, ContentParts DEF IInv, OutputWritten, Cmd
    <2>3. CASE run.command.mode # "link"
      <3>1. Len(run.command.srcs) = 1
        BY <2>3 DEF Asked, Cmd
      <3>2. disk[run.command.out] =
              Binary(IF run.command.mode = "emit" THEN "c" ELSE "object", run.compiled)
        BY <2>1, <2>3, <3>1 DEF IInv, OutputWritten
      <3>3. disk[run.command.out] \notin {None, Cut}
        <4>1. run.compiled \in Seq(Units) /\ Len(run.compiled) = 1
          BY <2>1, <3>1 DEF IInv, Typed, Runs
        <4>2. run.compiled[1] \in Units
          BY <4>1
        <4>3. run.compiled = <<run.compiled[1]>>
          BY <4>1
        <4>4. QED
          BY <3>2, <4>2, <4>3, BinaryContents
      <3>4. QED
        BY <2>1, <2>3, <3>2, <3>3 DEF Binary, Cmd
    <2>4. QED
      BY <2>2, <2>3
  <1>2. QED
    BY <1>1, Inductive, PTL

-----------------------------------------------------------------------------
(* The records of the symbol file.                                         *)

\* A set of natural numbers that is not empty has a least element.
LEMMA LeastExists ==
    ASSUME NEW S \in SUBSET Nat, S # {}
    PROVE  \E e \in S : \A d \in S : e <= d
  <1> DEFINE less == {ss \in Nat \X Nat : ss[1] < ss[2]}
  <1>1. IsWellFoundedOn(less, Nat)
    BY NatLessThanWellFounded DEF OpToRel
  <1>2. PICK e \in S : \A d \in S : <<d, e>> \notin less
    <2> HIDE DEF less
    <2>1. QED
      BY <1>1, WFMin
  <1>3. ASSUME NEW d \in S PROVE e <= d
    <2>1. e \in Nat /\ d \in Nat /\ <<d, e>> \in Nat \X Nat
      OBVIOUS
    <2>2. ~(<<d, e>>[1] < <<d, e>>[2])
      BY <1>2, <2>1
    <2>3. QED
      BY <2>1, <2>2
  <1>4. QED
    BY <1>3

\* Two records of one unit for one symbol are one.
LEMMA OneOfAUnit ==
    ASSUME NEW u, NEW q \in Records(u), NEW r \in Records(u), q.symbol = r.symbol
    PROVE  q = r
  <1>1. ASSUME NEW p \in Records(u) PROVE p = [symbol |-> p.symbol, unit |-> u]
    BY DEF Records
  <1>2. QED
    BY <1>1

\* A symbol of some units has exactly one record among the first ones.
LEMMA FirstRecord ==
    ASSUME NEW units \in Seq(Units), NEW u \in ToSet(units), NEW r \in Records(u)
    PROVE  \E v \in ToSet(units) : \E own \in Records(v) :
              /\ own \in FirstRecords(units)
              /\ own.symbol = r.symbol
              /\ \A q \in FirstRecords(units) : q.symbol = r.symbol => q = own
  <1> DEFINE S == {i \in DOMAIN units : r.symbol \in Symbols(Records(units[i]))}
  <1>1. S \in SUBSET Nat /\ DOMAIN units = 1..Len(units) /\ Len(units) \in Nat
    BY LenProperties
  <1>2. S # {}
    <2>1. PICK k \in DOMAIN units : units[k] = u
      BY DEF ToSet
    <2>2. k \in S
      BY <2>1 DEF Symbols
    <2>3. QED
      BY <2>2
  <1>3. PICK i \in S : \A j \in S : i <= j
    <2> HIDE DEF S
    <2>1. QED
      BY <1>1, <1>2, LeastExists
  <1>4. PICK own \in Records(units[i]) : own.symbol = r.symbol
    BY DEF Symbols
  <1>5. units[i] \in ToSet(units)
    BY DEF ToSet
  <1>6. \A j \in 1..(i - 1) : r.symbol \notin Symbols(Records(units[j]))
    BY <1>1, <1>3
  <1>7. own \in FirstRecords(units)
    BY <1>4, <1>6 DEF FirstRecords
  <1>8. ASSUME NEW q \in FirstRecords(units), q.symbol = r.symbol
        PROVE  q = own
    <2>1. PICK k \in DOMAIN units :
              /\ q \in Records(units[k])
              /\ \A j \in 1..(k - 1) : q.symbol \notin Symbols(Records(units[j]))
      BY DEF FirstRecords
    <2>2. k \in S
      BY <1>8, <2>1 DEF Symbols
    <2>3. ~(i \in 1..(k - 1))
      BY <1>8, <2>1
    <2>4. k = i
      BY <1>1, <1>3, <2>2, <2>3
    <2>5. QED
      BY <1>4, <1>8, <2>1, <2>4, OneOfAUnit
  <1>9. QED
    BY <1>4, <1>5, <1>7, <1>8

\* Each symbol of a run's sources has exactly one record in the symbol file,
\* made by that run, whatever metadata lies beside the binary (read_metadata).
THEOREM OwnRecordsAlwaysWin == Spec => OwnRecordsWin
  <1> DEFINE Wins ==
        WriteSymbols =>
          \A u \in ToSet(run.compiled) : \A r \in Records(u) :
            \E v \in ToSet(run.compiled) : \E own \in Records(v) :
                {q \in syms'[Cmd.out].records : q.symbol = r.symbol} = {own}
  <1>1. IInv /\ [Next]_vars => [Wins]_vars
    <2> SUFFICES ASSUME IInv, WriteSymbols,
                        NEW u \in ToSet(run.compiled), NEW r \in Records(u)
                 PROVE  \E v \in ToSet(run.compiled) : \E own \in Records(v) :
                  {q \in syms'[Cmd.out].records : q.symbol = r.symbol} = {own}
      OBVIOUS
    <2> DEFINE firsts == FirstRecords(run.compiled)
               records == syms'[Cmd.out].records
    <2>1. /\ run.command.out \in Outputs
          /\ json[run.command.out] = Metadata(run.command.options, run.compiled)
      BY CommandParts DEF IInv, Counted, RecordsWritten, WriteSymbols
    <2>2. syms'[Cmd.out] = Merged(Metadata(run.command.options, run.compiled), Found)
      BY <2>1 DEF IInv, Typed, WriteSymbols, Cmd
    <2>3. records = firsts \union {q \in Found.records : q.symbol \notin Symbols(firsts)}
      BY <2>2 DEF Merged, Metadata
    <2>4. run.compiled \in Seq(Units)
      BY RunParts DEF IInv, Typed
    <2>5. PICK v \in ToSet(run.compiled) : \E own \in Records(v) :
              /\ own \in firsts
              /\ own.symbol = r.symbol
              /\ \A q \in firsts : q.symbol = r.symbol => q = own
      BY <2>4, FirstRecord
    <2>6. PICK own \in Records(v) :
              /\ own \in firsts
              /\ own.symbol = r.symbol
              /\ \A q \in firsts : q.symbol = r.symbol => q = own
      BY <2>5
    <2>7. r.symbol \in Symbols(firsts)
      BY <2>6 DEF Symbols
    <2> HIDE DEF firsts, records
    <2>8. {q \in records : q.symbol = r.symbol} = {own}
      BY <2>3, <2>6, <2>7
    <2>9. QED
      BY <2>8 DEF records
  <1>2. QED
    BY <1>1, Inductive, PTL DEF Spec, OwnRecordsWin

-----------------------------------------------------------------------------
(* What a step of a run leaves alone.                                      *)

\* The output was written, removed or cut off.
LEMMA OutputOnly ==
    ASSUME IInv, run.phase \notin {"idle", "returned"},
           UNCHANGED <<json, syms>>,
           NEW b, disk' = [disk EXCEPT ![run.command.out] = b],
           \/ b = None /\ run'.rc # 0
           \/ b = Cut /\ (run'.open \/ run'.rc # 0)
           \/ b \in Contents /\ ToSet(run'.compiled) \subseteq ToSet(b.units)
    PROVE  Contained
  <1>1. run.command.out \in Names
    BY CommandParts DEF IInv, Counted
  <1>2. disk'[run.command.out] = b
    BY <1>1 DEF IInv, Typed
  <1>3. \A n \in Names \ {run.command.out} : disk'[n] = disk[n]
    BY DEF IInv, Typed
  <1>4. QED
    BY <1>2, <1>3 DEF Contained, Cmd

\* A C file beside the output, of one of the sources of the command line.
LEMMA CFileOnly ==
    ASSUME IInv, run.phase = "sources", UNCHANGED <<json, syms>>,
           run.command.mode = "emit", Len(run.command.srcs) # 1,
           NEW s \in ToSet(run.command.srcs), s \in Sources,
           NEW b, disk' = [disk EXCEPT ![CFile[s]] = b]
    PROVE  Contained
  <1>1. \A n \in Names : disk'[n] # disk[n] => n = CFile[s]
    BY DEF IInv, Typed
  <1>2. run.command.out \in Objects
    BY CommandParts DEF IInv, Counted, Objects
  <1>3. run.command.out \in Names /\ run.command.out # CFile[s]
    BY <1>2 DEF Names
  <1>4. disk'[run.command.out] = disk[run.command.out]
    BY <1>1, <1>3
  <1>5. QED
    BY <1>1, <1>4 DEF Contained, Cmd

LEMMA OpenCContained ==
    ASSUME IInv, IInv', OpenC
    PROVE  Contained
  <1>1. /\ run.command \in Commands /\ run.command.mode = "emit"
        /\ Source \in Sources /\ run.phase = "sources"
        /\ run.next \in DOMAIN run.command.srcs
    BY NextUnit DEF IInv, OpenC, Compiling, Cmd
  <1>2. Source \in ToSet(run.command.srcs)
    BY <1>1 DEF Source, Cmd, ToSet
  <1>3. run'.open = TRUE
    BY DEF OpenC, IInv, Typed, Runs
  <1>4. CASE Len(run.command.srcs) = 1
    <2>1. disk' = [disk EXCEPT ![run.command.out] = Cut]
      BY <1>4 DEF OpenC, Target, Cmd
    <2>2. QED
      BY <1>1, <1>3, <2>1, OutputOnly DEF OpenC
  <1>5. CASE Len(run.command.srcs) # 1
    <2>1. disk' = [disk EXCEPT ![CFile[Source]] = Cut]
      BY <1>5 DEF OpenC, Target, Cmd
    <2>2. QED
      BY <1>1, <1>2, <1>5, <2>1, CFileOnly DEF OpenC
  <1>6. QED
    BY <1>4, <1>5

LEMMA EmitCContained ==
    ASSUME IInv, IInv', EmitC
    PROVE  Contained
  <1> DEFINE u == run.compiled[Len(run.compiled)]
             b == Binary("c", <<u>>)
  <1>1. /\ run.command \in Commands /\ run.command.mode = "emit"
        /\ run.phase = "sources" /\ u \in Units /\ u.source \in Sources
        /\ Len(run.compiled) \in 1..Len(run.command.srcs)
        /\ u.source = run.command.srcs[Len(run.compiled)]
        /\ Len(run.compiled) = 1 => run.compiled = <<u>>
    BY LastUnit
  <1>2. u.source \in ToSet(run.command.srcs)
    BY <1>1, CommandParts DEF ToSet
  <1>3. run'.compiled = run.compiled
    BY DEF EmitC, IInv, Typed, Runs
  <1>4. CASE Len(run.command.srcs) = 1
    <2>1. disk' = [disk EXCEPT ![run.command.out] = b]
      BY <1>4 DEF EmitC, Target, Cmd
    <2>2. b \in Contents /\ b.units = <<u>>
      BY <1>1, BinaryContents DEF Binary
    <2>3. b.units = run'.compiled
      BY <1>1, <1>3, <1>4, <2>2
    <2> HIDE DEF u, b
    <2>4. QED
      BY <1>1, <2>1, <2>2, <2>3, OutputOnly DEF EmitC
  <1>5. CASE Len(run.command.srcs) # 1
    <2>1. disk' = [disk EXCEPT ![CFile[u.source]] = b] /\ UNCHANGED <<json, syms>>
      BY <1>5 DEF EmitC, Target, Cmd
    <2> DEFINE s == u.source
    <2> HIDE DEF u, b
    <2>2. s \in ToSet(run.command.srcs) /\ s \in Sources
      BY <1>1, <1>2
    <2>3. disk' = [disk EXCEPT ![CFile[s]] = b]
      BY <2>1
    <2> HIDE DEF s
    <2>4. QED
      BY <1>1, <1>5, <2>1, <2>2, <2>3, CFileOnly
  <1>6. QED
    BY <1>4, <1>5

LEMMA CompileSourceContained ==
    ASSUME IInv, IInv', CompileSource
    PROVE  Contained
  <1>1. /\ run.command \in Commands /\ Unit(Source) \in Units
        /\ run.next = Len(run.compiled) + 1
        /\ run.next <= Len(run.command.srcs)
        /\ run.phase = "sources"
    BY NextUnit DEF IInv, CompileSource, Compiling, Cmd
  <1>2. Len(run.compiled) \in Nat /\ run.compiled \in Seq(Units)
    BY RunParts DEF IInv, Typed
  <1>3. CASE ToOutput
    <2>1. disk' = [disk EXCEPT ![run.command.out] = Binary("object", <<Unit(Source)>>)]
      BY <1>3 DEF CompileSource, Cmd
    <2>2. run'.compiled = Append(run.compiled, Unit(Source))
      BY <1>3 DEF CompileSource, IInv, Typed, Runs
    <2>3. run'.compiled = <<Unit(Source)>>
      BY <1>1, <1>2, <1>3, <2>2, AppendUnit DEF ToOutput, Cmd
    <2>4. /\ Binary("object", <<Unit(Source)>>) \in Contents
          /\ Binary("object", <<Unit(Source)>>).units = run'.compiled
      BY <1>1, <2>3, BinaryContents DEF Binary
    <2>5. QED
      BY <1>1, <2>1, <2>4, OutputOnly DEF CompileSource
  <1>4. CASE ~ToOutput
    BY <1>4 DEF CompileSource, Contained
  <1>5. QED
    BY <1>3, <1>4

LEMMA LinkContained ==
    ASSUME IInv, IInv', Link
    PROVE  Contained
  <1>1. /\ run.command \in Commands /\ run.phase = "sources"
        /\ Len(run.compiled) = Len(run.command.srcs)
    BY AllCompiled DEF Link
  <1>2. run'.compiled = run.compiled /\ run.compiled \in Seq(Units)
    BY DEF Link, Returned, IInv, Typed, Runs
  <1>3. PICK i \in WithUnit :
            disk' = [disk EXCEPT ![run.command.out] = Binary("program", Linked[i].units)]
    BY DEF Link, Cmd
  <1>4. /\ Binary("program", Linked[i].units) \in Contents
        /\ run.command.srcs # <<>> => Linked[i].units = run.compiled
    BY LinkedUnit DEF Link
  <1>5. ToSet(run'.compiled) \subseteq ToSet(Linked[i].units)
    <2>1. CASE run.command.srcs = <<>>
      <3>1. Len(run.compiled) = 0
        BY <1>1, <2>1
      <3>2. DOMAIN run'.compiled = {}
        BY <1>2, <3>1, LenProperties
      <3>3. QED
        BY <3>2 DEF ToSet
    <2>2. CASE run.command.srcs # <<>>
      BY <1>2, <1>4, <2>2
    <2>3. QED
      BY <2>1, <2>2
  <1>6. Binary("program", Linked[i].units).units = Linked[i].units
    BY DEF Binary
  <1>7. QED
    BY <1>1, <1>3, <1>4, <1>5, <1>6, OutputOnly DEF Link

\* A program that fails changes nothing but the output.
LEMMA ProgramFailsContained ==
    ASSUME IInv, IInv', CompileFails \/ LinkFails
    PROVE  Contained
  <1>1. run.phase = "sources" /\ UNCHANGED <<json, syms>>
    BY DEF CompileFails, LinkFails, Compiling, SourcesDone
  <1>2. run'.rc = 1
    BY ReturnedRun DEF CompileFails, LinkFails, IInv, Typed
  <1>3. \/ disk' = disk
        \/ \E left \in {None, Cut} : disk' = [disk EXCEPT ![run.command.out] = left]
    BY DEF CompileFails, LinkFails, Cmd
  <1>4. CASE disk' = disk
    BY <1>1, <1>4 DEF Contained
  <1>5. ASSUME NEW left \in {None, Cut},
               disk' = [disk EXCEPT ![run.command.out] = left]
        PROVE  Contained
    <2>1. run.phase \notin {"idle", "returned"} /\ run'.rc # 0
      BY <1>1, <1>2
    <2>2. /\ disk' = [disk EXCEPT ![run.command.out] = left]
          /\ \/ left = None /\ run'.rc # 0
             \/ left = Cut /\ (run'.open \/ run'.rc # 0)
      BY <1>5, <2>1
    <2>3. QED
      BY <1>1, <2>1, <2>2, OutputOnly
  <1>6. QED
    BY <1>3, <1>4, <1>5

\* Whatever fails, and wherever a run is cut off, in the middle of a write
\* too, the other binaries and their metadata stay as they were.  The output
\* is as it was, whole, gone or cut off, the last two only in a run that does
\* not return 0.
THEOREM FailuresStayContained == Spec => FailureContained
  <1>1. IInv /\ IInv' /\ [Next]_vars => [Contained]_vars
    <2> SUFFICES ASSUME IInv, IInv', Next PROVE Contained
      OBVIOUS
    <2>1. ASSUME NEW s \in Sources, Edit(s) PROVE Contained
      BY <2>1 DEF Edit, Contained
    <2>2. ASSUME NEW c \in Commands, Begin(c) PROVE Contained
      BY <2>2 DEF Begin, Contained
    <2>3. CASE Abort \/ FinishCompile \/ SymbolsFail
      BY <2>3 DEF Abort, FinishCompile, SymbolsFail, Contained
    <2>4. CASE OpenMetadata \/ WriteMetadata
      BY <2>4 DEF OpenMetadata, WriteMetadata, Contained, IInv, Typed
    <2>5. CASE OpenSymbols \/ WriteSymbols
      BY <2>5 DEF OpenSymbols, WriteSymbols, Contained, IInv, Typed
    <2>6. CASE OpenC \/ EmitC \/ CompileSource \/ Link \/ CompileFails \/ LinkFails
      BY <2>6, OpenCContained, EmitCContained, CompileSourceContained, LinkContained,
         ProgramFailsContained
    <2>7. QED
      BY <2>1, <2>2, <2>3, <2>4, <2>5, <2>6 DEF Next, Step
  <1>2. QED
    BY <1>1, Inductive, PTL DEF Spec, FailureContained

=============================================================================
