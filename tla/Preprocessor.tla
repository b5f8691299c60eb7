---------------------------- MODULE Preprocessor ----------------------------
(***************************************************************************)
(* The preprocessor of the Python bootstrap: Plugin and #include, include  *)
(* once, Plugswitch, macros, and the Package lines it adds so that a       *)
(* Plugin does not retag the code after it.  The package of a declaration  *)
(* is the one the parser gives it: the last Package line before it in the  *)
(* text the preprocessor wrote.                                            *)
(*                                                                         *)
(* process and process_text call each other; their activations are the     *)
(* stack of frames.  A file is read at most once, so its contents are      *)
(* chosen line by line as they are read.  A Plugswitch's block is read as  *)
(* a whole, split and then processed as a text of its own: it is chosen    *)
(* from Blocks.  A text line stands for all that is copied to the output;  *)
(* of what macros do to words only the names in Package lines are kept.    *)
(***************************************************************************)
EXTENDS Naturals, Sequences, SequencesExt, FiniteSetsExt

CONSTANTS
    Files,        \* the files that exist
    Main,         \* the file to be compiled
    Absent,       \* a name for which there is no file
    Packages,     \* the names in Package lines
    Noted,        \* bound: those in lines with a comment on or around them
    Start,        \* "StartPackage"
    Macros,       \* the names in #define, #undef, Replace and conditions
    Includable,   \* bound: the names in #include lines
    Blocks,       \* bound: the lines between a Plugswitch and its Plugend
    FileLines,    \* bound: lines of a file
    MaxLines      \* bound: lines read from files in a run

ASSUME PreprocessorAssumption ==
    /\ Main \in Files
    /\ IsFiniteSet(Files)
    /\ Absent \notin Files
    /\ Start \notin Packages
    /\ Noted \subseteq Packages
    /\ Includable \subseteq Files \union {Absent}
    /\ FileLines \in Nat
    /\ MaxLines \in Nat

VARIABLES
    stack,   \* activations of process_text, the innermost last
    seen,    \* Preprocessor.seen
    macros,  \* Preprocessor.macros
    status,  \* "running", "done", or "error" for an uncaught exception
    left     \* file lines that may still be read

vars == <<stack, seen, macros, status, left>>

-----------------------------------------------------------------------------
(* Lines, output, frames.                                                  *)

Names == Files \union {Absent}

Values == {"undef", "0", "1"}

Line(op, arg) == [op |-> op, arg |-> arg]

\* A piece of the output: a Package line as the parser reads it, or text with
\* the place it comes from, the current_package of the activation that copied
\* it, and whether that is known to be the one the activation declared: its
\* last Package line was copied as it was remembered, and nothing the
\* activation called may have changed the package since.
PackageLine(p) ==
    [op |-> "package", file |-> Main, at |-> 0, package |-> p, sure |-> TRUE]

Text(f) ==
    [op |-> "text", file |-> f.file, at |-> f.at, package |-> f.package,
     sure |-> f.sure]

Frame(file, via, at, body) ==
    [file |-> file, via |-> via, at |-> at, body |-> body,
     package |-> Start, sure |-> via = "main", out |-> <<>>]

Top == stack[Len(stack)]

\* The frame after its next line, with what that line adds to the output.
Advance(f, items) ==
    [f EXCEPT !.at = @ + 1,
              !.body = IF @ = <<>> THEN <<>> ELSE Tail(@),
              !.out = @ \o items]

\* What the first frames have written, for each number of them.
Outs(frames) ==
    LET text[j \in 0..Len(frames)] ==
            IF j = 0 THEN <<>> ELSE text[j - 1] \o frames[j].out
    IN  text

\* All that has been written so far, the frames not yet returned included.
Written == Outs(stack)[Len(stack)]

\* assign_packages: the package of what stands at k in a text.
PackageAt(text, k) ==
    LET before == {j \in 1..(k - 1) : text[j].op = "package"}
    IN  IF before = {} THEN Start ELSE text[Max(before)].package

-----------------------------------------------------------------------------
(* Plugswitch.                                                             *)

\* eval_plugcase.  Conditions on OS, PROCESSOR and ENDIAN are true or false
\* for the whole run; DEFINED evaluates the macro's value, and an expression
\* that does not evaluate is false.
Holds(cond) == cond = "true" \/ (cond \in Macros /\ macros[cond] = "1")

\* How many Plugswitches are open after j of the lines following one.
Depth(lines, j) ==
    1 + Cardinality({k \in 1..j : lines[k].op = "switch"})
      - Cardinality({k \in 1..j : lines[k].op = "end"})

Plugends(lines) == {j \in DOMAIN lines : Depth(lines, j) = 0}

\* The lines up to the Plugend that belongs to the Plugswitch before them,
\* or all of them when there is none; and the lines after.
BlockOf(lines) ==
    IF Plugends(lines) = {} THEN lines
    ELSE SubSeq(lines, 1, Min(Plugends(lines)) - 1)

AfterBlock(lines) ==
    IF Plugends(lines) = {} THEN <<>>
    ELSE SubSeq(lines, Min(Plugends(lines)) + 1, Len(lines))

\* What the loop of process_plugswitch keeps between two lines.
NoCases == [cond |-> "none", lines |-> <<>>, cases |-> <<>>, default |-> <<>>]

Flush(s) ==
    CASE s.cond = "none" -> s
      [] s.cond = "DEFAULT" ->
            [s EXCEPT !.default = s.lines, !.cond = "none", !.lines = <<>>]
      [] OTHER ->
            [s EXCEPT !.cases = Append(@, [cond |-> s.cond, body |-> s.lines]),
                      !.cond = "none", !.lines = <<>>]

\* Whole blocks are read from files.  A condition is not None, and none is
\* written DEFAULT, which flush would take for a Plugdefault's.
ASSUME BlocksAssumption ==
    \A b \in Blocks :
        /\ b \in Seq(ToSet(b))
        /\ Plugends(b) = {}
        /\ \A l \in ToSet(b) : l.op = "case" => l.arg \notin {"none", "DEFAULT"}

SplitStep(s, line) ==
    CASE line.op = "case" ->
            [Flush(s) EXCEPT !.cond = line.arg, !.lines = <<>>]
      [] line.op = "default" ->
            [Flush(s) EXCEPT !.cond = "DEFAULT", !.lines = <<>>]
      [] OTHER -> [s EXCEPT !.lines = Append(@, line)]

\* What the loop keeps after each number of lines.
SplitTo(block) ==
    LET after[k \in 0..Len(block)] ==
            IF k = 0 THEN NoCases ELSE SplitStep(after[k - 1], block[k])
    IN  after

Split(block) == Flush(SplitTo(block)[Len(block)])

\* Mutant: the last case that holds.
ChosenLast(block) ==
    LET s == Split(block)
        true == {k \in DOMAIN s.cases : Holds(s.cases[k].cond)}
    IN  IF true = {} THEN s.default ELSE s.cases[Max(true)].body

\* The body that process_plugswitch goes on with.
Chosen(block) ==
    LET s == Split(block)
        true == {k \in DOMAIN s.cases : Holds(s.cases[k].cond)}
    IN  IF true = {} THEN s.default ELSE s.cases[Min(true)].body

-----------------------------------------------------------------------------
(* Lines being read.  In a file any line may come next; in the body of a   *)
(* case it is the body's next line.                                        *)

Init ==
    /\ stack = <<Frame(Main, "main", 0, <<>>)>>
    /\ seen = {Main}
    /\ macros \in [Macros -> Values]       \* -D options
    /\ status = "running"
    /\ left = MaxLines

Reads(line) ==
    /\ status = "running"
    /\ IF Top.via = "switch"
       THEN /\ Top.body # <<>>
            /\ Head(Top.body).op = line.op
            /\ Head(Top.body).arg = line.arg
            /\ UNCHANGED left
       ELSE /\ Top.at < FileLines
            /\ left > 0
            /\ left' = left - 1

Replaced(f) == [stack EXCEPT ![Len(stack)] = f]

ReadText ==
    /\ Reads(Line("text", ""))
    /\ stack' = Replaced(Advance(Top, <<Text(Top)>>))
    /\ UNCHANGED <<seen, macros, status>>

\* The activation, with the package that Plugins put back.
Remembers(f, p, sure) == [f EXCEPT !.package = p, !.sure = sure]

\* expand: the name as the line that is put out has it.
Expanded(p) == IF p \in Macros /\ macros[p] # "undef" THEN macros[p] ELSE p

\* The line is copied with its macros expanded, and the package remembered as
\* it is written.
ReadPackage(p) ==
    /\ Reads(Line("package", p))
    /\ stack' = Replaced(Remembers(Advance(Top, <<PackageLine(Expanded(p))>>),
                                   p, Expanded(p) = p))
    /\ UNCHANGED <<seen, macros, status>>

\* A Package line with a comment or code behind its semicolon, or code before
\* it, does not match the pattern: it is copied like any line.
ReadNotedPackage(p) ==
    /\ Reads(Line("noted", p))
    /\ stack' = Replaced(Remembers(Advance(Top, <<PackageLine(Expanded(p))>>),
                                   Top.package, FALSE))
    /\ UNCHANGED <<seen, macros, status>>

\* One within a comment of several lines is remembered, and the lexer drops
\* it from what was put out.
ReadCommentedPackage(p) ==
    /\ Reads(Line("commented", p))
    /\ stack' = Replaced(Remembers(Advance(Top, <<>>), p, FALSE))
    /\ UNCHANGED <<seen, macros, status>>

\* #define and Replace; #undef for the value "undef".
ReadMacro(m, v) ==
    /\ Reads(Line("macro", <<m, v>>))
    /\ stack' = Replaced(Advance(Top, <<>>))
    /\ macros' = [macros EXCEPT ![m] = v]
    /\ UNCHANGED <<seen, status>>

\* A Plugcase, Plugdefault or Plugend without a Plugswitch is copied, like
\* any line; in a body it is what the splitting left of a nested one.
ReadStray(line) ==
    /\ Top.via = "switch"
    /\ line.op = "end"
    /\ Reads(line)
    /\ stack' = Replaced(Advance(Top, <<>>))
    /\ UNCHANGED <<seen, macros, status>>

\* Mutant: Plugins do not put the package back.
RestoredNone(f) == <<>>

\* What is written after a Plugin's text.
Restored(f) == <<PackageLine(f.package)>>

\* Mutant: a file is read each time it is asked for.
EnterAlways(name, via) == stack' = Append(stack, Frame(name, via, 0, <<>>))

\* process: nothing for a file that was seen, else an activation on it.
Enter(name, via) ==
    IF name \in seen
    THEN stack' = Replaced(Advance(Top, IF via = "plugin" THEN Restored(Top)
                                        ELSE <<>>))
    ELSE stack' = Append(stack, Frame(name, via, 0, <<>>))

\* Mutant: included files are not added to seen.
ReadIncludeUnseen(name) ==
    /\ name # Absent
    /\ Reads(Line("include", name))
    /\ Enter(name, "include")
    /\ UNCHANGED <<seen, macros, status>>

ReadInclude(name) ==
    /\ name # Absent
    /\ Reads(Line("include", name))
    /\ Enter(name, "include")
    /\ seen' = seen \union {name}
    /\ UNCHANGED <<macros, status>>

ReadPlugin(name) ==
    /\ name # Absent
    /\ Reads(Line("plugin", name))
    /\ Enter(name, "plugin")
    /\ seen' = seen \union {name}
    /\ UNCHANGED <<macros, status>>

\* A Plugin that does not resolve is kept as it is.
ReadMissingPlugin ==
    /\ Reads(Line("plugin", Absent))
    /\ stack' = Replaced(Advance(Top, <<>>))
    /\ UNCHANGED <<seen, macros, status>>

PluginFrames == {j \in DOMAIN stack : stack[j].via = "plugin"}

\* Mutant: only the activation that asked for the missing file is left.
ReadMissingIncludeLeavesOne ==
    /\ Reads(Line("include", Absent))
    /\ IF Len(stack) = 1
       THEN status' = "error" /\ UNCHANGED stack
       ELSE /\ stack' = [SubSeq(stack, 1, Len(stack) - 1)
                            EXCEPT ![Len(stack) - 1] = Advance(@, <<>>)]
            /\ UNCHANGED status
    /\ UNCHANGED <<seen, macros>>

\* FileNotFoundError.  The innermost Plugin catches it: what was written for
\* it is dropped and its line kept.  seen and macros are not taken back.
ReadMissingInclude ==
    /\ Reads(Line("include", Absent))
    /\ IF PluginFrames = {}
       THEN status' = "error" /\ UNCHANGED stack
       ELSE LET n == Max(PluginFrames) - 1
            IN  /\ stack' = [SubSeq(stack, 1, n)
                                EXCEPT ![n] = Advance(@, <<>>)]
                /\ UNCHANGED status
    /\ UNCHANGED <<seen, macros>>

\* Mutant: the position stays at the Plugswitch.
SelectStays(lines) ==
    stack' = Append(stack,
                 Frame(Top.file, "switch", Top.at, Chosen(BlockOf(lines))))

\* The text of the chosen case is processed as a text of its own, with a
\* current_package of its own.
Select(lines) ==
    LET after == [Top EXCEPT !.at = @ + Len(BlockOf(lines)) + 1,
                             !.body = AfterBlock(lines)]
    IN  stack' = Append(Replaced(after),
                    Frame(Top.file, "switch", Top.at, Chosen(BlockOf(lines))))

ReadPlugswitch(block) ==
    /\ Top.via # "switch"
    /\ Top.at + Len(block) < FileLines
    /\ Reads(Line("switch", ""))
    /\ Select(block)
    /\ UNCHANGED <<seen, macros, status>>

\* A Plugswitch in a case of another: its own cases were split off already.
ReadNestedPlugswitch ==
    /\ Top.via = "switch"
    /\ Reads(Line("switch", ""))
    /\ Select(Tail(Top.body))
    /\ UNCHANGED <<seen, macros, status>>

-----------------------------------------------------------------------------
(* Ends of texts.                                                          *)

AtEnd ==
    /\ status = "running"
    /\ Top.via = "switch" => Top.body = <<>>

\* The caller goes on with what was written for its line.
Resume(caller, items, sure) ==
    stack' = [SubSeq(stack, 1, Len(stack) - 1) EXCEPT
                 ![Len(stack) - 1] =
                     [caller EXCEPT !.out = @ \o items, !.sure = sure]]

Caller == stack[Len(stack) - 1]

EndInclude ==
    /\ AtEnd
    /\ Top.via = "include"
    /\ Resume(Advance(Caller, <<>>), Top.out, FALSE)
    /\ UNCHANGED <<seen, macros, status, left>>

EndPlugin ==
    /\ AtEnd
    /\ Top.via = "plugin"
    /\ Resume(Advance(Caller, <<>>), Top.out \o Restored(Caller), Caller.sure)
    /\ UNCHANGED <<seen, macros, status, left>>

EndPlugswitch ==
    /\ AtEnd
    /\ Top.via = "switch"
    /\ Resume(Caller, Top.out, FALSE)
    /\ UNCHANGED <<seen, macros, status, left>>

\* The text goes to the lexer, or to cmotivepp's output.
EndMain ==
    /\ AtEnd
    /\ Top.via = "main"
    /\ status' = "done"
    /\ UNCHANGED <<stack, seen, macros, left>>

-----------------------------------------------------------------------------

Next ==
    \/ ReadText
    \/ \E p \in Packages : ReadPackage(p)
    \/ \E p \in Noted : ReadNotedPackage(p) \/ ReadCommentedPackage(p)
    \/ \E m \in Macros, v \in Values : ReadMacro(m, v)
    \/ ReadStray(Line("end", ""))
    \/ \E name \in Includable : ReadInclude(name)
    \/ \E name \in Names : ReadPlugin(name)
    \/ ReadMissingPlugin
    \/ Absent \in Includable /\ ReadMissingInclude
    \/ \E block \in Blocks : ReadPlugswitch(block)
    \/ ReadNestedPlugswitch
    \/ EndInclude
    \/ EndPlugin
    \/ EndPlugswitch
    \/ EndMain

Spec == Init /\ [][Next]_vars

-----------------------------------------------------------------------------
(* Properties.                                                             *)

\* Every variable has its type.
TypeOK ==
    /\ seen \subseteq Files
    /\ macros \in [Macros -> Values]
    /\ status \in {"running", "done", "error"}
    /\ left \in 0..MaxLines
    /\ stack # <<>> /\ stack[1].via = "main"
    /\ \A j \in DOMAIN stack :
          /\ stack[j].file \in seen
          /\ stack[j].package \in Packages \union {Start}
          /\ j > 1 => stack[j].via \in {"include", "plugin", "switch"}

\* Plugins do not retag what follows them: text that an activation copies
\* while only Plugins came since its last Package line is declared in that
\* package, whatever the Plugins loaded, declared or failed to find, if that
\* line stood alone on its line and no macro changed its name
\* (process_text's "Package current_package", parse's assign_packages).
OwnPackage ==
    \A k \in DOMAIN Written :
        (Written[k].op = "text" /\ Written[k].sure)
            => PackageAt(Written, k) = Written[k].package

\* Include once: however files plug in and include each other, cycles
\* included, no line of any of them comes twice in the output (process).
AtMostOnce ==
    \A j, k \in DOMAIN Written :
        /\ Written[j].op = "text"
        /\ Written[k].op = "text"
        /\ Written[j].file = Written[k].file
        /\ Written[j].at = Written[k].at
        => j = k

TextIn(out) == {<<x.file, x.at>> : x \in {y \in ToSet(out) : y.op = "text"}}

TextLines == TextIn(Written)

\* A line that the innermost Plugin or a file under it wrote, when that
\* Plugin fails.
WrittenForFailed(l) ==
    /\ ReadMissingInclude
    /\ \E j \in PluginFrames :
          /\ \A i \in PluginFrames : i <= j
          /\ \A k \in 1..(j - 1) : l \notin TextIn(stack[k].out)

\* Text once written is not lost, except what a Plugin wrote before it
\* missed a file: the handler drops that Plugin's text and no one else's.
OnlyFailedPluginDropped ==
    [][\A l \in TextLines \ TextLines' : WrittenForFailed(l)]_vars

\* The lines of a block between a mark and the next, without looking at any
\* other: what the text of a case is.
Marks(block) == {k \in DOMAIN block : block[k].op \in {"case", "default"}}

CaseText(block, k) ==
    LET later == {j \in Marks(block) : j > k}
    IN  SubSeq(block, k + 1, IF later = {} THEN Len(block) ELSE Min(later) - 1)

\* The line a block without a nested Plugswitch selects: the first case that
\* holds now, wherever a Plugdefault stands, or the last Plugdefault.
Selects(block, k) ==
    LET true == {j \in Marks(block) : /\ block[j].op = "case"
                                      /\ Holds(block[j].arg)}
        defaults == {j \in Marks(block) : block[j].op = "default"}
    IN  \/ true # {} /\ k = Min(true)
        \/ true = {} /\ defaults # {} /\ k = Max(defaults)

\* The text of the case that a block selects, or nothing.
IsSelected(body, block) ==
    IF \E k \in Marks(block) : Selects(block, k)
    THEN \E k \in Marks(block) :
            Selects(block, k) /\ body = CaseText(block, k)
    ELSE body = <<>>

\* A Plugswitch without others in it goes on with the text of the case it
\* selects, under the macros as they are at that point, or with nothing
\* (process_plugswitch's flush loop).
FirstTrueCase ==
    [][\A block \in {b \in Blocks : \A l \in ToSet(b) : l.op # "switch"} :
          ReadPlugswitch(block) =>
              IsSelected(stack'[Len(stack')].body, block)]_vars

\* The lines that an activation has not come to yet.
LinesLeft(f) == IF f.via = "switch" THEN Len(f.body) ELSE FileLines - f.at

Weight(f) == 2 * LinesLeft(f) + 1

\* What the first frames have to do, for each number of them.
Sums(frames) ==
    LET sum[j \in 0..Len(frames)] ==
            IF j = 0 THEN 0 ELSE sum[j - 1] + Weight(frames[j])
    IN  sum

\* What is left to be done: the lines of the activations, and of the files
\* that were not read yet.
Remaining ==
    Sums(stack)[Len(stack)]
        + (2 * FileLines + 2) * Cardinality(Files \ seen)
        + (IF status = "running" THEN 1 ELSE 0)

\* Every step leaves less to be done than there was, even when files plug in
\* and include each other in circles, so the process ends: each is entered
\* once, and no Plugswitch is gone through twice (process's seen, the position
\* in process_text).
RunsOut == [][Remaining' < Remaining]_vars

=============================================================================
