# CMotive in TLA+

CMotive is a class-based language that compiles to C. It has two compilers: the
frontend written in CMotive (`src/frontend/selfhost/CMotiveFrontend.CMOT`, below FE) and
the bootstrap in Python (`legacy/python-bootstrap`, below PY), which has a pass for each
thing the frontend does while it parses: preprocessor, lexer, parser, semantic
analysis, code generator, driver. The runtime library is in C (`lib/Sys/runtime.c`, below
RT) under thin classes in `lib/Sys/*.HMOT`. This directory holds TLA+ models of the
parts whose correctness depends on an order of events, and proofs about them.

From FE comes the lowering of exceptions and stack objects, from RT the generic
containers, from PY everything else: the preprocessor, the parser, templates, classes,
Try and Return as PY lowers them, and the driver with its debug files.

    tlasany Exceptions.tla                               parse a module
    tlc -config MCExceptions.cfg MCExceptions            check a run
    tlapm DriverProofs.tla                               check proofs

## Inventory

| Component | State | Operations | What is hard | What makes it correct | Status |
|---|---|---|---|---|---|
| Exceptions and cleanup (FE 1141-1190, 1309-1346, 1573-1605, 1651) | two global linked lists in the generated C: exception frames, cleanup entries; the C stack they point into | Try, Catch, Throw, Return/Break/Continue, declaration of a class object, its constructor and destructor, RunTo | non-local exits in any order, destructors that throw or enter Trys while an unwinding is half way, frames that outlive their scope, a failing malloc | the lists describe the C stack; each object is destroyed once, last built first, before the Catch body; no longjmp into a dead frame | modelled, proved |
| Containers (RT 456-524, `STL.HMOT`) | blocks of cells, counts, capacities; for maps a heap block for each key and each value | the methods of Vector, List, Dlist, Map, Dict, HashDict, MultiDict, MultiHashDict, BinaryTree, BinarySearchTree, BTree, BPlusTree | any allocation may fail and most results are dropped; growth; ownership of blocks | sequences, dictionaries and sets for the caller; no cell outside of a block; one owner for each block | modelled for 8-byte elements, proved |
| Preprocessor (PY `preprocessor.py`) | files seen, macros, the package of each activation | Plugin, #include, #define, Replace, Plugswitch, Package | files that plug in each other in circles, a file missing deep inside of a Plugin, a package restored after each Plugin | each line once; what follows a Plugin keeps its package; first true case; the process ends | modelled, proved |
| Lexer (PY `lexer.py`) | a position | one loop | nothing across tokens | - | not modelled: characters to tokens |
| Parser (PY `parser.py`) | a position, that never goes back but in one place | one production for each construct | a SyntaxError caught where the declaration began, with the position left where it was raised; line ends that matter in some places | what was printed is read back; each turn of the loop takes a token | modelled |
| Templates (PY `codegen.py` 260-480) | queue of uses, instances by symbol | scan, instantiate | instances bring uses of their own, symbols shared by different types | every use has its instance, specialised | modelled but for nested uses |
| Classes (PY `semantic.py`, `codegen.py`) | method tables, an object's table pointer | analysis, order of structs, tables, construct, call, destroy | virtual calls while an object is half made, slots copied from bases not yet built | ill-formed programs rejected; nearest body reached; destruction reverses construction | modelled but for fields and nested classes, proved |
| Try and Return (PY `codegen.py` 1150-1330) | the lists of `Exceptions` | Return within Trys, registration | a Return half way through its unwinding runs destructors that return and throw | lists agree with the C stack; own objects destroyed once | modelled, proved |
| Driver, symbol tool (PY `tools/cmotive.py`, `CMotiveSymsToDebugFile.py`, `compiler.py`) | binaries, metadata and .syms on the disk, a temporary directory | compile, link, emit, metadata, symbols | sources of one stem, programs that fail, leftovers of earlier runs, edits between | success means delivered; failure touches nothing else | modelled, proved |
| Expressions, globals, Dynamic Struct (PY `codegen.py`) | none between statements | rewriting of text | - | - | not modelled |
| Preprocessor, parser, classes, driver of FE | the same, interleaved | - | arrays that move under pointers, cycles of bases | - | not modelled, see below |
| Target/Hit (FE 1232-1307, PY) | handlers of a class | a lookup by name when compiling | a Target without a Hit | - | not modelled: no state |
| Locks, conditions, semaphores, threads (RT 153-184, 262-279, 406-416, FE 1652) | native mutex, holder, counts, handles | thin layers over pthread | a mutex made at the first lock, counts changed outside of the mutex, handles freed twice | - | not modelled, see below |
| Algorithms, string parser (RT 132-138, 384-403, 526-529) | none, or a cursor | sorts, searches, field parsing | bounds at 0 and 1 | - | the searches of the vector only |
| Visual Studio packages, self-host build, QA scripts, C converter | - | external programs in sequence, or text to text | - | - | not modelled |
| Strings, Math, File, Net, IO, Wide, Logging | none of their own | one call into libc each | - | - | not modelled: I/O |
| Stage-0 bootstrap, C++ design fragments | - | - | - | - | not modelled: the twin of FE; no part of a build |

How they interact. The driver runs the passes of PY on each source in their order; the
preprocessor's output is the parser's input, the parser's tree that of analysis and
code generator. The C that comes out keeps the two exception lists and calls RT. The
lists are `static`, one pair for the process. Destructors run from RunTo, a loop over the
cleanup list inside of Try, and may do all that a program does. Trees call the
vector's functions on the vector they hold; the classes of `STL.HMOT` hold an opaque
handle each and call RT; maps own blocks from `strdup` and `malloc`. No container is
synchronized. The symbol tool reads the metadata the driver left beside binaries.

The hazards, each at its line, are listed in `PROJECT.json` with the properties that
cover them.

## Modules

| Module | What it is |
|---|---|
| `Exceptions` | the lowering of Try, Throw and stack objects in FE |
| `ScopedTry` | what Try promises, without longjmp or lists |
| `ExceptionsRefinement` | the mapping from the first to the second |
| `ReturningTry` | the same lowering in PY: `Exceptions` with other Returns |
| `VectorOps` | each function of `CMotive_AnyVector` on one vector, as operators |
| `AnyVector`, `AbstractSequence` | Vector, List, Dlist; a sequence |
| `AnyTree`, `AbstractSet` | the four tree classes; a set |
| `AnyMap`, `AbstractDictionary` | the five map classes; a dictionary |
| `Calls` | the record of a call that a class and what it promises share |
| `Preprocessor` | `preprocessor.py` |
| `Parser` | `parser.py` |
| `SourceText` | how declarations are written; what `Parser` is to read back |
| `Templates` | instantiation in `codegen.py` |
| `ClassLowering` | `semantic.py`, and classes in `codegen.py`, down to the life of an object |
| `Driver` | `cmotive.py` and `CMotiveSymsToDebugFile.py` |
| `MCLocalsAnywhere`, `MCDeclared` | `Exceptions` and `Preprocessor` with a history variable, for a violation run |
| `MCExceptions`, `MCReturningTry`, `MCContainers`, `MCPreprocessor`, `MCParser`, `MCClassLowering`, `MCCodegen` (classes and templates), `MCDriver` | TLC instances |
| `ExceptionsProofs`, `ReturningTryProofs`, `MapProofs`, `ContainersProofs`, `PreprocessorProofs`, `ParserProofs`, `ClassLoweringProofs`, `DriverProofs` | theorems |

### Exceptions

`ctl` is the C stack: a sequence of scopes (function, constructor, destructor, block,
Try), the innermost last. The address of a Try's frame is the position of its scope,
so a frame whose scope has been left is a dangling pointer until another Try is
entered at the same depth - as in C. `exc` is `__cmotive_exception_stack`, linked
through `prev`; `cleanup` is `__cmotive_cleanup_stack`, last entry on top; `built`
are the objects that are really there.

The emitted text of a Try (`emit_try`) is several actions, because the program and
its destructors run in between: `EnterTry` (frame pushed, `__cmotive_mark` taken), the
body, `EndBody`, then `RunToStep` once for each entry above the mark, `LeaveTry`; or,
after `ThrowCaught` (the longjmp), `RunToStep`s, `EnterHandler`, the Catch body,
`EndHandler`. `RunToStep` takes an entry off the list and *calls* its destructor: a
destructor is a scope like any other and may call, throw and enter Trys. `Return` and
`LeaveBlock` emit nothing for the Trys they leave, and so they change neither
list. `PushFails` is the exit with 72 when the malloc of an entry fails;
`ThrowUnhandled` the exit with 70. A longjmp to a scope that was left, and a
destructor call on an object that is gone, are undefined behaviour in C:
`ThrowDangling` and `RunToDangling` stop the model in the status "undefined", the
state in which nothing can be said any more.

The program is arbitrary: every step does anything its innermost scope allows. Two
constants say which programs: `EarlyExit` (may it leave a Try by Return, Break or
Continue?) and `LocalsAnywhere` (may it declare class objects outside of a Try's
body?). With both FALSE the program is *disciplined*; then the lowering is correct.
Each of the two alone breaks it, which is what the two violation runs show.

`CMotive_Cleanup_DiscardTo` is emitted into every program and called by none; it is
left out. One thread runs. Which Catch is taken, and the exception's value, are left
out: a frame has one handler for all of them.

### Containers

`VectorOps` translates the functions of RT 456-484 one by one. A vector is its
cells, its count, and `fault`, which records an access beside the block; a function
that may allocate is the set of its outcomes. `Store`, `Move` and `Realloc` are the C
library. `AnyVector` and `AnyTree` are the classes, one action for each method, over
these operators; a tree is a vector sorted and made unique after each push, whose
failure is not looked at. A constructor that found no memory leaves a Null handle, on
which all methods do nothing.

`AnyMap` has a heap: each key and each value is a block, an entry is two
pointers. Reading, writing or freeing NULL or a free block makes the status
"undefined". `put` allocates up to three times; `Store` has every combination of
failures. Cells above the count are never read by the code and not kept. `refused` is a
history variable: it remembers which allocations failed, so that the properties can
say what follows from which failure.

The sequence, set and dictionary are what a caller is promised, method by method: every
action of a class and of its abstract module writes into `call` which method it is, with
which arguments, and what malloc and realloc refused it (`Calls`). The mapping leaves `call`
as it is, so a step of `Erase(h, k)` has to be `Erase(h, k)` of the dictionary and not any
change the dictionary can make: a linear search that answers a later place, Min in the
place of Max, a Get with another's fallback, an erasure that skips, an Assign that drops its elements
before it has room are all ruled out. An abstract mutator happens, or does nothing if
it was denied memory; one that asks for none always happens. `AbstractDictionary` has one
more outcome, `PutLosingKey`, because the code has it: `strdup`'s result is not looked at (RT 491),
and an entry without a key counts in `Size`. It is an outcome of the put that was denied its key
only; denied the room of the entry, or the value, a put changes no pair. A
step that is undefined behaviour changes neither `call` nor what the dictionary sees.

Left out: elements not of 8 bytes (Sort and the searches do nothing on them), the
iterators (raw pointers), requests so large that `cap * elem` wraps, and the typed
copies in RT 311-370.

### Try and Return in the bootstrap

`ReturningTry` EXTENDS `Exceptions` and gives it other statements. In PY a Return emits, for
each Try body it stands in, RunTo and a pop, innermost first (`ReturnDestroys`,
`ReturnPops`), and only then evaluates its expression (`CallInReturn`, `EndReturn`). While it
unwinds, destructors run, which declare, throw and return themselves: so a Return is a
scope of its own on top of the C stack. A Try it has popped is still executing but no
longer armed. A class object is registered only in a Try body of its function; any other
is constructed and never destroyed, which is what the code does. Break and Continue pop
nothing, as in FE, and blocks in a Try body do not destroy their objects; programs that
do either are left to the runs of `Exceptions`.

### Preprocessor

`process` and `process_text` call each other; an activation is a frame of `stack`. The
contents of a file are chosen line by line when it is read, once per run, because of
`seen`; a Plugswitch's block is taken as a whole, split (`Split`, `Flush`) and processed as a
text of its own. The package of a line of text is what the parser will make of it:
the last Package line before it in the output (`PackageAt`). It is not what the activation
remembers for the Plugins to come (`package`), in three ways, each with its own kind of line:
`ReadPackage` puts out the name with its macros expanded (`Expanded`, PY 132) and remembers it as written
(85); `ReadNotedPackage` is a Package line with a comment or code beside it, which the
pattern of line 83 does not match, put out and not remembered; `ReadCommentedPackage` is one inside of a
comment of several lines, remembered and not seen by the parser. `sure` is a history variable
that says that the activation's last Package line was put out as it is remembered, and that only Plugins
lie between. A file has at most `FileLines` lines. What the code does and the model shows:

- After `Package P; // note`, or under a macro named like the package, a Plugin does retag
  what follows it, as in the finding on Plugswitches below (`MCPluginRetags.cfg` with `Noted = {p}` and
  no blocks has TLC show the first).
- After a failed Plugin its text is dropped, but files it read stay in `seen` and its
  macros stay defined.
- A nested Plugswitch is split at the Plugcases of the inner one too, so the inner text is
  chosen by the outer conditions.
- A nested Plugin in a file that has no Package line of its own, or after an #include,
  restores StartPackage; the run `plugin_retags` shows the case of a Plugin in a Plugswitch,
  which a document speaks of.

### Parser

A production is an operator on a position; it gives `[at, ast]`, and a negative `at` says
that it raised SyntaxError there. The loop of `parse()` is the state machine: one action
for a semicolon, a declaration, a function, the end. Productions call each other, and a loop
in one of them (`while self.peek()...`) calls itself; such a call is looked up in `Grammar`, the functions from
positions to results, which is made in rounds: what a production gives at a position follows from
what the round before gave further on. One round more than there are tokens is enough, since no
production is called again before a token was taken; if one were, the call would give the
position 0. A function in which there is a
SyntaxError becomes raw text from the place of the error on, as in the code, where an
exception unwinds the calls and leaves the position.

`SourceText` is the reference: it writes declarations as tokens, in several styles. The
inputs are all that it prints from `MCParser`'s declarations, the same with any token behind,
and all short token sequences. `RoundTrip` then compares the tree with what was printed,
`Advances` says that the loop ends on anything.

What the code does and the model shows: SyntaxErrors in functions, methods and class
items are swallowed; one Elif is read (docs/CMotive-v1-LanguageDefinition.md:569-571 shows two,
as an example of the language, not of this parser); parameters in brackets take the place of
those on lines; a visibility holds on behind its group; an expression with a closing
bracket too many is read to the end of the file.

### Templates

`Scan` queues the uses in a text, `Instantiate` makes the instance of the first in the
queue and scans it in turn, `Pass` drops one that is known or can not be made. `Symbol` is the
name of the C function or struct: `A*` and a class `APtr` share one. Substitution is one
parameter after another, as in the code, so that an argument named like a later
parameter is captured; `Specialised` excepts exactly these uses. Two parameters may have one
name, which the parser lets pass: the dictionary then has the second one's argument (`Mapping`). A use with another template
among its arguments is not seen by the code's pattern and left out. A template that
uses itself with more stars is instantiated for ever; `MaxInstances` stops the model.

### Classes

The compiler's passes are phases: `Collect`, `Validate`, `Visit` (analyze's three loops, the depth-first
search one node at a time), `Round` and `Order` (`order_classes_by_base`), `BuildTable`. Then the program
runs: one object of any class, created as any of its bases, with a frame for each
constructor and destructor being executed; calls come from outside and from their
bodies. `last` is a history variable: the last call and the body it reached. What the
code does and the model shows:

- The table pointer is installed after the base constructor, before the fields'
  initial values and the body, and never reset in destructors: there a virtual call
  reaches the derived class, whose destructor body has run but whose memory is there.
- Abstract classes can be created; a pure method then exits with 71 (`PureVirtual`). A pure
  redeclaration of a method with a body keeps the inherited body.
- Delete through a static base type runs the destructors from there up only.
- An inherited method that is not virtual is called by a symbol that does not exist; the
  C does not link, so such calls are left out. So are nested classes, whose methods are
  not emitted.

### Driver

A unit is the C made of one version of one source, a binary a list of units. A run goes
through phases; each program it calls may fail in its own way (`CompileFails`, `LinkFails`,
`SymbolsFail`), `Abort` is an exception or an interrupt between any two steps, and `Edit`
changes a source at any time. The three files that Python writes itself (`write_text`: a C
file, the metadata, the .syms) are opened, and so emptied, in one step (`OpenC`,
`OpenMetadata`, `OpenSymbols`) and written in another: a run that ends in between leaves
`Cut`, the beginning of a file, which a later run finds. A compiler or linker that fails
leaves its output as it was, removes it or leaves a part of it. The disk outlives runs:
binaries, C files, metadata, .syms. The temporary directory (`td`) holds objects by the *stem* of their source, as the code does.
What the code does and the model shows:

- PY gives every unit without a main an empty one, so two units never link: no program
  of several CMotive sources comes out, in particular not a wrong one when two sources
  have one stem.
- `-c` with several sources compiles them all into the temporary directory, which goes
  away, and returns 0 (`Asked` excepts it); `-c` ignores what the symbol tool returns.
- A failing run may leave a cut-off output where an earlier run had left a whole one:
  `FailureContained` promises that nothing else is touched, and that a run that returns 0
  leaves neither a part nor nothing.
- `read_metadata` keeps the first record of a symbol but the last `debug_level`,
  `optimization` and `target_arch` it reads, and joins the inputs: for `-o a.o` the header
  of the .syms is that of `a`, if there is metadata of `a` (`Overridden`). `OwnRecordsWin`
  is about the records: each symbol of the sources has exactly one, made by this run.

## Runs

| Run | Instance | Distinct states | What it shows |
|---|---|---|---|
| `exceptions` | disciplined programs, 2 stack slots, 6 scopes opened | 55 132 | the lists always agree with the C stack (`StacksAgree`), nothing undefined happens, an object goes away only by its destructor (`NoLostDestructor`) called by its own Try (`OnlyOwnDestroyed`), the lowering implements `ScopedTry`, and an unwinding ends (`UnwindingEnds`) |
| `exceptions_free` | all programs, 2 slots, 5 scopes | 65 410 | `MarksReachable`: whatever the program does, RunTo meets its mark, until something undefined was done |
| `return_in_try` | EarlyExit | violation | a Return leaves its Try's frame on the list, against docs/TEMPLATES_EXCEPTIONS_PACKAGES.md:41 |
| `locals_anywhere` | LocalsAnywhere | violation | an object declared in a function that a Try's body calls is destroyed by the RunTo at the normal end of that Try, after the function returned, against docs/CLASSES_INHERITANCE_LIFECYCLE.md:63 (`ReturnedNotDestroyed`; MCLocalsAnywhere adds the set of objects that a returning function took with it) |
| `return_unwinds` | PY's lowering, 2 slots, 6 scopes | 854 872 | the lists agree with the C stack in the middle of Returns, unwindings and both (`ListsAgree`), nothing undefined happens, a registered object is destroyed by its own Try (`DestroyedByItsTry`) |
| `containers` | 2 vectors of 4 cells together, values 0-2, first capacity 2; or a tree of 4 cells; or 2 maps of 2 entries, 4 heap blocks, 2 keys | 49 516 | no access beside a block (`InsideTheBlock`); each method is that of a sequence, of a set kept strictly sorted, or of a dictionary as long as it is defined (`VectorsAreSequences`, `TreesAreSets`, `MapsAreDictionaries`); one owner for each block (`OneOwner`); undefined only after a lost key, leaks only after a lost value |
| `preprocessor` | 3 files, 2 packages, one of them also a macro, the other also in lines with comments, 4 lines read, 5 Plugswitch blocks | 663 736 | no line twice (`AtMostOnce`), a Plugin keeps the package of what follows a line that was remembered as put out (`OwnPackage`), only a failed Plugin's text is lost (`OnlyFailedPluginDropped`), a Plugswitch selects the first true case (`FirstTrueCase`), each step leaves less to be done (`RunsOut`) |
| `plugin_retags` | a Plugin in a Plugcase | violation | what follows the Plugswitch is in StartPackage, against docs/CLASSES_INHERITANCE_LIFECYCLE.md:43-45 (`FollowingCodeKeepsPackage`; MCDeclared adds the package that the file being compiled declared last) |
| `parser` | 43 624 inputs | 140 316 | `RoundTrip`, `Advances` |
| `classes` | all programs of 3 classes and 1-2 methods, one object; 36 template sets, 48 programs, 6 instances | 351 220 | exactly the ill-formed programs are rejected, structs come after their bases, calls reach the nearest body (`NearestRuns`), destruction reverses construction (`TornInReverse`), templates are instantiated (`AllInstantiated`) |
| `destructor_returns` | the same classes | violation | a Return in a destructor's body skips the base destructor, against docs/CLASSES_INHERITANCE_LIFECYCLE.md:35 |
| `driver` | 2 runs, 1 edit, 3 sources, two of one stem, 2 outputs and a foreign object, without -g or with -g -O2, every write cut off | 588 268 | success means delivered (`Delivered`), a failure touches nothing else (`FailureContained`), each symbol has one record and it is this run's (`OwnRecordsWin`), a run ends (`RunEnds`) |

**Bounds.** `MaxOps` is how many scopes a program opens in a run. Six is enough for
a Try, two objects in it with their constructors, and a destructor that enters a Try
of its own and throws, or returns from one; each protocol step of the code occurs in these
runs, every mutant was caught with at most that many. Two slots are enough for an order of
destruction to be right or wrong. Four cells with a first capacity of 2 (8 in
the code) give the growths 0-2-4, a full and a shrunk block; `MaxCells` is shared by the
two vectors so that Swap meets vectors of all sizes. Three values give the search an
element below, equal and above. `Blocks` and `MaxEntries` give a map of one key twice, a
map of two keys, an entry without key before and after one with, and blocks used
again after they were freed. A history that needs three pairs in one map is beyond
the bound.

In the preprocessor three files give chains, circles and diamonds; four lines, over all
of them, give a Plugin inside of a Plugin with text before and after each. `FileLines` (32)
is only there to make a file end; `RunsOut` does not rest on the four lines, which the
proof of it never uses: `Remaining` counts the lines that the activations have before
them, and those of the files not entered yet. The blocks of
`SomeBlocks` have a case before and after one that holds, a Plugdefault in between, a Plugin
and a missing file in a case, and nested Plugswitches. Three classes are enough for a method
declared at the top, left alone in the middle and overridden below, and for all cycles
that differ in kind. Two runs of the driver are one that leaves things and one that finds
them; the third source has the main, `a.o` and `a` are the two outputs whose metadata the symbol
tool mixes. The parser's bodies nest to depth two, where an Else or a Catch can go to the
wrong statement; what it does at greater depths is the same recursion.

In `containers` the vectors, the tree and the maps share nothing, so `which` chooses one of
them at the start and the state spaces add; so do classes and templates in `classes`.
Handles and keys are symmetric in `containers`: no formula tells them apart, and no
liveness is checked there. The last call and its answer are not part of TLC's state there
(`VIEW Held`): no guard reads them, no state formula is about `call`, and the three
refinements are formulas on steps, which TLC evaluates on every step it makes, whether or not the state
it leads to was met before. That the initial states and these steps are right is all that a
refinement says, so nothing is lost; the types of the answers are checked where a state is met first, and proved.

**Fairness.** `UnwindingEnds` needs `WF_vars(Next)`: the process goes on executing. Programs of
the model are finite (`MaxOps`), so a Catch body that never ends is not among them.
That the preprocessor ends is `RunsOut`, a formula on steps, and needs none. `RunEnds` has
`WF_vars(Step)`: a run that was begun goes on; no run has to be begun, no source edited and
no run interrupted, and the programs it calls return. Nothing is assumed of an order.

Deadlock is not checked: a program ends when main returns or the process exits, an
undefined or destroyed map stops, a compiler is done, no run of the driver has to begin.

Each property has a mutant, a definition named after a plausible mistake ("Mutant:"
in the modules), under which TLC finds it violated.

## Proofs

`ExceptionsProofs`, for any set of slots, any number of scopes:

- `TypeCorrect`: `Spec => []TypeOK`, for all programs.
- `DisciplinedSafety`: under `~EarlyExit` and `~LocalsAnywhere`, `StacksAgree` and
  `NeverUndefined` always hold.
- `DisciplinedNoLostDestructor`, `DisciplinedOnlyOwnDestroyed`: the two action
  properties, from the same invariant.

The argument. That nothing undefined happens is not inductive: one has to know that
the frame on top belongs to a Try being executed, and that the entry on top names an
object that is there. `StacksAgree` says it of all frames and entries:
`FramesMatchTries` (the list followed through `prev` is the list of armed Trys),
`CleanupMatchesBuilt` (entries and built objects are the same, each entry in the reach
of the Try that declared its object), `MarksNested` (marks grow with the nesting and
lie in the list), `SlotsSeparate` (no slot belongs to two scopes) and `CtorsInTry` (a
constructor runs directly above the Try that declared its object, so that its entry
lands above that Try's mark). Each action opens a scope, cuts the stack, or changes
the scope on top; a lemma for each of the three says what is preserved, and each action
cites the one that fits. The two assumptions are used where the code needs
them: without `~EarlyExit` a cut may remove an armed Try, without `~LocalsAnywhere`
an entry may have no Try.

- `DisciplinedNeverUndefined`: under the same two assumptions, `NeverUndefined`.
- `DisciplinedRefinement`: under the same two, `Exceptions` implements `ScopedTry`. The
  mapping forgets the lists: a region of `ScopedTry` is the set of objects an armed Try has
  to destroy, which is the part of `cleanup` between its mark and the least mark of the Trys
  inside of it. Regions are a function of the nesting level, so that a step which opens or
  closes a Try changes one of them. Each action of `Exceptions` is one of `ScopedTry` or a stutter;
  what it needs beyond `StacksAgree` is `CtorsInBody`, that an object under construction belongs
  to a Try still in its body, and not to one that is unwinding.
- `MarksAlwaysReachable`: for *every* program, early exits and locals anywhere included,
  `MarksReachable`. The frames on the list may dangle here, so nothing can be said of them;
  the invariant `AllMarksNested` speaks of the Trys on the C stack only, armed or not. Their marks
  rise with the nesting and none lies above the list: what an inner RunTo takes off lies above
  the marks of the outer Trys.

`ReturningTryProofs`, for any number of stack slots and scopes:

- `ReturningTypesHold`: `ReturningTypeOK`, in every program.
- `ListsAlwaysAgree`, `ReturnsNeverUndefined`, `AlwaysDestroyedByItsTry`: `ListsAgree`,
  `NeverUndefined`, `DestroyedByItsTry`, in programs that leave no Try by Break or Continue and declare no
  class object in a block of a Try body (`~EarlyExit`, `~LocalsAnywhere`: the other programs
  refute them, see Findings).

A Return leaves several Trys one by one while destructors run that return themselves, so a
step does not only work on the top of the C stack. The proof says what the lists are of the
set of armed Trys (`FramesAgree`, `MarksAgree`, `EntriesAgree`; `FramesAre` and `EntriesAre` lead back to
`ListsAgree`) and shows that a step keeps this set, adds one above all, or takes its last.
That it is the last needs three more parts. `OnlyCalls`: a Return, or a Try in its RunTo, is on top or directly
below a call, so the innermost Try that protects a Return is the last that is armed, and what the
Return pops is its frame. `OwnApart` and `CtorsOnOwn`: no slot belongs to two scopes, and a
constructor that is to register its object runs on a slot of the last armed Try, so the new
entry lies above that Try's mark. TLC evaluated the whole invariant on the 854 872 states of
`return_unwinds` before it was proved.

The vectors in `ContainersProofs`, for any objects, first capacity above 0, and values (`VectorAssumption`: they are integers,
0 is one of them, and what a fresh block holds is none):

- `VectorsInsideTheBlock`: `Spec => []InsideTheBlock`. The inductive invariant is
  `VectorsSound`: each vector has its type, its count is at most its capacity, and it
  had no fault. One lemma for each function of `VectorOps`, over what the C
  library calls preserve (`StoreSound`, `MoveSound`, `ReallocSound`).
- `VectorsTyped`: `Spec => []TypeOK`, which needs to know what the searches return.
- `VectorsImplementSequences`: `Spec => ImplementsSequence`, every method, with its arguments, is the
  method of that name of `AbstractSequence` on the `Contents`, or does nothing and was denied room. The
  functions that may allocate say which by what they return (`rc`). The lemma on each function says more than
  that its outcome is sound: its elements are the old ones with a gap at one place
  (`Inserted`), without one (`Erased`), with one other (`ChangedAt`), cut or filled (`Adjusted`),
  a reordering, or all as before (`Keeps`, the case of no memory). A second lemma turns that into the
  words of the abstract specification, `SubSeq` and `\o` (`AddedIs`, `RemovedIs`), a third into a
  step: one for each method (`AssignStep` and so on), collected in `ImplementsStep`.

`linear_search`, `binary_search` and the loop of `sort_unique` are recursive functions. That each is
the function its equation describes is not free: for a `CHOOSE` one has to show that such a function
exists. `FindUnfolds`, `BinarySearchUnfolds` and `UniqueUnfolds` build it, from the end of the vector, by the
width of the interval searched, and from the front; what it returns then follows by the same
induction (`FindIs`: the first place; `BinarySearchIs`: some place, and if the elements are sorted -1 only if
there is none; `UniqueIs`: the same values, increasing).

`MapProofs`, for any objects, keys, values, set of blocks, first capacity and bound, from
`MapAssumption` (`Null` is no block; what a free block holds is neither key nor value),
which the run `containers` evaluates:

- `TypeCorrect`: `Spec => []TypeOK`.
- `OneOwnerAlways`, `UndefinedOnlyForALostKeyAlways`, `LeaksOnlyForALostValueAlways`: the three
  invariants of `AnyMap`, whichever allocations fail.
- `MapsImplementDictionaries`: `Spec => ImplementsDictionary`, method by method, each with what it was denied.

The invariants are not inductive: `OneOwner` says that blocks are allocated, not what they hold, and a put
overwrites a value in place, which is harmless only if the block is no key. The
inductive invariant ranges over `Cells`, the positions in all maps together. `Holds`: a key's block
holds a key, a value's a value. `Apart`: no two pointers of different cells are the
same, NULL keys apart, and no key is a value. `Remembered`: a NULL key was refused memory, and a
block no cell points to is left from a refused value. One lemma, `Kept`, covers the steps that store
nothing (reserve, swap, erase, clear, destroy) by a function from the cells after the step to those
before it; erase shifts, swap exchanges. `StoreInv` and `OverwriteInv` cover put, the former with each
combination of refused allocations.

For the dictionary, the values of a key are a recursive function over the entries (`Column`).
`ColumnUnfolds` reads it as a function `f` with `Collected(f, n, S, V)`: `f[i]` is what the places of `S` up
to `i` hold in `V`. What the methods do to it follows by induction over the naturals: an entry
more appends (`ColumnAppended`), the first place left out is the tail (`ColumnWithout`), the first place
is the head and there are as many values as places (`ColumnRead`), and all keys together have as many
as there are entries with a key (`SizeIs`, of `Size`). `Apart` gives that a write to one block, or the
blocks of an erased entry freed, touches no other (`Spared`). Overwriting in place is replacing all
values of the key only if there is one: `Short`, that a map that is no multi-map holds one value for
each key at most, is carried along, from the steps of the dictionary itself (`ShortStep`).

`ContainersProofs` then carries both to `MCSpec`, in which vectors, a tree and maps lie side by
side, because the steps of the others leave each as it is: `OneOwnerInAll`,
`UndefinedOnlyForALostKeyInAll`, `LeaksOnlyForALostValueInAll`, `TypesAlwaysOK` (`TypesOK`),
`VectorsAreSequencesAlways` and `MapsAreDictionariesAlways`. And it has the proofs about the tree:

- `StrictlySortedAlways`: `StrictlySorted`. The invariant `TreeInv` is that the vector in the tree is sound
  and increasing. An insertion pushes, does not look whether that worked, sorts and drops the
  repetitions; `InsertIs` covers both outcomes of the push, for sorting and dropping repetitions do
  nothing to a vector that is increasing.
- `TreesAreSetsAlways`: the tree implements `AbstractSet`, with a lemma for each method (`TreeInsert`, `TreeErase`
  and so on). `InsertIs` says which outcome of the push gives which set. The size is the cardinality since the
  elements are increasing (`ElementsCounted`), and the searches are right for the same reason.

`PreprocessorProofs`, for any files, packages, macros, blocks and bounds:

- `TypesHold`, `PackagesKept`, `IncludedOnce`: `TypeOK`, `OwnPackage`, `AtMostOnce`.
- `OnlyFailedDropped`, `FirstTrueTaken`, `RunsOutAlways`: the action properties `OnlyFailedPluginDropped`,
  `FirstTrueCase`, `RunsOut`.

`PackagesKept` is about the text copied while `sure`, which is what `OwnPackage` claims; of what other Package lines
leave behind nothing is claimed: the packages remembered and read may differ.

All actions have one of five shapes, and each invariant is proved for the shapes: a line was
dealt with (`LineDone`), a file entered (`Entered`), a case of a Plugswitch entered (`Selected`), an
activation returned (`Returned`), the process failed (`Failed`). `Nested`: the activations
on one file are that on the file and those on the cases of its Plugswitches, each with fewer lines
to go than the next one has left behind it. `Waiting`: a case that reads a file is at a line.
`Behind`: every line written lies before the lines its file's activations are at, which makes
`AtMostOnce` inductive. `Sure`: the package of an activation that only Plugins interrupted
is the one its output ends in, since its last Package line was put out as it is remembered.
`Fitting`: an activation on a file is not behind its last line, and before it while a file it
asked for is being read; so a line done takes 2 from `Remaining`, a file entered weighs
`2 * FileLines + 1` and takes away the `2 * FileLines + 2` it had while unseen, a case weighs less than the lines its
Plugswitch passed, and an activation that returns takes its 1. `FirstTrueTaken` compares the split, a loop over the
block that appends to lists, with the places of the Plugcase marks in the block, by an invariant
of that loop.

`ParserProofs`, for any file, a sequence of any tokens (`InputsAssumption`):

- `ParsingAdvances`: `Spec => Advances`, each turn of `parse()` that does not end it takes a token.

`Reads(p, q)` says that what began at `p` left the parser there or further on, at a token or with an
error; `Takes(p, q)`, that it did not leave it where it was. There is a lemma for each production. Those of the
loops and of recursion assume that the grammar `g` they call does its work behind `m` (`Works(g, m)`: each of its
productions reads on) and show first that a token was taken before the call (`Called`). Hence a
round that works behind `m + 1` is followed by one that works behind `m` (`RoundWorks`); the first works
behind the last token, where every production stops or fails (`FirstRound`); by induction the last
works everywhere (`GrammarWorks`), and no position in it is 0: there were rounds enough, so no production calls
itself for ever. That a declaration takes a token is then a matter of cases
(`DeclarationReads`), the case that matters being a function whose SyntaxError was caught where it
began: `raw_decl_until` takes what it could not (`FunctionAdvances`). The invariant `IInv` is no more than that the
position is one and the file is not changed.

`ClassLoweringProofs`, for any finite set of classes, any methods and any bound on the calls:

- `WellTyped`: `TypeOK`.
- `RejectsOnlyTheIllFormed`: the passes reject a program exactly if it is ill-formed.
- `EmittedInOrder`: `BasesFirst`, a struct comes after that of its base.
- `CallsReachTheNearest`: `NearestRuns`, a virtual call runs the nearest body above the class
  whose table the object has.
- `TornDownInReverse`: `TornInReverse`, destructors run in the reverse order of
  constructors, at any moment of a life.

The invariant is one part for each phase (`CompileInv`) and one for the program that then runs
(`Lives`). The search in `Visit` marks a class when all that is above it is known to end in a root; `Rooted`
is the set of those classes, and a program without cycles is one all of whose classes are in
it. A round of `order_classes_by_base` always finds a class as long as one is left,
because the one whose place in the search is first has its base ordered: so the code's
fallback for a stuck round never happens. The place in `ordered` gives each class one
chain of bases to its root, without repetition. A table is the base's, extended: a slot keeps
its number, and holds the body of the nearest class that has one. For the life of an object,
`Lives` lists the shapes that the stack of constructors and destructors can have: along the chain
from the class created down to some class of it while building (`Begins`, `HasBase`, `HasTable`), at rest
(`Rests`), and downwards while being destroyed (`Tears`, `HasTorn`, `TornAbove`); each action leads from a shape to
the next. TLC evaluated the whole invariant on the states of `classes` before it was proved.

The same module proves of `Templates`, for any templates and programs:

- `EveryUseInstantiated`: `TemplatesSpec => []AllInstantiated`, whether or not the queue ever gets empty.

`Closed` alone is not inductive: `Scan` drops a use it has seen before, so one has to know what
became of that one. `UsesNoticed` (what was not seen is still in the text) and `SeenHandled` (what was
seen is in the queue, can not be made or has its instance) follow a use through the
scan and through the queue. For `Specialised`, `InstancesFit` says that an instance is what `Clone`
makes of its template, and `SubstitutedAtOnce` that one parameter after the other gives what all at once
do: up to each parameter the type is as it was or has its argument (`PutTo`), and without
a capture no later parameter takes that argument's name (`PutNext`).

`DriverProofs`, for any sources, stems, outputs, command lines, runs and edits:

- `TypeCorrect`: `Spec => []TypeOK`, no file the driver writes holds more than one unit.
- `AlwaysDelivered`: `Spec => []Delivered`.
- `FailuresStayContained`, `OwnRecordsAlwaysWin`: the two action properties. One lemma (`OutputOnly`) covers all steps that
  write the output, remove it, or leave it cut off in a run that is at its write or fails. For the second, the record the
  first-wins merge keeps of a symbol is that of the first unit compiled that has the symbol, the one of least index
  (`FirstRecord`), and the run's own metadata come before any neighbour's.

The inductive invariant adds to the types what a run has done so far: it compiles its
sources in their order, with a file open or not (`Counted`), has one object for each of them, and the right one if
there is only one source (`ObjectsMade`); its output holds what it compiled once it was
written (`OutputWritten`), and so does its metadata (`RecordsWritten`). It does not say that the
object under a stem is that of its source: two sources of one stem break that. The
argument for a link goes through the linker instead (`LinkedUnit`): every object the run made
has a unit, and the linker takes one at most, so there is one source and its unit is the
one linked.

Inductions over the naturals, for loops that are recursive functions (the rounds, the tables, the
split), are carried out by hand: a set of numbers that has 0 and is closed under successor, or the
least number of a non-empty set, both of which the library states without an operator
parameter.

Only model-checked: `RoundTrip`, because the reference it is compared with, how a tree is written, is
a recursion over trees, for which the provers have no induction; and all liveness
properties, fairness being out of their reach.

## Findings

Four, each between a document and the code and quoted in `PROJECT.json`: FE's Return does
not pop frames (FE 1577); FE registers objects outside of a Try and never unregisters them (FE
1174); a Plugin in a Plugswitch retags what follows
(`preprocessor.py` 162), and so does one behind a Package line with a comment (83), which no run of its own shows; a Return in a destructor
skips the base destructor (`codegen.py` 1161). The models also make visible, without a document
that says otherwise, that `put` counts an entry whose key could not be copied, and a later
search compares it with NULL (RT 491), and what is listed under each module above.

## Not modelled

- **Locks and threads.** The classes are thin layers over pthread. Where they add something,
  the mutex made at the first lock (FE 1652), the semaphore whose count changes outside of its
  mutex (RT 276), the handle freed by join and detach (RT 413) and the exception lists all
  threads share (FE 1651), the outcome is a data race; no document or test promises one, so
  a model would only restate the code. They stay listed as hazards.
- **FE's own preprocessor, parser, classes and driver.** FE is one pass in which they are
  interleaved on growing arrays. PY does the same in passes, which are modelled; three
  hazards that only FE has, from pointers into arrays that move and from cycles of
  bases, are listed.
- **Text.** Expressions, types, name mangling, the lexer, Dynamic Struct code, debug formats:
  text to text, without an order of events.
- **Target/Hit**: a lookup by name, resolved when compiling. Algorithms and string parser:
  loops over one array or string. The rest are calls into libc or external programs.

## Plan

Done, in the order of the first plan: exceptions, containers, classes, preprocessor, parser,
driver, and with them templates and Try/Return of the bootstrap. Left:

1. A word width for `cap * elem` in `VectorOps`; the typed copies of RT 311-370.
2. Fields and nested classes in `ClassLowering`; nested uses in `Templates`.
3. Locks and threads, if their documents come to promise something of races.
