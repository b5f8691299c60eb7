---------------------------- MODULE MCContainers ----------------------------
(***************************************************************************)
(* Vectors, trees and maps for TLC.  They share nothing but, the first     *)
(* two, their code, so a behaviour is that of the vectors, of the tree or  *)
(* of the maps, as which says; the others stay as they are before their    *)
(* constructors.                                                           *)
(***************************************************************************)
EXTENDS AnyVector, TLC

CONSTANTS Keys, Blocks, Free, MaxEntries

VARIABLES
    which,
    treeMade, tree, treeOut,
    multi, mapMade, map, heap, refused, status, mapOut,
    treeCall, mapCall

T == INSTANCE AnyTree WITH
        made <- treeMade, out <- treeOut, call <- treeCall
M == INSTANCE AnyMap WITH
        Values <- Values \intersect {0, 1}, FirstCap <- 1,
        made <- mapMade, out <- mapOut, call <- mapCall

treeVars == <<treeMade, tree, treeOut, treeCall>>
mapVars == <<multi, mapMade, map, heap, refused, status, mapOut, mapCall>>

ASSUME MapConstants == M!MapAssumption

MCInit ==
    /\ Init /\ T!Init /\ M!Init
    /\ which \in {"vectors", "tree", "maps"}
    /\ which # "vectors" => made = {}
    /\ which # "tree" => ~treeMade
    /\ which # "maps" => ~multi /\ mapMade = {}

MCNext ==
    \/ which = "vectors" /\ Next /\ UNCHANGED <<which, treeVars, mapVars>>
    \/ which = "tree" /\ T!Next /\ UNCHANGED <<which, vars, mapVars>>
    \/ which = "maps" /\ M!Next /\ UNCHANGED <<which, vars, treeVars>>

MCSpec == MCInit /\ [][MCNext]_<<which, vars, treeVars, mapVars>>

\* No guard reads what was called or answered: TLC takes states in which the
\* objects hold the same for one, and looks at calls and answers in its steps.
Held == <<which, made, vec, treeMade, tree, multi, mapMade, map, heap,
          refused, status>>

Symmetry == Permutations(Handles) \union Permutations(Keys)

-----------------------------------------------------------------------------
(* The types of all three; the cells and entries in use lie inside of      *)
(* their blocks.                                                           *)
TypesOK == TypeOK /\ T!TypeOK /\ M!TypeOK

(* The tree is strictly increasing: AnyTree's property of that name. *)
StrictlySorted == T!StrictlySorted

(* Vectors are sequences, the tree is a set, maps are dictionaries:        *)
(* ImplementsSequence, ImplementsSet and ImplementsDictionary of their     *)
(* modules, looked at only in the steps of those objects.                  *)
VectorsAreSequences ==
    Seen!Init /\ [][which = "vectors" => [Seen!Next]_(Seen!vars)]_vars

TreesAreSets ==
    T!Seen!Init /\ [][which = "tree" => [T!Seen!Next]_(T!Seen!vars)]_treeVars

MapsAreDictionaries ==
    M!Seen!Init /\ [][which = "maps" => [M!Seen!Next]_(M!Seen!vars)]_mapVars

(* Every block in use has one owner: AnyMap's property of that name. *)
OneOwner == M!OneOwner

(* A map is undefined only after a key was refused memory: AnyMap's        *)
(* property of that name.                                                  *)
UndefinedOnlyForALostKey == M!UndefinedOnlyForALostKey

(* A block is lost only after a value was refused memory: AnyMap's         *)
(* property of that name.                                                  *)
LeaksOnlyForALostValue == M!LeaksOnlyForALostValue
=============================================================================
