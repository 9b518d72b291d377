-------------------------- MODULE DominatedChecks --------------------------
(***************************************************************************)
(* ChecksElimination::EliminateDominatedChecks (opt/checks_elimination.cpp)*)
(* over a graph whose dominator tree is built, for the checks of one value:*)
(* a pointer that is checked for null, or an index that is compared with   *)
(* lengths.                                                                *)
(*                                                                         *)
(* The instructions are numbered as the walk meets them: by the place of   *)
(* their block in the reverse postorder, and in a block as listed.  The    *)
(* records of the value's uses are in the order the uses were made, so     *)
(* they are gone through in any order; a record left by an instruction     *)
(* that is in no reachable block dominates nothing, and is left out.       *)
(***************************************************************************)
EXTENDS FlowGraph, SequencesExt

CONSTANTS Blocks, Start, None

VARIABLES
    succs, order, idom,     \* the graph, and what GraphAnalyzer found
    code,       \* the instructions: where their block is in order, opcode, length
    phase,      \* "idle", "walk", "done"
    walked,     \* how many instructions the walk has passed
    toRemove,   \* to_remove
    gone        \* the instructions removed from their blocks

given == <<succs, order, idom>>

\* A use as an address is a LOAD here; STORE is a use as the value that is stored.
PointerUses == {"NULL_CHECK", "LOAD", "STORE"}

Insts == DOMAIN code

Block(i) == order[code[i].at]

IsCheck(i) == code[i].op \in {"NULL_CHECK", "BOUNDS_CHECK"}

Init ==
    /\ code = <<>>
    /\ phase = "idle"
    /\ walked = 0
    /\ toRemove = {} /\ gone = {}

\* The pass is given a program.
EliminateDominatedChecks(program) ==
    /\ code' = program
    /\ phase' = "walk"
    /\ UNCHANGED <<given, walked, toRemove, gone>>

\* Only the immediate dominator is asked for.
DominatesNextBlockOnly(d, i) ==
    IF Block(d) = Block(i) THEN d < i ELSE Block(d) = idom[Block(i)]

Dominates(d, i) ==
    IF Block(d) = Block(i) THEN d < i
    ELSE Block(d) \in ChainIn(idom, None, Block(i))

current == walked + 1

\* The instructions the users loop does not skip.
Users == Insts \ (toRemove \cup {current})

\* The lengths are not compared.
SameCheckOfAnyLength(i) == code[i].op = code[current].op

SameCheck(i) == code[i].op = code[current].op /\ code[i].len = code[current].len

Repeats == {i \in Users : SameCheck(i) /\ Dominates(current, i)}

\* The loop over the users of the pointer ends at the first that dominates the check.
VisitNullCheck ==
    /\ code[current].op = "NULL_CHECK"
    /\ LET before == {i \in Users : code[i].op \in PointerUses /\ Dominates(i, current)}
       IN  IF before = {} THEN toRemove' = toRemove \cup Repeats
           ELSE \E S \in SUBSET Repeats : toRemove' = toRemove \cup {current} \cup S

VisitBoundsCheck ==
    /\ code[current].op = "BOUNDS_CHECK"
    /\ toRemove' = toRemove \cup Repeats

Visit ==
    /\ phase = "walk" /\ walked < Len(code)
    /\ IF current \in toRemove \/ ~IsCheck(current) THEN UNCHANGED toRemove
       ELSE VisitNullCheck \/ VisitBoundsCheck
    /\ walked' = walked + 1
    /\ UNCHANGED <<given, code, phase, gone>>

RemoveInstructions ==
    /\ phase = "walk" /\ walked = Len(code)
    /\ gone' = toRemove
    /\ phase' = "done"
    /\ UNCHANGED <<given, code, walked, toRemove>>

-----------------------------------------------------------------------------

\* Once d has executed, check i cannot fail.
Covers(d, i) ==
    IF code[i].op = "BOUNDS_CHECK" THEN code[d].op = "BOUNDS_CHECK" /\ code[d].len = code[i].len
    ELSE code[d].op \in {"NULL_CHECK", "LOAD"}

\* No path reaches i without one of the instructions in D.
OnEveryPath(D, i) ==
    \/ \E d \in D : Block(d) = Block(i) /\ d < i
    \/ LET Stops == {Block(d) : d \in D} \ {Block(i)}
       IN  Block(i) \notin ReachFrom(succs, {Start} \ Stops, Blocks \ Stops)

(***************************************************************************)
(* A check that was removed is made up for: every path to where it stood   *)
(* goes through an instruction that is still there and traps or branches   *)
(* off in the same cases.  Except that a store of the pointer itself,      *)
(* which the code takes for an access through it, removes checks too.      *)
(***************************************************************************)
RemovedIsCovered == \A i \in gone :
    /\ IsCheck(i)
    /\ OnEveryPath({d \in Insts \ gone : Covers(d, i) \/ code[d].op = "STORE"}, i)

(***************************************************************************)
(* One pass is enough: no check is left with another one, or an access, on *)
(* every path before it that alone would have made it needless.            *)
(***************************************************************************)
NothingLeftToRemove == phase = "done" =>
    \A i, d \in Insts \ gone : IsCheck(i) /\ Covers(d, i) /\ i # d => ~OnEveryPath({d}, i)

=============================================================================
