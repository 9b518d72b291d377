----------------------------- MODULE ControlFlow -----------------------------
(***************************************************************************)
(* The edges of a graph and the inputs of its phi functions: the two edge  *)
(* lists of each block (basic_block.cpp), in their order, and the inputs   *)
(* of a phi, which belong to the predecessors by position                  *)
(* (PhiInst::AddIncoming).  The operations are those that the builder, the *)
(* inliner and the checks elimination apply, in any sequence.              *)
(*                                                                         *)
(* Phis do not touch each other, so the model follows one.  An input is    *)
(* known by the predecessor it was added for; a split renames that         *)
(* predecessor.  After ConnectCFG the graph followed is the clone that the *)
(* inliner has made in a caller; a block keeps its name in it.             *)
(***************************************************************************)
EXTENDS Integers, SequencesExt

CONSTANTS
    Blocks,     \* all blocks the graph may come to have
    PhiBlock,   \* the block the phi is in
    None        \* nullptr

ASSUME ControlFlowAssumption == IsFiniteSet(Blocks) /\ PhiBlock \in Blocks /\ None \notin Blocks

VARIABLES
    created,    \* blocks_ of the graph, in the order they were made
    preds,      \* predecessors_
    succs,      \* successors_
    inputs,     \* inputs_ of the phi: the predecessors they are for
    cut,        \* the blocks that ClearSuccessors has left without a way out
    inlined     \* whether the graph is a clone

vars == <<created, preds, succs, inputs, cut, inlined>>

IsBlock(x) == x \in Range(created)

Count(list, x) == Cardinality({k \in DOMAIN list : list[k] = x})

Init ==
    /\ created = <<>>
    /\ preds = [x \in Blocks |-> <<>>]
    /\ succs = [x \in Blocks |-> <<>>]
    /\ inputs = <<>>
    /\ cut = {}
    /\ inlined = FALSE

CreateBasicBlock(x) ==
    /\ ~IsBlock(x)
    /\ created' = Append(created, x)
    /\ UNCHANGED <<preds, succs, inputs, cut, inlined>>

-----------------------------------------------------------------------------
(* IRBuilder::CreateJump and CreateBranch, at the end of a block without a *)
(* terminator.                                                             *)

Open(x) == succs[x] = <<>> /\ x \notin cut

CreateJump(x, target) ==
    /\ {x, target} \subseteq Range(created) /\ Open(x)
    /\ succs' = [succs EXCEPT ![x] = <<target>>]
    /\ preds' = [preds EXCEPT ![target] = Append(@, x)]
    /\ UNCHANGED <<created, inputs, cut, inlined>>

\* A predecessor that is listed already is not listed again.
EnterOnce(ps, x, targets) ==
    [y \in Blocks |-> IF y \in Range(targets) /\ x \notin Range(ps[y]) THEN Append(ps[y], x) ELSE ps[y]]

\* AddPredecessor of x for each target: x comes to the end of a list as often as it is named.
Enter(ps, x, targets) == [y \in Blocks |-> ps[y] \o [k \in 1 .. Count(targets, y) |-> x]]

CreateBranch(x, true, false) ==
    /\ {x, true, false} \subseteq Range(created) /\ Open(x)
    /\ succs' = [succs EXCEPT ![x] = <<true, false>>]
    /\ preds' = Enter(preds, x, <<true, false>>)
    /\ UNCHANGED <<created, inputs, cut, inlined>>

-----------------------------------------------------------------------------

\* The index is counted from one too far.
FindNext(ps, p) == (CHOOSE k \in DOMAIN ps : ps[k] = p /\ \A i \in 1 .. k - 1 : ps[i] # p) + 1

\* std::find in a list with p in it: the first occurrence.
Find(ps, p) == CHOOSE k \in DOMAIN ps : ps[k] = p /\ \A i \in 1 .. k - 1 : ps[i] # p

\* The inputs are resized up to the index; what is new between is nullptr.
SetInputAt(list, index, value) ==
    [k \in 1 .. (IF index > Len(list) THEN index ELSE Len(list)) |->
        IF k = index THEN value ELSE IF k <= Len(list) THEN list[k] ELSE None]

\* Throws, and changes nothing, unless p is a predecessor.
AddIncoming(p) ==
    /\ p \in Range(preds[PhiBlock])
    /\ inputs' = SetInputAt(inputs, Find(preds[PhiBlock], p), p)
    /\ UNCHANGED <<created, preds, succs, cut, inlined>>

-----------------------------------------------------------------------------

\* ReplacePredecessor in each successor.
TakeOver(ps, x, new, targets) ==
    [s \in Blocks |-> IF s \in Range(targets) THEN ReplaceAll(ps[s], x, new) ELSE ps[s]]

CreateFor(x, new) == Append(created, new)

\* SplitAt: the new block takes over the edges, and the phi inputs that came over them.
SplitAt(x, new) ==
    /\ IsBlock(x) /\ ~IsBlock(new)
    /\ created' = CreateFor(x, new)
    /\ succs' = [succs EXCEPT ![new] = succs[x], ![x] = <<>>]
    /\ preds' = TakeOver(preds, x, new, succs[x])
    /\ inputs' = IF PhiBlock \in Range(succs[x]) THEN ReplaceAll(inputs, x, new) ELSE inputs
    /\ cut' = IF x \in cut THEN (cut \ {x}) \cup {new} ELSE cut
    /\ UNCHANGED inlined

\* RemovePredecessor: the first occurrence is erased, if there is one.
Erase(ps, x) == IF x \in Range(ps) THEN RemoveAt(ps, Find(ps, x)) ELSE ps

\* RemovePredecessor of x from each target in turn.
Leave(ps, x, targets) ==
    LET left[k \in 0 .. Len(targets)] ==
            IF k = 0 THEN ps ELSE [left[k - 1] EXCEPT ![targets[k]] = Erase(@, x)]
    IN  left[Len(targets)]

\* ClearSuccessors, which a block that must throw gets.
ClearSuccessors(x) ==
    /\ succs[x] # <<>>
    /\ preds' = Leave(preds, x, succs[x])
    /\ succs' = [succs EXCEPT ![x] = <<>>]
    /\ cut' = cut \cup {x}
    /\ UNCHANGED <<created, inputs, inlined>>

-----------------------------------------------------------------------------

\* The edges of the clone are entered anew, block by block in the order of the list.
EnteredAnew ==
    LET entered[k \in 0 .. Len(created)] ==
            IF k = 0 THEN [y \in Blocks |-> <<>>]
            ELSE Enter(entered[k - 1], created[k], succs[created[k]])
    IN  entered[Len(created)]

\* The inliner's clone of the graph; the inputs of a phi are copied as they are.  The
\* caller's jump enters the first block.
ConnectCFG ==
    /\ created # <<>> /\ preds[Head(created)] = <<>> /\ ~inlined
    /\ preds' = EnteredAnew
    /\ inlined' = TRUE
    /\ UNCHANGED <<created, succs, inputs, cut>>

Next ==
    \/ \E x \in Blocks : CreateBasicBlock(x)
    \/ \E x, y \in Blocks : CreateJump(x, y)
    \/ \E x, y, z \in Blocks : CreateBranch(x, y, z)
    \/ \E p \in Blocks : AddIncoming(p)
    \/ \E x, new \in Blocks : SplitAt(x, new)
    \/ \E x \in Blocks : ClearSuccessors(x)
    \/ ConnectCFG

Spec == Init /\ [][Next]_vars

-----------------------------------------------------------------------------

(***************************************************************************)
(* An edge is in both its lists, equally often: a branch of which both     *)
(* targets are one block, a loop of one block that is split, a block that  *)
(* is cut off while it is its own successor leave neither list behind.     *)
(***************************************************************************)
EdgesAgree == \A x, y \in Blocks : Count(succs[x], y) = Count(preds[y], x)

Aligned == \A k \in DOMAIN inputs \cap DOMAIN preds[PhiBlock] :
    inputs[k] # None => inputs[k] = preds[PhiBlock][k]

\* Where std::find looks for a predecessor's input, in AddIncoming and in ResolvePhis.
AtFirstEdge == \A k \in DOMAIN inputs \cap DOMAIN preds[PhiBlock] :
    inputs[k] # None => \A e \in 1 .. k - 1 : preds[PhiBlock][e] # preds[PhiBlock][k]

(***************************************************************************)
(* The input at a position is the one added for the predecessor at that    *)
(* position, and of two edges from one block the first has it, which is    *)
(* where the input is looked for; through any additions and splits, as     *)
(* long as no block is cut off and the graph is no clone.                  *)
(***************************************************************************)
PhiInputsAligned == cut = {} /\ ~inlined =>
    Aligned /\ AtFirstEdge /\ Len(inputs) <= Len(preds[PhiBlock])

(***************************************************************************)
(* Positions without the exceptions: who asks for the input at a            *)
(* predecessor's position gets "the input operand of the phi function that *)
(* belongs to block predecessor".                                          *)
(***************************************************************************)
InputsBelongToPredecessors == Aligned

=============================================================================
