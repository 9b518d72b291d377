---------------------------- MODULE DominatorTree ----------------------------
(***************************************************************************)
(* GraphAnalyzer (analysis/graph_analyzer.cpp): the depth-first search of  *)
(* ComputeRPO, and the fixpoint of BuildDominatorTree that intersects the  *)
(* dominators of a block's predecessors with two fingers walking up the    *)
(* tree.  The search is a machine over its stack of open calls; the walk   *)
(* moves one finger per step.                                              *)
(*                                                                         *)
(* The code goes through successors and predecessors in the order of its   *)
(* edge lists, which is the order the program was built in.  Here each     *)
(* choice is any element not yet taken, so every order is covered; an edge *)
(* listed twice is one edge, since its second visit does nothing.          *)
(***************************************************************************)
EXTENDS FlowGraph, SequencesExt

CONSTANTS
    Blocks,     \* the blocks of the graph
    Start,      \* the first block of the list, where ComputeRPO starts
    None        \* nullptr

ASSUME BlocksAssumption == IsFiniteSet(Blocks) /\ Start \in Blocks /\ None \notin Blocks

VARIABLES
    succs,      \* the successors of each block
    pc,         \* "dfs", "pass", "merge", "walk", "done"
    stack,      \* the blocks whose DFS call is open, the innermost last
    visited,
    order,      \* reverse_postorder_: postorder during the search, then reversed
    idom,       \* immediate_dominators_
    changed,
    index,      \* the position in order of the block at hand
    newIdom,    \* new_idom
    todo,       \* predecessors of the block at hand still to be intersected
    a, b        \* the fingers

search == <<stack, visited>>
tree == <<order, idom, changed, index>>
walk == <<newIdom, todo, a, b>>
vars == <<succs, pc, search, tree, walk>>

Preds(x) == PredsIn(succs, x)

\* rpo_numbers_
Number(x) == CHOOSE k \in 1 .. Len(order) : order[k] = x

-----------------------------------------------------------------------------

Init ==
    /\ succs \in [Blocks -> SUBSET Blocks]
    /\ pc = "dfs"
    /\ stack = <<Start>>
    /\ visited = {Start}
    /\ order = <<>>
    /\ idom = [x \in Blocks |-> None]
    /\ changed = FALSE
    /\ index = 0
    /\ newIdom = None
    /\ todo = {}
    /\ a = None /\ b = None

\* The open call finds a successor nobody has visited, and calls itself.
Descend ==
    /\ pc = "dfs" /\ stack # <<>>
    /\ \E x \in succs[Last(stack)] \ visited :
        /\ stack' = Append(stack, x)
        /\ visited' = visited \cup {x}
    /\ UNCHANGED <<succs, pc, tree, walk>>

\* All its successors are visited: the call appends its block and returns.
Ascend ==
    /\ pc = "dfs" /\ stack # <<>>
    /\ succs[Last(stack)] \subseteq visited
    /\ order' = Append(order, Last(stack))
    /\ stack' = Front(stack)
    /\ UNCHANGED <<succs, pc, visited, idom, changed, index, walk>>

\* std::reverse forgotten.
Postorder == order

ReversePostorder == Reverse(order)

\* The order is reversed and the start block made its own dominator.
StartFixpoint ==
    /\ pc = "dfs" /\ stack = <<>>
    /\ order' = ReversePostorder
    /\ idom' = [idom EXCEPT ![Start] = Start]
    /\ changed' = FALSE
    /\ index' = 2
    /\ pc' = "pass"
    /\ UNCHANGED <<succs, search, walk>>

block == order[index]

Processed(x) == idom[x] # None

\* The first processed predecessor is the first candidate; without one, `continue`.
VisitBlock ==
    /\ pc = "pass" /\ index <= Len(order)
    /\ IF \E p \in Preds(block) : Processed(p)
       THEN /\ \E p \in Preds(block) :
                /\ Processed(p)
                /\ newIdom' = p
                /\ todo' = Preds(block) \ {p}
            /\ pc' = "merge"
            /\ UNCHANGED index
       ELSE index' = index + 1 /\ UNCHANGED <<pc, newIdom, todo>>
    /\ UNCHANGED <<succs, search, order, idom, changed, a, b>>

\* Unprocessed predecessors are intersected too.
PassOverCandidateOnly(p) == p = newIdom

\* The first candidate is taken as the answer.
PassOverAll(p) == TRUE

\* A predecessor that is the candidate, or has no dominator yet, says nothing.
PassOver(p) == p = newIdom \/ ~Processed(p)

SkipPred ==
    /\ pc = "merge"
    /\ \E p \in todo : PassOver(p) /\ todo' = todo \ {p}
    /\ UNCHANGED <<succs, pc, search, tree, newIdom, a, b>>

StartWalk ==
    /\ pc = "merge"
    /\ \E p \in todo :
        /\ ~PassOver(p)
        /\ b' = p
        /\ todo' = todo \ {p}
    /\ a' = newIdom
    /\ pc' = "walk"
    /\ UNCHANGED <<succs, search, tree, newIdom>>

RaiseB ==
    /\ pc = "walk" /\ a # b
    /\ Number(a) < Number(b)
    /\ b' = idom[b]
    /\ UNCHANGED <<succs, pc, search, tree, newIdom, todo, a>>

RaiseA ==
    /\ pc = "walk" /\ a # b
    /\ Number(b) < Number(a)
    /\ a' = idom[a]
    /\ UNCHANGED <<succs, pc, search, tree, newIdom, todo, b>>

\* Where the fingers met is forgotten.
EndWalkKeepingCandidate ==
    /\ pc = "walk" /\ a = b
    /\ a' = None /\ b' = None
    /\ pc' = "merge"
    /\ UNCHANGED <<succs, search, tree, newIdom, todo>>

\* The fingers have met.
EndWalk ==
    /\ pc = "walk" /\ a = b
    /\ newIdom' = a
    /\ a' = None /\ b' = None
    /\ pc' = "merge"
    /\ UNCHANGED <<succs, search, tree, todo>>

\* The change is not reported, and one pass is all there is.
SetIdomQuietly ==
    /\ pc = "merge" /\ todo = {}
    /\ idom' = [idom EXCEPT ![block] = newIdom]
    /\ newIdom' = None
    /\ index' = index + 1
    /\ pc' = "pass"
    /\ UNCHANGED <<succs, search, order, changed, todo, a, b>>

SetIdom ==
    /\ pc = "merge" /\ todo = {}
    /\ idom' = [idom EXCEPT ![block] = newIdom]
    /\ changed' = (changed \/ idom[block] # newIdom)
    /\ newIdom' = None
    /\ index' = index + 1
    /\ pc' = "pass"
    /\ UNCHANGED <<succs, search, order, todo, a, b>>

\* `changed = false` missing from the top of the loop.
AnotherPassForever ==
    /\ pc = "pass" /\ index > Len(order)
    /\ changed
    /\ index' = 2
    /\ UNCHANGED <<succs, pc, search, order, idom, changed, walk>>

AnotherPass ==
    /\ pc = "pass" /\ index > Len(order)
    /\ changed
    /\ changed' = FALSE
    /\ index' = 2
    /\ UNCHANGED <<succs, pc, search, order, idom, walk>>

Finish ==
    /\ pc = "pass" /\ index > Len(order)
    /\ ~changed
    /\ pc' = "done"
    /\ UNCHANGED <<succs, search, tree, walk>>

Finished == pc = "done" /\ UNCHANGED vars

Next ==
    \/ Descend \/ Ascend \/ StartFixpoint
    \/ VisitBlock \/ SkipPred
    \/ StartWalk \/ RaiseA \/ RaiseB \/ EndWalk
    \/ SetIdom \/ AnotherPass \/ Finish
    \/ Finished

\* BuildDominatorTree is one call that nothing interrupts.
Spec == Init /\ [][Next]_vars /\ WF_vars(Next)

-----------------------------------------------------------------------------
(* The queries. *)

\* The blocks Dominates meets on its way up from x, x included.
IdomChain(x) == ChainIn(idom, None, x)

Dominates(d, x) == d \in IdomChain(x)

GetImmediateDominator(x) == IF x = Start THEN None ELSE idom[x]

-----------------------------------------------------------------------------
(* Reference definitions, on paths. *)

Reachable == ReachableIn(succs, Start)

StrictDominators(x) == {d \in Reachable \ {x} : DominatesIn(succs, Start, d, x)}

-----------------------------------------------------------------------------

(***************************************************************************)
(* The order ComputeRPO leaves is a reverse postorder: the reachable       *)
(* blocks once each, every block but the first behind one of its           *)
(* predecessors, and an edge that goes backwards closes a cycle: its       *)
(* source was reached without leaving the blocks numbered from its target. *)
(***************************************************************************)
Numbered(k) == {order[j] : j \in k .. Len(order)}

IsReversePostorder == pc \notin {"dfs", "done"} =>
    /\ Len(order) = Cardinality(Reachable) /\ Range(order) = Reachable
    /\ \A k \in 2 .. Len(order) : \E j \in 1 .. (k - 1) : order[k] \in succs[order[j]]
    /\ \A j \in 1 .. Len(order) : \A k \in j .. Len(order) :
          order[j] \in succs[order[k]] => order[k] \in ReachFrom(succs, {order[j]}, Numbered(j))

(***************************************************************************)
(* The walk never looks up the number or the dominator of a block that has *)
(* none: both fingers always stand on numbered, processed blocks, and a    *)
(* finger that is raised moves to a smaller number, so they meet.          *)
(***************************************************************************)
FingersStandOnTheTree ==
    /\ pc = "walk" => {a, b} \subseteq Range(order) /\ Processed(a) /\ Processed(b)
    /\ pc \notin {"dfs", "done"} => \A x \in Blocks \ {Start} :
          Processed(x) => {x, idom[x]} \subseteq Range(order) /\ Number(idom[x]) < Number(x)

(***************************************************************************)
(* While it is being improved the tree never loses a dominator: the        *)
(* strict dominators of a processed block are all among its ancestors.     *)
(***************************************************************************)
NoDominatorLost == pc \notin {"dfs", "done"} => \A x \in Range(order) :
    Processed(x) => StrictDominators(x) \subseteq IdomChain(x)

(***************************************************************************)
(* A block's dominator, once set, only moves towards the start.            *)
(***************************************************************************)
IdomsOnlyClimb == [][
    pc # "dfs" => \A x \in Blocks :
        Processed(x) /\ idom'[x] # idom[x] => Number(idom'[x]) < Number(idom[x])
    ]_vars

(***************************************************************************)
(* The fixpoint is reached, whatever the graph.                            *)
(***************************************************************************)
Terminates == <>(pc = "done")

=============================================================================
