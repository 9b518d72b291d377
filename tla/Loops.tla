-------------------------------- MODULE Loops --------------------------------
(***************************************************************************)
(* LoopAnalyzer::Analyze (analysis/loop_analyzer.cpp, loop.cpp) on a graph *)
(* whose dominator tree is built: back edges from a depth-first search, a  *)
(* loop for each header with the blocks that reach its latches, the tree   *)
(* of loops, and which loops can be counted.                               *)
(*                                                                         *)
(* A loop is named by its header.  The order in which successors are gone  *)
(* through is a choice; the order in which loops are found is kept, since  *)
(* the tree is built in it.  Left out: block_to_all_loops_, which nothing  *)
(* reads, and the list of the inner loops, which is the inverse of outer.  *)
(***************************************************************************)
EXTENDS FlowGraph, SequencesExt

CONSTANTS
    Blocks,     \* the blocks of the graph
    Start,      \* the first of them
    None        \* nullptr

VARIABLES
    succs,      \* the successors of each block
    idom,       \* the dominator tree of graph_analyzer_
    stage,      \* "idle", "dfs", "populate", "tree", "classify", "done"
    calls,      \* the open calls of MarkDFS, the innermost last; also in_stack
    left,       \* the successors a call has not looked at yet
    counter,    \* dfs_counter_: each entry and each exit takes a number
    number,     \* dfs_numbers_, None of a block not visited
    exit,       \* dfs_exit_numbers_, None of a block not finished
    backEdges,  \* back_edges_, pairs of latch and header
    loops,      \* loops_, by header
    reducible, latches, blocks, outer, countable,   \* the fields of each loop
    innermost,  \* block_to_innermost_loop_
    place       \* the loop BuildLoopTree is at

given == <<succs, idom>>
search == <<calls, left, counter, number, exit, backEdges>>
found == <<loops, reducible, latches, blocks>>
tree == <<outer, innermost, place>>

Visited == {x \in Blocks : number[x] # None}

InStack == Range(calls)

Dominates(d, x) == d \in ChainIn(idom, None, x)

-----------------------------------------------------------------------------

Init ==
    /\ stage = "idle"
    /\ calls = <<>>
    /\ left = [x \in Blocks |-> {}]
    /\ counter = 0
    /\ number = [x \in Blocks |-> None]
    /\ exit = [x \in Blocks |-> None]
    /\ backEdges = <<>>
    /\ loops = <<>>
    /\ reducible = [x \in Blocks |-> TRUE]
    /\ latches = [x \in Blocks |-> {}]
    /\ blocks = [x \in Blocks |-> {x}]
    /\ outer = [x \in Blocks |-> None]
    /\ countable = [x \in Blocks |-> FALSE]
    /\ innermost = [x \in Blocks |-> None]
    /\ place = 1

CollectBackEdges ==
    /\ stage = "idle"
    /\ stage' = "dfs"
    /\ calls' = <<Start>>
    /\ left' = succs
    /\ number' = [number EXCEPT ![Start] = counter]
    /\ counter' = counter + 1
    /\ UNCHANGED <<given, exit, backEdges, found, tree, countable>>

LookAt(x) ==
    /\ stage = "dfs" /\ calls # <<>>
    /\ x \in left[Last(calls)]
    /\ left' = [left EXCEPT ![Last(calls)] = @ \ {x}]

\* Any visited successor is taken for an open call.
OpenIfVisited(x) == x \in Visited

Open(x) == x \in InStack /\ number[Last(calls)] >= number[x]

MeetOpen == \E x \in Blocks :
    /\ LookAt(x)
    /\ Open(x)
    /\ backEdges' = Append(backEdges, <<Last(calls), x>>)
    /\ UNCHANGED <<given, stage, calls, counter, number, exit, found, tree, countable>>

MeetClosed == \E x \in Blocks :
    /\ LookAt(x)
    /\ x \in Visited /\ ~Open(x)
    /\ UNCHANGED <<given, stage, calls, counter, number, exit, backEdges, found, tree, countable>>

MarkDFS == \E x \in Blocks :
    /\ LookAt(x)
    /\ x \notin Visited
    /\ calls' = Append(calls, x)
    /\ number' = [number EXCEPT ![x] = counter]
    /\ counter' = counter + 1
    /\ UNCHANGED <<given, stage, exit, backEdges, found, tree, countable>>

Return ==
    /\ stage = "dfs" /\ calls # <<>>
    /\ left[Last(calls)] = {}
    /\ exit' = [exit EXCEPT ![Last(calls)] = counter]
    /\ counter' = counter + 1
    /\ calls' = Front(calls)
    /\ stage' = IF Len(calls) = 1 THEN "populate" ELSE stage
    /\ UNCHANGED <<given, left, number, backEdges, found, tree, countable>>

-----------------------------------------------------------------------------
(* PopulateLoops. *)

IsDescendant(p, c) ==
    p = c \/ /\ {p, c} \subseteq Visited
             /\ number[p] <= number[c] /\ exit[c] <= exit[p]

\* Any predecessor joins, one the search never reached too.
JoinsAny(h, isReducible, p) == TRUE

\* is_valid: the predecessor belongs to the loop of header h.
Joins(h, isReducible, p) == IF isReducible THEN Dominates(h, p) ELSE IsDescendant(h, p)

\* FindLoopBlocks: back from the latch over predecessors, up to the header.
FindLoopBlocks(h, isReducible, latch) ==
    LET Back == [x \in Blocks |-> IF x = h THEN {} ELSE PredsIn(succs, x)]
    IN  ReachFrom(Back, {latch}, {p \in Blocks : Joins(h, isReducible, p)})

\* One round of PopulateLoops.  Only a new loop is asked whether it is reducible.
PopulateLoop ==
    /\ stage = "populate" /\ backEdges # <<>>
    /\ LET latch == Head(backEdges)[1]
           header == Head(backEdges)[2]
           isNew == header \notin Range(loops)
       IN  /\ loops' = IF isNew THEN Append(loops, header) ELSE loops
           /\ reducible' = IF isNew THEN [reducible EXCEPT ![header] = Dominates(header, latch)]
                                    ELSE reducible
           /\ latches' = [latches EXCEPT ![header] = @ \cup {latch}]
           /\ blocks' = [blocks EXCEPT ![header] =
                             @ \cup FindLoopBlocks(header, reducible'[header], latch)]
    /\ backEdges' = Tail(backEdges)
    /\ UNCHANGED <<given, stage, calls, left, counter, number, exit, tree, countable>>

-----------------------------------------------------------------------------
(* BuildLoopTree. *)

\* The loops around l, from GetOuterLoop.
Around(l) == IF outer[l] = None THEN {} ELSE ChainIn(outer, None, outer[l])

IsInnerLoop(l, m) == l \in blocks[m] \/ m \in Around(l)

\* Any loop with the block in it takes the place of the one before.
CloserIsLast(x, l, best) == x \in blocks[l]

\* The body of the scan: loop l has x in it, and is in the best loop so far, if there is one.
Closer(x, l, best) == x \in blocks[l] /\ (best = None \/ IsInnerLoop(l, best))

\* The scan for the innermost of the candidates that contain x.
Closest(x, Candidates) ==
    LET best[k \in 0 .. Len(loops)] ==
            IF k = 0 THEN None
            ELSE IF loops[k] \in Candidates /\ Closer(x, loops[k], best[k - 1]) THEN loops[k]
            ELSE best[k - 1]
    IN  best[Len(loops)]

\* The block part of BuildLoopTree, which comes before any loop has an outer one.
PlaceBlocks ==
    /\ stage = "populate" /\ backEdges = <<>>
    /\ innermost' = [x \in Blocks |-> Closest(x, Range(loops))]
    /\ stage' = "tree"
    /\ UNCHANGED <<given, search, found, outer, countable, place>>

\* AddInnerLoop gives its blocks to the outer loop too.
PlaceLoop ==
    /\ stage = "tree" /\ place <= Len(loops)
    /\ LET l == loops[place]
           o == Closest(l, Range(loops) \ {l})
       IN  /\ outer' = [outer EXCEPT ![l] = o]
           /\ blocks' = IF o = None THEN blocks ELSE [blocks EXCEPT ![o] = @ \cup blocks[l]]
    /\ place' = place + 1
    /\ UNCHANGED <<given, stage, search, loops, reducible, latches, countable, innermost>>

EndTree ==
    /\ stage = "tree" /\ place > Len(loops)
    /\ stage' = "classify"
    /\ UNCHANGED <<given, search, found, tree, countable>>

-----------------------------------------------------------------------------

\* CheckLoopCountable.
Countable(l) == reducible[l] /\ \E x \in Blocks : latches[l] = {x}

ClassifyLoops ==
    /\ stage = "classify"
    /\ countable' = [x \in Blocks |-> x \in Range(loops) /\ Countable(x)]
    /\ stage' = "done"
    /\ UNCHANGED <<given, search, found, tree>>

Next ==
    \/ CollectBackEdges \/ MeetOpen \/ MeetClosed \/ MarkDFS \/ Return
    \/ PopulateLoop \/ PlaceBlocks \/ PlaceLoop \/ EndTree
    \/ ClassifyLoops

GetLoopForBlock(x) == innermost[x]

IsLoopHeader(x) == x \in Range(loops)

-----------------------------------------------------------------------------

(***************************************************************************)
(* CollectBackEdges cuts every cycle, whatever the order of the search:    *)
(* without the back edges no reachable block reaches itself.  And it takes *)
(* no more than it must: its target is on the way to a back edge's source, *)
(* and in a reducible graph dominates it.                                  *)
(***************************************************************************)
BackEdgesCutCycles == stage = "populate" /\ loops = <<>> =>
    LET R == ReachableIn(succs, Start)
        Forward == [x \in R |-> {y \in succs[x] : <<x, y>> \notin Range(backEdges)}]
    IN  /\ \A x \in R : x \notin ReachFrom(Forward, Forward[x], R)
        /\ \A e \in Range(backEdges) : e[1] \in ReachFrom(Forward, {e[2]}, R)
        /\ Reducible(succs, Start) => Range(backEdges) = NaturalBackEdges(succs, Start)

(***************************************************************************)
(* Where the header dominates all latches, as it does in every loop called *)
(* countable, the loop is the natural loop of its back edges, also after   *)
(* its inner loops gave it their blocks, and also in a graph that has      *)
(* irreducible loops beside or inside it.                                  *)
(***************************************************************************)
LoopsAreNatural == stage = "done" => \A l \in Range(loops) :
    LET natural == \A x \in latches[l] : DominatesIn(succs, Start, l, x)
    IN  /\ countable[l] => natural
        /\ natural => blocks[l] = NaturalLoop(succs, Start, l, latches[l])

(***************************************************************************)
(* In a reducible graph the tree is nesting: the loops around a loop are   *)
(* those its header is in, they hold all its blocks, two other loops share *)
(* no block, and a block's loop is the smallest it is in.  In any graph a  *)
(* loop is never around itself, and a header's own loop is its innermost.  *)
(***************************************************************************)
TreeIsNesting == stage = "done" =>
    /\ \A l \in Range(loops) : l \notin Around(l) /\ GetLoopForBlock(l) = l
    /\ Reducible(succs, Start) =>
        /\ \A l, m \in Range(loops) : l # m =>
              /\ m \in Around(l) <=> l \in blocks[m]
              /\ m \in Around(l) => blocks[l] \subseteq blocks[m]
              /\ l \in Around(m) \/ m \in Around(l) \/ blocks[l] \cap blocks[m] = {}
        /\ \A x \in Blocks :
              LET In == {l \in Range(loops) : x \in blocks[l]}
              IN  IF In = {} THEN GetLoopForBlock(x) = None
                  ELSE GetLoopForBlock(x) \in In
                       /\ In = {GetLoopForBlock(x)} \cup Around(GetLoopForBlock(x))

=============================================================================
