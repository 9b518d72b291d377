------------------------------ MODULE Liveness ------------------------------
(***************************************************************************)
(* LivenessAnalyzer::Analyze (analysis/liveness_analyzer.cpp): one pass    *)
(* over the blocks from the last to the first, that builds the interval of *)
(* each value.  Values do not touch each other's live sets or intervals,   *)
(* so the model follows one: its definition, its uses, its interval.       *)
(*                                                                         *)
(* Blocks are named by their place in the linear order.  A block that      *)
(* several edges enter begins with a phi; then come BodySize instructions  *)
(* and the terminator.  The graph is reducible, the case the algorithm is  *)
(* published for (section 4.3 of the paper).  An argument is not followed: *)
(* it is in no block, and the allocator asks for no interval of it.        *)
(***************************************************************************)
EXTENDS LiveInterval, FlowGraph

CONSTANTS
    NumBlocks,
    BodySize    \* instructions of a block, beside its phi and its terminator

ASSUME LivenessAssumption == NumBlocks \in Nat \ {0} /\ BodySize \in Nat

Blocks == 1 .. NumBlocks

VARIABLES
    succs,      \* the successors of each block
    def,        \* the instruction that defines the value: <<block, slot>>
    uses,       \* the instructions with the value among their inputs
    phiUses,    \* the edges whose phi input is the value: <<predecessor, block>>
    next,       \* the block ProcessBlock takes next
    liveIn,     \* live_in_sets: whether the value is in a block's set
    ranges      \* the value's interval

program == <<succs, def, uses, phiUses>>
vars == <<program, next, liveIn, ranges>>

-----------------------------------------------------------------------------
(* The instructions. *)

Phis(x) == IF x # 1 /\ Cardinality(PredsIn(succs, x)) > 1 THEN 1 ELSE 0

Size(x) == Phis(x) + BodySize + 1

Slots == UNION {{<<x, k>> : k \in 1 .. Size(x)} : x \in Blocks}

IsPhi(i) == i[2] <= Phis(i[1])

IsTerminator(i) == i[2] = Size(i[1])

DefBlock == def[1]

DefinedByPhi(x) == DefBlock = x /\ IsPhi(def)

\* The graph is reducible, and the order one in which only back edges go back, as
\* in a reverse postorder.
LinearOrder ==
    /\ Reducible(succs, 1)
    /\ \A x \in 2 .. NumBlocks : \E p \in 1 .. (x - 1) : x \in succs[p]
    /\ \A x \in Blocks : \A y \in succs[x] : y <= x => <<x, y>> \in NaturalBackEdges(succs, 1)

\* The definition dominates each use; a phi uses its input on the edge.
StrictSSA ==
    /\ ~IsTerminator(def)
    /\ \A u \in uses : ~IsPhi(u) /\ IF u[1] = DefBlock THEN u[2] > def[2]
                                    ELSE DominatesIn(succs, 1, DefBlock, u[1])
    /\ \A e \in phiUses : /\ e[2] \in succs[e[1]] /\ Phis(e[2]) = 1
                          /\ DominatesIn(succs, 1, DefBlock, e[1])

Init ==
    /\ succs \in [Blocks -> SUBSET Blocks]
    /\ LinearOrder
    /\ def \in Slots
    /\ uses \in SUBSET Slots
    /\ phiUses \in SUBSET (Blocks \X Blocks)
    /\ StrictSSA
    /\ next = NumBlocks
    /\ liveIn = [x \in Blocks |-> FALSE]
    /\ ranges = <<>>

-----------------------------------------------------------------------------
(* NumberInstructions: every instruction takes two positions. *)

BlockStart(x) ==
    LET from[y \in Blocks] == IF y = 1 THEN 0 ELSE from[y - 1] + 2 * Size(y - 1)
    IN  from[x]

BlockEnd(x) == BlockStart(x) + 2 * Size(x)

Position(i) == BlockStart(i[1]) + 2 * (i[2] - 1)

-----------------------------------------------------------------------------
(* ProcessBlock *)

\* The input of a successor's phi is taken for this edge's whatever edge it is for.
LiveOutOfAnyEdge(x) ==
    \/ \E s \in succs[x] : liveIn[s]
    \/ \E e \in phiUses : e[2] \in succs[x]

\* In the live-in set of a successor, or the input of its phi on this edge.
LiveOut(x) ==
    \/ \E s \in succs[x] : liveIn[s]
    \/ \E e \in phiUses : e[1] = x

\* A definition does not take the value out of the live set.
VisitWithoutErase(state, i) ==
    LET defined == IF i = def
                   THEN [state EXCEPT !.ranges = SetStart(@, Position(i))]
                   ELSE state
    IN  IF i \in uses
        THEN [live |-> TRUE, ranges |-> AddRange(defined.ranges, BlockStart(i[1]), Position(i))]
        ELSE defined

\* An instruction that is no phi, on the way back through the block.
Visit(state, i) ==
    LET defined == IF i = def
                   THEN [live |-> FALSE, ranges |-> SetStart(state.ranges, Position(i))]
                   ELSE state
    IN  IF i \in uses
        THEN [live |-> TRUE, ranges |-> AddRange(defined.ranges, BlockStart(i[1]), Position(i))]
        ELSE defined

WalkBack(x, state) ==
    LET last == Size(x) - Phis(x)
        after[k \in 0 .. last] ==     \* the state when the last k instructions are visited
            IF k = 0 THEN state ELSE Visit(after[k - 1], <<x, Size(x) - k + 1>>)
    IN  after[last]

VisitPhi(x, state) ==
    IF DefinedByPhi(x) THEN [live |-> FALSE, ranges |-> SetStart(state.ranges, BlockStart(x))]
    ELSE state

\* Loops as the Loops module shows them to be found.
Latches(x) == {p \in Blocks : <<p, x>> \in NaturalBackEdges(succs, 1)}

IsLoopHeader(x) == Latches(x) # {}

\* The end of the last latch.
EndOfLatches(x) == Max({BlockEnd(y) : y \in Latches(x)})

\* The last end of any block of the loop, for the loop need not be contiguous.
LoopEnd(x) == Max({BlockEnd(y) : y \in NaturalLoop(succs, 1, x, Latches(x))})

ExtendOverLoop(x, state) ==
    IF IsLoopHeader(x) /\ (state.live \/ DefinedByPhi(x))
    THEN [state EXCEPT !.ranges = AddRange(@, BlockStart(x), LoopEnd(x))]
    ELSE state

ProcessBlock ==
    /\ next > 0
    /\ LET x == next
           out == [live |-> LiveOut(x),
                   ranges |-> IF LiveOut(x) THEN AddRange(ranges, BlockStart(x), BlockEnd(x))
                              ELSE ranges]
           in == ExtendOverLoop(x, VisitPhi(x, WalkBack(x, out)))
       IN  /\ liveIn' = [liveIn EXCEPT ![x] = in.live]
           /\ ranges' = in.ranges
    /\ next' = next - 1
    /\ UNCHANGED program

Done == next = 0 /\ UNCHANGED vars

Next == ProcessBlock \/ Done

Spec == Init /\ [][Next]_vars

-----------------------------------------------------------------------------
(* Liveness by paths: a use is reached without going through the           *)
(* definition again.                                                       *)

ReachesUse ==
    LET exposed == {u[1] : u \in uses} \cup {e[1] : e \in phiUses}
    IN  ReachFrom([x \in Blocks |-> PredsIn(succs, x)], exposed \ {DefBlock}, Blocks \ {DefBlock})

\* The instructions beyond which the value is needed.
LiveAfter ==
    LET reaches == ReachesUse
    IN  {i \in Slots :
            /\ i[1] = DefBlock => i[2] >= def[2]
            /\ \/ \E u \in uses : u[1] = i[1] /\ u[2] > i[2]
               \/ succs[i[1]] \cap reaches # {}
               \/ \E e \in phiUses : e[1] = i[1]}

(***************************************************************************)
(* The ranges are sorted and apart at every point of the analysis: a       *)
(* definition found by the walk never lies beyond the first range, which   *)
(* SetStart would turn inside out.                                         *)
(***************************************************************************)
RangesApart == ranges \in Seq(LiveRange) /\ Apart(ranges)

(***************************************************************************)
(* The single pass misses nothing: after every instruction the value is    *)
(* needed beyond, on any path, around any loops, the interval holds both   *)
(* positions of that instruction, so whatever is defined there conflicts;  *)
(* and so it holds the position of the definition itself, used or not.     *)
(***************************************************************************)
CoversLiveness == next = 0 =>
    /\ \A i \in LiveAfter :
          IsLiveAt(ranges, Position(i)) /\ IsLiveAt(ranges, Position(i) + 1)
    /\ IsLiveAt(ranges, IF IsPhi(def) THEN BlockStart(DefBlock) ELSE Position(def))

\* The headers of the loops up to whose end the value is kept.
KeptThrough ==
    LET reaches == ReachesUse
    IN  {h \in Blocks : IsLoopHeader(h) /\ (DefinedByPhi(h) \/ (h # DefBlock /\ h \in reaches))}

(***************************************************************************)
(* Nor is the interval longer than it must be, which would take registers  *)
(* from others: it holds an instruction only if the value is needed beyond *)
(* it, is defined by it, or is kept through a loop around it.  A phi's     *)
(* input is on the edge it comes over and on no other.                     *)
(***************************************************************************)
HoldsNothingElse == next = 0 =>
    LET live == LiveAfter
        kept == {<<BlockStart(h), LoopEnd(h)>> : h \in KeptThrough}
        Needed(i) == i \in live \/ \E k \in kept : k[1] <= Position(i) /\ Position(i) < k[2]
    IN  \A i \in Slots :
            /\ IsLiveAt(ranges, Position(i)) => i = def \/ Needed(i)
            /\ IsLiveAt(ranges, Position(i) + 1) => Needed(i)

(***************************************************************************)
(* The interval starts where the value is defined, which is what the       *)
(* allocator's order of intervals takes for granted, and nothing is live   *)
(* on entry to the graph.                                                  *)
(***************************************************************************)
StartsAtDefinition == next = 0 =>
    /\ ~liveIn[1]
    /\ ranges[1].start = IF IsPhi(def) THEN BlockStart(DefBlock) ELSE Position(def)

=============================================================================
