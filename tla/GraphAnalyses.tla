---------------------------- MODULE GraphAnalyses ----------------------------
(***************************************************************************)
(* The dominator tree with two of its readers: once BuildDominatorTree has *)
(* returned, either LoopAnalyzer::Analyze goes on with what it found, or   *)
(* EliminateDominatedChecks does, on some small program.                   *)
(***************************************************************************)
EXTENDS DominatorTree

CONSTANTS
    Programs,   \* the programs to eliminate checks from
    Size        \* bound: blocks reached and instructions, together

ASSUME NumbersAssumption == None \notin Nat

\* Programs are lists of instructions, each in some block of the order.
ASSUME ProgramsAssumption == \A p \in Programs :
    /\ Len(p) \in Nat /\ DOMAIN p = 1 .. Len(p)
    /\ \A i \in DOMAIN p : p[i].at \in Nat \ {0}

VARIABLES
    stage, calls, left, counter, number, exit, backEdges, loops, reducible, latches, blocks,
    outer, countable, innermost, place,         \* LoopAnalyzer
    code, phase, walked, toRemove, gone         \* ChecksElimination

loopVars == <<stage, calls, left, counter, number, exit, backEdges, loops, reducible, latches, blocks,
              outer, countable, innermost, place>>
checkVars == <<code, phase, walked, toRemove, gone>>
allVars == <<vars, loopVars, checkVars>>

L == INSTANCE Loops
C == INSTANCE DominatedChecks

AnalysesInit == Init /\ L!Init /\ C!Init

BuildDominatorTree == Next /\ UNCHANGED <<loopVars, checkVars>>

Analyze == pc = "done" /\ phase = "idle" /\ L!Next /\ UNCHANGED <<vars, checkVars>>

\* Edges between blocks that are not reached change nothing: one such graph is enough.
StartChecks ==
    /\ pc = "done" /\ stage = "idle" /\ phase = "idle"
    /\ \A x \in Blocks \ Range(order) : succs[x] = {}
    /\ \E p \in Programs :
        /\ Len(order) + Len(p) = Size
        /\ \A i \in DOMAIN p : p[i].at <= Len(order)
        /\ C!EliminateDominatedChecks(p)
    /\ UNCHANGED <<vars, loopVars>>

EliminateChecks == (C!Visit \/ C!RemoveInstructions) /\ UNCHANGED <<vars, loopVars>>

AnalysesNext == BuildDominatorTree \/ Analyze \/ StartChecks \/ EliminateChecks

\* BuildDominatorTree is one call that nothing interrupts.
AnalysesSpec == AnalysesInit /\ [][AnalysesNext]_allVars /\ WF_vars(Next)

(***************************************************************************)
(* What BuildDominatorTree hands on: Dominates answers as the definition   *)
(* of dominance does, for every reachable block.                           *)
(***************************************************************************)
DominatesIsDominance == pc = "done" /\ stage = "idle" /\ phase = "idle" => \A x \in Reachable :
    {d \in Blocks : Dominates(d, x)} = {x} \cup StrictDominators(x)

\* CollectBackEdges cuts every cycle and no more: see Loops.
BackEdgesCutCycles == L!BackEdgesCutCycles

\* A loop with a dominating header is the natural loop of its back edges: see Loops.
LoopsAreNatural == L!LoopsAreNatural

\* The tree of the loops of a reducible graph is nesting: see Loops.
TreeIsNesting == L!TreeIsNesting

\* A removed check is made up for on every path to it: see DominatedChecks.
RemovedIsCovered == C!RemovedIsCovered

\* No check is left that another instruction makes needless: see DominatedChecks.
NothingLeftToRemove == C!NothingLeftToRemove

=============================================================================
