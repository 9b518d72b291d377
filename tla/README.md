# A TLA+ model of the JIT/AOT intermediate representation

This directory models the compiler middle end in `src/src/ir`: an SSA graph of
basic blocks, the analyses over it, and the passes that change it, up to a
linear scan register allocator. The program is sequential. Nothing in it is
hard because of threads or messages; it is hard because several passes edit
one pointer structure in place, because fixpoints and scans must be right for
every graph and every order of its edges, and because values computed earlier
(an order, an interval, a predecessor's position, a use record) are used after
the graph has changed.

Contents: [the system](#the-system), [modules](#modules),
[runs](#runs-and-bounds), [fairness](#fairness), [proofs](#proofs),
[disagreements with the documents](#disagreements-with-the-documents),
[what is not modelled](#what-is-not-modelled), [the plan](#the-plan).

## The system

| part | state it keeps | operations | correct when |
|---|---|---|---|
| Instruction lists (`basic_block.*`, `graph.cpp`) | `first_inst_`, `last_inst_` of a block; `prev_`, `next_`, `basic_block_` of an instruction | `PushBackInstruction`, `InsertBefore`, `RemoveInstruction`, `SplitAt`, `CreateBasicBlock` | the pointers agree, and a block's list is the sequence the calls describe |
| Edges and phi inputs (`basic_block.cpp`, `ir_builder.cpp`, `PhiInst`) | `predecessors_`, `successors_`, the phi's `inputs_` by predecessor position | `CreateJump`, `CreateBranch`, `ReplacePredecessor`, `RemovePredecessor`, `ClearSuccessors`, `AddIncoming` | an edge is in both lists equally often, and input k of a phi belongs to predecessor k |
| Def-use records (`graph.cpp`, `instruction.*`) | a list of `User` records per definition, `inputs_` per user | `RegisterUse`, `SetInput`, `ReplaceAllUsesWith` | each non-null input has its record; no record of an input that has changed is acted on |
| IR builder (`ir_builder.*`) | `insert_bb_`, `insert_before_`, the id counters | `SetInsertPoint`, `Create...` | a new instruction lands in the block and at the place asked for |
| Block order and dominators (`graph_analyzer.*`, `linear_order.*`) | `reverse_postorder_`, `rpo_numbers_`, `immediate_dominators_` | `ComputeRPO`, `BuildDominatorTree`, `Dominates`, `GetImmediateDominator` | the order is a reverse postorder; the answers are dominance as defined on paths |
| Loops (`loop_analyzer.*`, `loop.*`) | loops, latches, blocks, the loop tree | `Analyze` | a loop's blocks are those that reach a latch without leaving through the header; the tree is nesting |
| Liveness (`live_interval.*`, `liveness_analyzer.*`) | instruction numbers, ranges of each interval, live-in sets | `Analyze`, `AddRange`, `SetStart` | every position at which a value may still be used is in its interval |
| Loop bounds (`bounds_analysis.*`) | init, step, test, condition of each countable loop | `Run`, `GetLoopBounds` | the recorded bounds describe every iteration |
| Checks elimination (`checks_elimination.*`) | the set of checks to remove | dominated, redundant and must-throw checks | a removed check could not have failed where it stood |
| Register allocator (`register_allocator.*`) | `intervals_`, `active_`, `free_regs_`, `stack_offset_`, instruction locations | `Run`, `ResolvePhis`, `SpillFillInstructions` | values live together have different places; the moves make the phi functions' parallel copy; every operand is in a register |
| Inliner (`inliner.*`) | maps from callee blocks and instructions to their clones | `Run`, `InlineCall` | the clone refers to nothing of the callee, and uses of the call get the returned value |
| Peephole optimizer (`peephole_optimizer.*`) | none of its own | `Run`, `TryFold` | a replacement computes the same value |

How they interact: the builder and the passes call the list, edge and use
operations directly, one complete call at a time. The liveness analysis asks the graph
analyzer for the order and the loop analysis for headers; the allocator asks
the liveness analysis for intervals, assigns locations, then edits the graph
through a builder. Checks elimination uses dominance, loops and bounds. There
are no callbacks and nothing is persistent; a graph is single-owner.

The behaviours that are hard: order (of successors, predecessors, equal sort
keys, phi moves), fixpoints and their termination, limits (registers,
reserved registers, slots), boundaries (intervals that touch, lists of one,
splits at either end), and stale facts (insertion points, positions of
predecessors, use records). `PROJECT.json` lists them as hazards, each at its
line.

## Modules

### Register allocator: assignment

`RegisterAssignment` is the promise: every interval gets a register beside
intervals it is apart from, or a fresh stack slot; it may later lose its register
to another interval. It knows no order and no heuristics.

`LinearScan` is the main loop of `RegisterAllocator::Run` over sets. An
interval is its hull, because that is all the loop looks at
(`GetRanges().front().start`, `GetRanges().back().end`). One action is one
iteration, expiry included: `AllocateRegister`, `SpillBack` (the victim is
`active_.back()`), `SpillCurrent`. `pending` are the intervals not yet reached;
the least start among them comes next, since `std::sort` is not stable.
`free` is `free_regs_` (its least element is handed out), `location` the
location of each instruction, `stackOffset` the counter whose negative
is the slot. The fall-back in `AllocateRegister` for an empty `free_regs_` is in
`MustSpill`; that it is dead code is a property (`RegisterPartition`). It
implements `RegisterAssignment`.

`RegisterAllocator` has the vectors: `intervals_` collected in linear order
and sorted once to any sorted arrangement, `active_` a sequence kept by
`std::lower_bound`, so which of several equal ends is at the back is decided
as in the code. It implements `LinearScan`
(`pending` is the rest of `intervals`, `active` the range of the vector).

### Register allocator: phi resolution

`PhiMoves` is `ResolvePhis` on one edge. The initial states are all allocations and
phi inputs that are valid (`AllocationIsValid`): phis live together where their block begins,
their inputs live together where the predecessor ends, a stack slot is nobody else's, and on
a back edge the phis of the header are live where the predecessor ends, too. A valid allocation may still give a
phi the register of another phi's input, which `ResolvePhis` does not see;
`ConflictsAreSeen` says that where one move writes a place and another reads it, the place is the
register of the phi that is read, so that comparing instructions is enough. `pending` are the moves not yet
emitted, by the instructions they name, as in the code. `contents` executes
the emitted moves: it says whose value each place holds. `EmitMove` takes out and emits a
ready move. The code collects the ready moves of a scan before it emits them;
whether one is ready depends on the pending ones alone, so the emitted sequence is
one the model has. `BreakCycle` saves a source in the reserved register
when nothing is ready.

### Register allocator: spill and fill

`SpillFill` goes on where `PhiMoves` ends, with the rest of
`RewriteAndInsertSpillFill`: `SpillFillInstructions` gives each instruction its
spilled inputs in reserved registers, loaded right before it. `machine` executes the
final code of the end of a block: reload, move, reload, move, and last the terminator, whose
inputs are any sequence of `Tails`. `PhiMoves` has the moves alone
(`contents`), so the two can be compared place by place. `Reloads` gives each spilled
input the register its first position takes, `MetBefore` being the order in which the loop meets
them. `FilledMove` and
`FilledBreak` are a step of `PhiMoves` with its reload; `FillTerminator` is the
terminator with its own, or the exception. An instruction whose location is
on the stack writes there, so the store that the code puts behind it writes what is
already there and is no step.

### Dominators

`DominatorTree` goes from `ComputeRPO` to the end of `BuildDominatorTree`: the
depth first search with its call stack, the reversal, the passes over the
blocks, and the two fingers, one step of a finger an action. Edges are sets: the
order of a block's lists is a choice of the action, so every order is covered;
a duplicate edge does nothing new in this code. `Dominates` and
`GetImmediateDominator` are operators on the final state. The reference is the
definition on paths: d dominates x when x cannot be reached without d.

`GraphAnalyses` composes it with two of its readers, `Loops` and
`DominatedChecks`: both take `succs`, `order` and `idom` as the fixpoint left
them, so what they rely on is what `BuildDominatorTree` computed in that very run, and a mistake there
would show in their properties too.

### Instruction lists

`BlockSeq` says what the lists are to their users: a sequence per block.
`InstructionList` has the five pointer fields and one action per call, with
each of its paths (first element or not, split at the first, in the middle,
after the last). `SplitAt`'s relabelling loop walks from the split point along
`next_`; what it visits is `From`, the least set closed under `next_`, so that
the module has no recursion where it is proved about. Callers insert an
instruction that is in no list, before one that is listed, which is how every
pass calls them but one (see the hazard at `basic_block.cpp:23`).

### Edges and phi inputs

`ControlFlow` has the two edge lists of each block, in their order and with
their duplicates, and the inputs of one phi (phis do not touch each other). An input
is known by the predecessor it was added for, and a split renames that predecessor, so
"input k belongs to predecessor k" can be stated. One action per call:
`CreateBasicBlock`, `CreateJump`, `CreateBranch`, `AddIncoming`,
`SplitAt`, `ClearSuccessors`, and `ConnectCFG`, the inliner's clone of the whole
graph (`PatchClonedInstructions` and `ConnectCFG`). What the code does edge by edge in a loop is
an operator on all lists: `Enter` puts a block at the end of each target's list as
often as it is a target, `Leave` erases it from one target after another,
`EnteredAnew` enters the blocks of the clone in list order. `cut` remembers which
blocks must-throw elimination has left without a way out, `inlined` whether the
graph is a clone: the properties say what holds without either and what
is lost with each. `SplitAt` moves instructions in `InstructionList` and edges here;
the two halves share no state.

### Loops

`Loops` is `LoopAnalyzer::Analyze`: the recursive search with its stack, its
counter and the entry and exit numbers it gives (`None` before), a round of `PopulateLoops` per back edge, the two parts
of `BuildLoopTree`, `ClassifyLoops`. A loop is named by its header and the root
loop by `None`. Dominance is asked of the tree that was built. `Closest` is the loop over the
loops so far that keeps the innermost one with the block in it. `FlowGraph` has the
textbook definitions on paths: reachability (the least set that is closed under the edges),
dominance, back edges, reducible graphs, natural loops. Neither has a recursive operator.

### Live intervals and liveness

`LiveInterval` has `AddRange`, `SetStart` and `IsLiveAt` as operators on a
sequence of ranges.
`Liveness` is the backward pass of `LivenessAnalyzer` for one value (values meet
neither in live sets nor in intervals): its definition, uses by instructions, uses by phis
on edges. One action processes one block with everything `ProcessBlock` does
there: live-out, phi inputs, the walk over the instructions, phis,
the extension over a loop. `AddRange` keeps the ranges before the new one, the ones it reaches
merged into one, and the ranges after; the walk over a block's instructions is a function of how many
have been visited. Blocks are numbered by their place in the linear
order, any order in which only back edges go back. Only reducible graphs: the paper's algorithm (section
4.3) is published for those and the code has no other. An argument is in no block, and
the allocator asks for no interval of it.

### Dominated checks

`DominatedChecks` is `EliminateDominatedChecks` for the uses of one value: null
checks, loads and stores of a pointer, or bounds checks of an index against two
lengths. The walk over the reverse postorder visits one instruction a step. The records of
uses are gone through in any order, and since the loop over them stops at the first
that dominates the check, what it had marked by then is any part of what it could mark.
`RemovedIsCovered` asks on paths, not of the tree, whether an instruction that stays makes up
for a removed one. A store of the pointer itself is an exception there: the code takes
it for an access through the pointer.

### Inliner and peephole optimizer

`UseDef` has a graph as a value: instructions with opcode, inputs and
records of uses, blocks with their instructions and edges, and the
operations of builder, block and instruction as functions from graph to graph. The
pointers below are `InstructionList`'s, the edges in all their orders
`ControlFlow`'s. A removed or cloned instruction keeps or lacks its records as in the code: `RemoveInstruction`
leaves the removed user on record, a clone is linked without registering its
uses.

`Inliner` is `InlineCall`, one operator per function of `inliner.cpp`. An instruction
of the callee that is not mapped when it is needed stays what it is, an instruction of
another graph, here a negative number. `Peephole` is `TryFold`: constants
in words of `FullWidth` bits whatever the type, and what is built goes to
the end of the block, behind its terminator.

`Passes` runs both: `InlineNextCall` for each of the calls that were collected before
the first was inlined, then rounds over all instructions (`PassOver`, `Fold`, `NextBlock`,
`NextRound`). `FoldUndefined` folds a shift that C++ leaves undefined to
any constant. `Result` is the meaning of a graph, the semantics of the compiled program and
marked external: the value its RET returns for given arguments in words of `TypeWidth`
bits, or that it deoptimizes. A value depends on its inputs alone, so `Result` does not see
where in a block an instruction stands; that is `WellPlaced`'s question.

The programs are those the builder makes in list order: an instruction comes
after what it reads except for phis, a call after the calls it uses, a
block after its dominators, and the predecessors of a callee's block in the order of
the block list (other orders are the second case of "Phi inputs by position" below); blocks end
in terminators, a RET has a value, calls have their return type set and do not recurse.
Outside of these the code goes wrong in ways that are plain from it: a clone
of a block that is listed before one that dominates it keeps inputs of the callee, an inlined graph that calls
itself grows while it is cloned, and a call without a return type makes
its sums VOID, which `Run` never passes over.

### Loop bounds and redundant checks

`LoopBounds` puts together `AnalyzeLoop`, the decision
`always_in_bounds` of the checks elimination, and a run of the loop they
decide about, on words of any width (`SignBit` is the weight of their highest bit): a loop is a record (where it is
tested, code, side of the phi, target that leaves, first value, step, which
operands are constants, where the check stands and of which phi). The run is the
semantics of the compiled loop, so it is marked external; what it shows is
whether a check that the decision removes would have failed. `AlwaysInBounds` is the
decision as it stands, `step > 0` on an unsigned word included: a step of -1 passes.
`RemovedFromBodyHolds` says what can come of it (`CountsUp`), `RemovedIsRedundant` what should.

## Runs and bounds

| run | bounds | shows |
|---|---|---|
| `linear_scan` | five intervals, ends 0..4, four registers of which two are reserved | no conflict, even by touching; registers are partitioned, so the size test is right; spills only under pressure; the victim ends last; implements `RegisterAssignment` |
| `register_allocator` | four intervals in any order, ends 0..4, four registers | `active_` sorted; implements `LinearScan`; every interval gets a location |
| `spill_fill` | valid allocations with `ConflictsAreSeen`: four phis, one of them spilled or none, two other values, five registers, two slots, one to three inputs of the terminator; places fixed up to renaming | no value lost; one value saved at a time; the scan ends; reloads are seen by no move; the terminator reads its inputs, or the new value of a moved phi that lives in an input's place |
| `phi_moves_shared` | three phis, two other values, three registers, a slot | a violation, below |
| `graph_analyses` | every graph of four blocks, at most two successors each, up to renaming, any order of the searches; two or three instructions on one value, so that they and the blocks reached are six | reverse postorder; fingers stay on the tree; no dominator lost; idoms only climb; the answers are dominance; it ends; back edges cut every cycle and no more than they must; loops are natural loops wherever their header dominates, beside irreducible ones too; the tree is nesting; a removed check is made up for on every path; no needless check stays |
| `instruction_list` | three blocks, four instructions | pointers agree; walks end at the last; implements `BlockSeq` call by call |
| `control_flow` | three blocks, any calls | an edge is in both lists equally often; phi inputs stay with their predecessors while nothing is cut off or cloned, and of two edges from one block the first has the input, where `AddIncoming` and `ResolvePhis` look |
| `control_flow_inputs` | the same | a violation, below |
| `liveness` | every reducible graph of four blocks in every linear order, an instruction beside phi and terminator, two uses | ranges sorted and apart; the interval covers liveness by paths, and nothing but it and the loops a value is kept through; it starts at the definition |
| `loop_bounds` | words of three bits, every code, limit and length, first values 0, 1, -1, steps 1, 3, -1 | the recorded condition holds in the body, and of a test in the latch it is the branch to the true side; a check of the tested phi that is removed from the body fails only below zero, after counting down or wrapping |
| `loop_bounds_redundant` | the same | a violation, below |
| `passes` | 1728 callers of two calls each; constants of three bits, values of two; callees of one to four blocks | the program returns what it did; every use is on record but those of clones; inlined code comes before what reads it; the rounds end |

Why the bounds are enough to be interesting: with two usable registers, three
overlapping intervals force a spill and five allow a spill, an eviction, an
expiry and a reuse in one run, with ties on starts and on ends. Four phis make
two disjoint swaps, a cycle of three with a chain into it, and a cycle of four.
Four blocks with out-degree two hold the smallest irreducible loop, nested
loops, unreachable predecessors and graphs that need a second pass. Three
blocks and four instructions allow a split of each half of a split list, and
lists of every length below five; three blocks also make double edges, loops of
one block that are split, and phis of three predecessors. In the liveness
run four blocks hold nested loops, a loop whose last block in the order is not its latch, and an exit
out of both; two uses put one use before and one after a loop, or one on each of two
paths. The four blocks and the instructions on one value share a bound: three
instructions on up to three blocks, in every way and on a diamond's arms, or two on four.
The callers of `passes` make the optimizer do each of its folds, undefined shifts included,
meet a call that reads what another returned from two blocks or through a phi, a
phi that is cloned before its inputs are, and a callee that never returns; values of two
bits under constants of three tell a word of the type from the word it is folded
in. `2 ^ TypeWidth` is at least `FullWidth`, as it is in the code for the types that have
arithmetic (2^32 and 64): a shift that is too far for the word can be written in the type.
On words of three bits a step of three wraps after one iteration, and
every length is met from below and above. The cases `NumTotalRegs <= 2`, in which `Run` returns
at once, are in the proofs, which hold for every number.

Each property has a mutant: an operator beside the definition it replaces that
makes a plausible mistake there (`>` for `>=`, a link that is not updated,
a guard that is dropped). TLC finds the property violated with it.

Deadlock is checked in every run but those of `ControlFlow`. A call that has returned stutters by an
explicit action (`Finish`, `Done`, `Finished`, `Exited`). `ControlFlow` is a library whose callers
may come to the end of the blocks that `Blocks` provides, all of them closed: nothing
has to happen then.

## Fairness

`RegisterAllocator`, `SpillFill` and `GraphAnalyses` (of the steps of `DominatorTree`) assume weak fairness of
their next-state action, and so does `Passes`, where it is written out because TLC would
evaluate whole passes to decide ENABLED: each models calls of a sequential program, which
run until they return. Nothing is assumed of which of several enabled steps is
taken. The other modules assume no fairness: `LinearScan` is what `RegisterAllocator` implements,
`InstructionList` and `ControlFlow` are libraries that
nobody has to call, and what is said of `Loops`, `DominatedChecks`, `Liveness` and `LoopBounds` is
safety.

## Proofs

All theorems hold for every value of the constants that meets the
assumptions: finitely many intervals, phis, blocks or instructions, positions in `Nat`, a positive weight
of a word's highest bit, and names that are told apart.

`LinearScanProofs`. What the runs check is not inductive. The invariant adds:
a register's holder that is not active ended before the start of every pending
interval (so an assignment can conflict with active intervals only); each
active interval started no later than every pending one; registers not free
are held by exactly one active interval (so, by counting, the size test
decides); and every slot given is a multiple of eight between `-stackOffset`
and 0 (so the next is fresh). From it: `NoConflict`, `RegisterPartition`,
`SpillOnlyUnderPressure` (at a spill the active intervals and the current one
are all live at its start and outnumber the registers), `FurthestEndSpilled`,
and that each step is a step of `RegisterAssignment` or a stutter.

`RegisterAllocatorProofs`, for `Intervals = 1 .. n`. The invariant: `intervals_` has every
interval once, in order of start once sorted (sorted at each pair of neighbours is sorted);
`active_` is sorted by end without repetition, with lemmas that appending in
`ExpireOldIntervals`, inserting at the `lower_bound` and dropping the back keep it so; and the sets of both satisfy
the invariant of `LinearScan`, which is what makes `back()` safe: a spill finds `active_`
not empty. So each iteration is one of `LinearScan` (`VectorsImplementSets`), and what is proved there holds of
the vectors: `AllocationIsValid`, `RunSpillsWhenForced`, and down to `RegisterAssignment`
(`RunKeepsThePromise`).

`SpillFillProofs`, first on `PhiMoves` alone. For every valid allocation there is one pending move at most for each
phi, reading that phi's input or the reserved register, and at most one of the latter
(`PendingMovesInvariant`). The step that
breaks a cycle needs an argument by counting: when nothing is ready each
pending phi is read by a pending move; were one of the n moves reading the
reserved register, n - 1 moves would read n phis. So the reserved register is
free whenever it is written, and one is enough for any number of cycles (`OneTempIsEnough`). This
asks nothing of the allocation. That no value is lost does: under `ConflictsAreSeen` the
emitted moves are the parallel copy (`NoValueIsLost`, `MovesAreAParallelCopy`). The code does not
guarantee `ConflictsAreSeen`, and without it the claim is false (`phi_moves_shared`).

Then on `SpillFill`, under `ConflictsAreSeen` again and `FillAssumption` (the second reserved
register is one more place). The
reserved register serves the reloads and the broken cycles, and no instruction says
which. The invariant adds: from the break of the first cycle on, no pending move reads
the stack. For when nothing is ready each pending phi is read by a pending move, by the count
above, so each pending move reads a phi, and one that is in a
register, since only those wait. So no reload comes between the save and the move that reads it
(`ReloadsAreInvisible`), and the final code makes the parallel copy. Of the terminator, with any
number of inputs, spilled or repeated, it is proved that it reads each input, or the new value of a moved
phi that has taken the input's place (`TerminatorReadsItsInputs`): the second is what the code does and no
branch wants. That each step is a step of `PhiMoves` or a stutter needs no condition.

`InstructionListProofs`. `WellLinked` alone does not exclude a circle. The
strengthening says that a set closed under `next_` with an instruction of a
block in it holds the block's last instruction. It is inductive because each call
changes `next_` at one or two places, and it gives that what `SplitAt` relabels
is everything behind the split point and nothing before it.

On it rests that the pointers implement `BlockSeq` (`ListsImplementSequences`). A walk is a recursive
function, and induction on it is replaced by two facts: of each block there is
exactly one sequence of instructions that begins with `first_inst_`, follows `next_` and ends
where `next_` is null (two such sequences would part at a least place), and the
walk is that sequence, for it goes on while `next_` is not null, no instruction comes
twice (the first of two would have a predecessor that does, too), and there are no more
places than instructions. It has every instruction of the block, since those it lacked would be
a closed set without the last one. So for each call it is enough to name the sequence `BlockSeq`
asks for, with the new instruction inserted, the old one removed or the tail cut off, and to check
it link by link; the other blocks keep theirs.

The module ends with the records of uses, which belong to the instructions of these lists.
`ReplacementIsExact` says of every graph of `UseDef` whose records are exact (each input
of an instruction in a block is on record with what it is an input of, and with nothing else) that
`ReplaceAllUsesWith` rewrites all uses and no other input, and leaves the records exact. A
stale record of an instruction that was removed does no harm. What the inliner clones is not recorded, so this
holds of the graphs as the builder leaves them.

`GraphAnalysesProofs` begins with `DominatorTree`, for any finite graph and every order of its edges. Reachability is the
least closed set and a way up the tree a chain, so nothing is
computed by recursion; where a proof needs induction over the order it takes the least
block that does not have the property. The invariant of the search says that a block that is finished has only
finished or open successors, and that the open calls are a path; so the reversal is a reverse postorder. The invariant
of the fixpoint says that every edge of the tree leads to a smaller number and to a block that the other strict
dominators still dominate, which is why none is lost on the way up (`NoDominatorLost`): a finger moves
away only from what is not among them. When a pass changes nothing, each idom is on the chains of all
predecessors, so what is on the way up dominates: a path around it would have a first block
whose chain it is on. From this: dominance as defined on paths
(`TreeIsDominance`), and that idoms only climb.

Then it uses that theorem for the readers of the tree. What it assumes is
that `None` is no number and that `Programs` is a set of sequences of uses
(`NumbersAssumption`, `ProgramsAssumption`).

- Checks: for each check that is marked something that stays stands before it, in a block that dominates its
  block, and the walk has come to all before it. So what goes is covered
  (`RemovedIsCovered`) and what stays is needed (`NothingLeftToRemove`).
- Back edges: a forward edge, which is one that has been looked at and not taken for a back edge, leads to a block
  that returned before its source or is open above it, so the forward edges have no cycle; a back
  edge goes to an open block from which its source was reached. What dominates a block is entered before it, so in a
  reducible graph the back edges are the edges to a dominator (`BackEdgesCutCycles`).
- Loops: the blocks gathered are what is reached backwards from the latches through blocks that may join. For a header that dominates its latches that is the natural loop, whatever else
  the graph has (`LoopsAreNatural`).
- The tree: two natural loops of a reducible graph are nested or apart, or their headers are one. `Closest` goes
  through the loops in the order found and keeps the innermost so far; the invariant says
  what it has kept after each (`TreeIsNesting`).

`LoopBoundsProofs`, for words of any width. The invariant says that in the body of a loop tested in its
header the test has passed, and that the tested phi, counting up and not wrapped, has not gone
below its first value. Inverting a code negates it and swapping mirrors it; the unsigned ones are mirrored to signed codes,
of which it is shown that they hold of the words (`BoundsDescribeTest`). So the phi is below a limit no greater
than the length, if it is not negative; and it is at least the first value, which is not
negative, unless it has counted down or wrapped (`RemovedFromBodyHolds`).

`LivenessProofs`, for every reducible graph in a linear order, every value and any number of
blocks and instructions. What the runs check is about the end of the pass; the invariant
(`IInv`) says it of each block that has been processed. It has four parts beside the program being
one the pass is for (`ProgramOK`):

- the ranges are sorted and apart, by lemmas on `AddRange` and `SetStart` on any sorted sequence: what is
  merged is exactly what was there and the new range, and a cut moves the first start alone;
- the value is in no live-in set but those of blocks its definition strictly dominates, because it dominates
  each use (`LiveBelowDefinition`);
- the live-in set of a processed block has the value exactly if the block uses it without defining
  it, or a phi takes it over one of its edges, or the live-in set of a successor *further down the
  order* has it (`LiveInKnown`): a back edge says nothing, since its target comes last;
- the points of the interval are exactly those that follow in the processed blocks by that
  rule, and those of the loops whose header has the value in its set or defines it as a phi (`PointsKnown`).

The back edges are what makes the single pass subtle: when a block of a loop is processed, nobody
knows yet that the value is live around it. The header makes up for it, by covering the
loop up to `LoopEnd`; that every block of the loop lies between the header and `LoopEnd` is a lemma on linear
orders of reducible graphs. At the end the blocks with the value in their set, with those of the loops of such
headers, are closed under predecessors up to the definition, so a path that needs the value lies in them
(`PassCoversLiveness`); what `PointsKnown` allows is needed or kept through a loop
(`IntervalHoldsNothingElse`). `BlockStart` and `WalkBack` are recursive functions; a proof takes the
least number at which its claim fails.

`ControlFlowProofs`, for any set of blocks and any sequence of calls. `EdgesAgree` needs that
a block is made once and that no edge names a block before it is made: else a split
could give a new block edges it has already. The rest is counting, with a lemma for what each of
`AddPredecessor`, `ReplacePredecessor` and `RemovePredecessor` does to the number of
times a block is in a list, and a claim about the first `k` edges for each loop of the code. From it
also that no list names a block outside the graph (`EdgesStayInside`). `PhiInputsAligned` needs no more:
predecessors are only added at the end, the first occurrence of one is where its input goes, and a split renames the
predecessor and the input alike, to a block that is no predecessor yet.

Only model-checked, and why:

- every liveness property (`EventuallyAllPlaced`, `AllMovesEmitted`, `Terminates`), which this proof
  system does not reach;
- `Passes` (`ResultPreserved`, `UsesRecorded`, `WellPlaced`): the meaning of a program is a recursive
  operator, the peephole optimizer has the bitwise AND, both out of reach of the provers, and the inliner
  is made of folds, about which one would have to prove by induction over an operator. Only the use
  records under `ReplaceAllUsesWith` are proved, above.

## Disagreements with the documents

**The moves of phi resolution.** `phi_moves_shared` checks `ParallelCopy` over every valid allocation and TLC
finds it violated. `ResolvePhis` (`register_allocator.cpp:174`) lets a move wait
when its target *instruction* is the source of another, and only when the target is in a
register. Two instructions may share a register: a phi may be given the
register that the input of another phi holds until the end of the predecessor,
when that block does not come just before the phi's block in the linear order. Then
the first move overwrites what the second reads. TLC's allocation has x1 in `r0` and x2 in
`r1` where the predecessor ends, and the phis p1, p2, p3 in `r0`, `r1`, `r2`; with p1 and p2 reading x1
and p3 reading x2, the moves are `r1 <- r0`, `r2 <- r1`, and p3 gets x1. A phi on the stack
is never waited for either, though another phi's move may read it on a back edge. `wimmer-linear-scan-ssa.pdf`,
page 6, which the allocator follows, says: "the moves must be ordered properly so
that registers holding incoming values are not overwritten with outgoing
values". A diamond whose second arm carries two values into two phis with
exchanged registers shows it in the program.

**Phi inputs by position.** `control_flow_inputs` finds the
inputs of a phi shifted against its predecessors. `ClearSuccessors`
(`checks_elimination.cpp:62`, `basic_block.cpp:93-98`) erases the block from its
successors' predecessors and nothing erases the phi's input. A phi of
`<<b1, b2>>` whose `b1` must throw has one predecessor left, `b2`, and `b1`'s
input at its position. The paper, page 6, on resolution: "the input operand of the phi
function that belongs to block predecessor is retrieved". The inliner is the
other exception that `PhiInputsAligned` makes: `ConnectCFG` (`inliner.cpp:101-108`)
enters the clone's edges in the order of the callee's block list, and
phi inputs are copied in the order of the callee's predecessors (`inliner.cpp:79-80`),
the order in which its jumps were created. A diamond whose second
arm got its jump before the first is cloned with the inputs of its phi
exchanged.

**Redundant bounds checks.** `checks_elimination_test.cpp` says what redundant means
(line 162, "0 <= phi < 100"; line 202, "NOT redundant: phi can be 50..99").
`loop_bounds_redundant` finds a check that is removed and fails. The code does not ask for three things:

- that the check comes after the test: it asks only that it is in a block of the loop
  (`checks_elimination.cpp:86`), so one in the header, before the test, is removed although it fails in
  the last round. This is TLC's trace: limit and length 0, and the index 0 is checked at once;
- that the index is the phi the bounds are of: it may be any phi of the header (line 91);
- that the phi counts up: `step > 0` (lines 113 and 121) is asked of a `uint64_t` (line 107), so
  -1 passes. With first value 5, step -1, `i < 10` and length 10 the check is removed, and
  the body runs with the index -1. A positive step that wraps does the same.

`RemovedFromBodyHolds` is what is left: in the body, of the tested phi, a removed check fails only
below zero, after counting down or wrapping, and never above. Without that exception TLC
finds the count below zero with first value 0, step -1 and limit and length 1.

Met on the way, without a run of its own: the comment at `bounds_analysis.cpp:81`, "We want
condition to stay inside the loop", is kept for branches of the header only: of a test in the latch
the branch to the true side is recorded, also where that leaves the loop. And an unsigned code is mirrored to
a signed one (`bounds_analysis.cpp:33-36`), which holds of the words and not of the numbers.
`BoundsDescribeTest` says what is recorded in both cases.

The clones of the inliner have no records of their uses, except phis; the exception in
`UsesRecorded` is that. And what the peephole optimizer builds comes after the instructions that read it, and after
the terminator, which `ResolvePhis` then takes something else for
(`register_allocator.cpp:121`); the exception in `WellPlaced` is that.
`SpillFillForInstruction` counts input positions (`register_allocator.cpp:235`), so a CALL
that reads one spilled value three times ends in an exception though one register would do.

The phi inputs by position, the redundant checks, the unrecorded clones and the folds
behind the terminator have been seen in the compiled program, by building such a graph
and looking at it after the pass.

## What is not modelled

Printing and dumping (text only). Reading of inputs, object ownership and
allocation of memory. Instruction identifiers, types and constants' values wherever no
property looks at them.

Of `ResolvePhis`, the edge that the moves for another one run on: a block with two successors
with phis gets the moves of both. Of the must-throw elimination, which
checks it finds and the Deoptimize it puts there (the edges it cuts are in
`ControlFlow`). Of the builder, an insertion point that is kept across other
calls: no pass does so. Of the inliner, a callee without blocks, recursion, and functions
that return nothing.

## The plan

Done: the allocator's assignment, phi resolution, spill and fill; dominators, loops
and dominated checks as one composition; instruction lists; edges and phi inputs;
use records, inliner and peephole optimizer; intervals and liveness; loop bounds.

Proved: the allocator's assignment, phi resolution with spill and fill, the instruction lists (and
that they implement sequences), dominators, loops and dominated checks, loop bounds, liveness, edges and phi inputs.

What is left: modelled next, if anything, the moves of both edges of a critical edge's
block.
