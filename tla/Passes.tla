------------------------------- MODULE Passes -------------------------------
(***************************************************************************)
(* Inliner::Run and then PeepholeOptimizer::Run over one graph.  The calls *)
(* are collected before the first is inlined; the peephole optimizer goes  *)
(* over all instructions again and again until a round changes nothing.    *)
(***************************************************************************)
EXTENDS Inliner, Peephole, FlowGraph

CONSTANTS
    TypeWidth,  \* bound: the bits of the type of all values
    Callers,    \* the graphs to optimize
    Callees     \* the graphs they call, by name

ASSUME WidthAssumption == TypeWidth \in 1 .. FullWidth /\ FullWidth <= 2 ^ TypeWidth

VARIABLES
    caller,     \* the graph as it was built
    graph,      \* the graph now
    calls,      \* the calls not inlined yet
    phase,      \* "inline", "peephole", "done"
    built,      \* how many instructions there were before the peephole optimizer
    at,         \* the block and position the round has come to
    changed,
    undefined   \* a fold has shifted too far

vars == <<caller, graph, calls, phase, built, at, changed, undefined>>

-----------------------------------------------------------------------------
(* What a graph computes: the value its RET returns for given arguments,   *)
(* or that it deoptimizes.  Values depend on their inputs alone; a PHI     *)
(* takes the input for the block the path comes from.                      *)

Words == 0 .. 2 ^ TypeWidth - 1

Deoptimized == -1

Apply(op, x, y) ==
    CASE op = "ADD" -> (x + y) % 2 ^ TypeWidth
      [] op = "MUL" -> (x * y) % 2 ^ TypeWidth
      [] op = "AND" -> x & y
      [] op = "SHL" -> (x * 2 ^ y) % 2 ^ TypeWidth

\* An instruction in no block, or of another graph, computes nothing: its value is that of old memory.
RECURSIVE Value(_, _, _, _), Path(_, _, _), Result(_, _)
Value(g, args, path, i) ==
    IF i < 0 \/ (g.insts[i].block = 0 /\ g.insts[i].op # "Argument") THEN 0
    ELSE LET n == g.insts[i]
             input(k) == Value(g, args, path, n.in[k])
         IN  CASE n.op = "Argument" -> args[n.val]
               [] n.op = "Constant" -> n.val % 2 ^ TypeWidth
               [] n.op = "CALL_STATIC" -> Result(Callees[n.val], [k \in DOMAIN n.in |-> input(k)])
               [] n.op = "PHI" ->
                     LET k == CHOOSE k \in 2 .. Len(path) : path[k] = n.block
                     IN  input(CHOOSE j \in DOMAIN n.in : g.preds[n.block][j] = path[k - 1])
               [] OTHER -> Apply(n.op, input(1), input(2))

Terminator(g, b) == SelectSeq(g.code[b], LAMBDA i : g.insts[i].op \in Terminators)[1]

\* The last block of the path deoptimizes, or calls what does.
GivesUp(g, args, path) == \E i \in Range(g.code[Last(path)]) :
    \/ g.insts[i].op = "DEOPTIMIZE"
    \/ g.insts[i].op = "CALL_STATIC" /\ Value(g, args, path, i) = Deoptimized

Path(g, args, path) ==
    LET b == Last(path)
        t == g.insts[Terminator(g, b)]
    IN  IF GivesUp(g, args, path) THEN path ELSE
        CASE t.op = "RET" -> path
          [] t.op = "JUMP" -> Path(g, args, Append(path, g.succs[b][1]))
          [] t.op = "JA" ->
                Path(g, args, Append(path, g.succs[b][IF Value(g, args, path, t.in[1]) # 0 THEN 1 ELSE 2]))

Result(g, args) ==
    LET path == Path(g, args, <<1>>)
    IN  IF GivesUp(g, args, path) THEN Deoptimized
        ELSE Value(g, args, path, g.insts[Terminator(g, Last(path))].in[1])

-----------------------------------------------------------------------------

CallsOf(g) == SelectSeq(Listed(g), LAMBDA i : g.insts[i].op = "CALL_STATIC")

Init ==
    /\ caller \in Callers
    /\ graph = caller
    /\ calls = CallsOf(caller)
    /\ phase = "inline"
    /\ built = 0
    /\ at = <<1, 1>>
    /\ changed = FALSE
    /\ undefined = FALSE

InlineNextCall ==
    /\ phase = "inline" /\ calls # <<>>
    /\ graph' = InlineCall(graph, Head(calls), Callees[graph.insts[Head(calls)].val])
    /\ calls' = Tail(calls)
    /\ UNCHANGED <<caller, phase, built, at, changed, undefined>>

RunPeephole ==
    /\ phase = "inline" /\ calls = <<>>
    /\ phase' = "peephole"
    /\ built' = Newest(graph)
    /\ UNCHANGED <<caller, graph, calls, at, changed, undefined>>

\* The round is at an instruction, and steps to the one after it.
AtInstruction ==
    /\ phase = "peephole"
    /\ at[1] <= Len(graph.code) /\ at[2] <= Len(graph.code[at[1]])
    /\ at' = <<at[1], at[2] + 1>>

current == graph.code[at[1]][at[2]]

Unused(i) == graph.insts[i].users = {} /\ graph.insts[i].op \notin Terminators

PassOver ==
    /\ AtInstruction
    /\ Unused(current)
    /\ UNCHANGED <<caller, graph, calls, phase, built, changed, undefined>>

Replace(f) ==
    /\ graph' = IF f.inst = 0 THEN f.graph ELSE ReplaceAllUsesWith(f.graph, current, f.inst)
    /\ changed' = (changed \/ f.inst \notin {0, current})

Fold ==
    /\ AtInstruction
    /\ ~Unused(current) /\ ~ShiftsTooFar(graph, current)
    /\ Replace(TryFold(graph, current))
    /\ UNCHANGED <<caller, calls, phase, built, undefined>>

FoldUndefined ==
    /\ AtInstruction
    /\ ~Unused(current) /\ ShiftsTooFar(graph, current)
    /\ \E val \in 0 .. FullWord - 1 : Replace(NewConstant(graph, current, val))
    /\ undefined' = TRUE
    /\ UNCHANGED <<caller, calls, phase, built>>

NextBlock ==
    /\ phase = "peephole"
    /\ at[1] <= Len(graph.code) /\ at[2] > Len(graph.code[at[1]])
    /\ at' = <<at[1] + 1, 1>>
    /\ UNCHANGED <<caller, graph, calls, phase, built, changed, undefined>>

\* `changed = false` missing from the top of the loop.
NextRoundForever ==
    /\ phase = "peephole" /\ at[1] > Len(graph.code)
    /\ at' = <<1, 1>>
    /\ phase' = IF changed THEN phase ELSE "done"
    /\ UNCHANGED <<caller, graph, calls, built, changed, undefined>>

NextRound ==
    /\ phase = "peephole" /\ at[1] > Len(graph.code)
    /\ at' = <<1, 1>>
    /\ changed' = FALSE
    /\ phase' = IF changed THEN phase ELSE "done"
    /\ UNCHANGED <<caller, graph, calls, built, undefined>>

Done == phase = "done" /\ UNCHANGED vars

Next ==
    \/ InlineNextCall \/ RunPeephole
    \/ PassOver \/ Fold \/ FoldUndefined \/ NextBlock \/ NextRound
    \/ Done

\* WF_vars(Next), with its ENABLED written out: the passes are calls that nothing interrupts.
Fairness == []<>(phase = "done") \/ []<><<Next>>_vars

Spec == Init /\ [][Next]_vars /\ Fairness

-----------------------------------------------------------------------------

Arguments == [{i \in DOMAIN caller.insts : caller.insts[i].op = "Argument"} -> Words]

(***************************************************************************)
(* The passes keep what the program computes: after the inliner, whatever  *)
(* the callees return and from however many places, if they do return, and *)
(* again at the end, the caller returns for each argument what it returned *)
(* as it was built.  Unless the optimizer folded a shift that C++ leaves   *)
(* undefined.                                                              *)
(***************************************************************************)
ResultPreserved ==
    (phase = "inline" /\ calls = <<>>) \/ (phase = "done" /\ ~undefined) =>
        \A args \in Arguments : Result(graph, args) = Result(caller, args)

(***************************************************************************)
(* ReplaceAllUsesWith finds all uses there are: an input of a listed       *)
(* instruction is on record with what it is an input of.  Except those of  *)
(* the instructions the inliner cloned, of which only phis are recorded.   *)
(***************************************************************************)
IsClone(i) == i > Len(caller.insts) /\ (phase = "inline" \/ i <= built)

UsesRecorded == \A i \in Range(Listed(graph)) : \A k \in DOMAIN graph.insts[i].in :
    \/ graph.insts[i].in[k] > 0 /\ <<i, k>> \in graph.insts[graph.insts[i].in[k]].users
    \/ IsClone(i) /\ graph.insts[i].op # "PHI"

(***************************************************************************)
(* Inlined code is executed in an order that works: what an instruction    *)
(* reads is an argument, or comes before it in its block or in a block     *)
(* that dominates it (for a phi, the predecessor), and a block ends in its *)
(* only terminator.  What the peephole optimizer builds is excepted: it is *)
(* put after the terminator, behind the instructions that read it.  So are *)
(* the blocks behind a callee that never returns, which nothing leads to.  *)
(***************************************************************************)
Edges(g) == [b \in DOMAIN g.succs |-> Range(g.succs[b])]

PlacedBefore(g, d, b, k) ==
    \/ g.insts[d].op = "Argument"
    \/ d \in Range(SubSeq(g.code[b], 1, k - 1))
    \/ g.insts[d].block \notin {0, b} /\ DominatesIn(Edges(g), 1, g.insts[d].block, b)

WellPlaced ==
    LET late(i) == phase # "inline" /\ i > built
        sound(b, k, j) ==
            LET n == graph.insts[graph.code[b][k]]
                d == n.in[j]
            IN  d > 0 /\ \/ late(d)
                         \/ n.op # "PHI" /\ PlacedBefore(graph, d, b, k)
                         \/ n.op = "PHI" /\ LET p == graph.preds[b][j]
                                            IN  PlacedBefore(graph, d, p, Len(graph.code[p]) + 1)
    IN  \A b \in ReachableIn(Edges(graph), 1) : \A k \in DOMAIN graph.code[b] :
            LET i == graph.code[b][k]
                followers == SubSeq(graph.code[b], k + 1, Len(graph.code[b]))
            IN  late(i) \/
                /\ graph.insts[i].op \in Terminators <=> \A j \in Range(followers) : late(j)
                /\ \A j \in DOMAIN graph.insts[i].in : sound(b, k, j)

(***************************************************************************)
(* The rounds come to an end: no fold undoes another or is done again.     *)
(***************************************************************************)
Terminates == <>(phase = "done")

=============================================================================
