------------------------------ MODULE Peephole ------------------------------
(***************************************************************************)
(* PeepholeOptimizer::TryFold (opt/peephole_optimizer.cpp).  Constants are *)
(* folded in words of FullWidth bits, the uint64 of the code, whatever the *)
(* type of the instruction.  What TryFold builds goes to the end of the    *)
(* block, after its terminator.                                            *)
(***************************************************************************)
EXTENDS UseDef, Bitwise

CONSTANTS FullWidth     \* bound: the bits of a constant

FullWord == 2 ^ FullWidth

\* The graph after TryFold, and the replacement; 0 is nullptr.
Folded(g, i) == [graph |-> g, inst |-> i]

NoFold(g) == Folded(g, 0)

Built(g, b, op, in, val) == Folded(Create(g, b, op, in, val), Newest(g) + 1)

NewConstant(g, i, val) == Built(g, g.insts[i].block, "Constant", <<>>, val % FullWord)

IsConstant(g, i) == g.insts[i].op = "Constant"

IsConstantOf(g, i, val) == IsConstant(g, i) /\ g.insts[i].val = val

\* Any product with a constant is taken for the negation.
IsMultipleOf(g, i, target) ==
    g.insts[i].op = "MUL" /\ \E k \in 1 .. 2 :
        g.insts[i].in[k] = target /\ IsConstant(g, g.insts[i].in[3 - k])

IsNegationOf(g, i, target) ==
    g.insts[i].op = "MUL" /\ \E k \in 1 .. 2 :
        g.insts[i].in[k] = target /\ IsConstantOf(g, g.insts[i].in[3 - k], FullWord - 1)

\* x + x -> x << 1
DoubleByShift(g, i, x) ==
    LET h == Create(g, g.insts[i].block, "Constant", <<>>, 1)
    IN  Built(h, g.insts[i].block, "SHL", <<x, Newest(h)>>, 0)

FoldAdd(g, i, l, r) ==
    IF IsConstant(g, l) /\ IsConstant(g, r) THEN NewConstant(g, i, g.insts[l].val + g.insts[r].val)
    ELSE IF IsConstantOf(g, r, 0) THEN Folded(g, l)
    ELSE IF IsConstantOf(g, l, 0) THEN Folded(g, r)
    ELSE IF l = r THEN DoubleByShift(g, i, l)
    ELSE IF IsNegationOf(g, r, l) \/ IsNegationOf(g, l, r) THEN NewConstant(g, i, 0)
    ELSE NoFold(g)

FoldAnd(g, i, l, r) ==
    IF IsConstant(g, l) /\ IsConstant(g, r) THEN NewConstant(g, i, g.insts[l].val & g.insts[r].val)
    ELSE IF IsConstantOf(g, r, 0) THEN Folded(g, r)
    ELSE IF IsConstantOf(g, l, 0) THEN Folded(g, l)
    ELSE IF l = r \/ IsConstantOf(g, r, FullWord - 1) THEN Folded(g, l)
    ELSE NoFold(g)

FoldShl(g, i, l, r) ==
    IF IsConstant(g, l) /\ IsConstant(g, r) THEN NewConstant(g, i, g.insts[l].val * 2 ^ g.insts[r].val)
    ELSE IF IsConstantOf(g, r, 0) THEN Folded(g, l)
    ELSE IF IsConstantOf(g, l, 0) THEN Folded(g, l)
    ELSE NoFold(g)

\* A shift of one constant by another that has at least the width of the word is undefined in C++.
ShiftsTooFar(g, i) ==
    g.insts[i].op = "SHL" /\ \A k \in 1 .. 2 : IsConstant(g, g.insts[i].in[k])
        /\ g.insts[g.insts[i].in[2]].val >= FullWidth

TryFold(g, i) ==
    LET n == g.insts[i]
    IN  CASE n.op = "ADD" -> FoldAdd(g, i, n.in[1], n.in[2])
          [] n.op = "AND" -> FoldAnd(g, i, n.in[1], n.in[2])
          [] n.op = "SHL" -> FoldShl(g, i, n.in[1], n.in[2])
          [] OTHER -> NoFold(g)

=============================================================================
