------------------------------- MODULE Inliner -------------------------------
(***************************************************************************)
(* Inliner::InlineCall (opt/inliner.cpp) as a function of the caller's     *)
(* graph.  A mapping takes instructions of the callee to instructions of   *)
(* the caller; an instruction of the callee that is not mapped yet stays   *)
(* what it is, an instruction of another graph, and is negative here.      *)
(***************************************************************************)
EXTENDS UseDef, TLC

\* The instructions of a graph in the order of its blocks and lists.
Listed(g) == FlattenSeq(g.code)

MapInput(i, mapping) == IF i \in DOMAIN mapping THEN mapping[i] ELSE -i

MapInputs(in, mapping) == [k \in DOMAIN in |-> MapInput(in[k], mapping)]

\* The arguments of the callee and the inputs of the call.
MapParameters(callee, inputs) ==
    LET args == {i \in DOMAIN callee.insts : callee.insts[i].op = "Argument"}
    IN  [i \in args |-> inputs[callee.insts[i].val]]

\* A step of cloning: the graph so far and the mapping so far.
Clone(g, mapping) == [graph |-> g, mapping |-> mapping]

HoistConstant(c, callee, i) ==
    LET h == New(c.graph, "Constant", <<>>, callee.insts[i].val)
    IN  Clone(PushFront(h, Newest(h), 1), c.mapping @@ (i :> Newest(h)))

HoistConstants(g, callee, mapping) ==
    FoldLeft(LAMBDA c, i : HoistConstant(c, callee, i), Clone(g, mapping),
             SelectSeq(Listed(callee), LAMBDA i : callee.insts[i].op = "Constant"))

\* Clone and push back: no use is recorded.
CloneInstruction(c, callee, i, b) ==
    LET n == callee.insts[i]
        h == New(c.graph, n.op, MapInputs(n.in, c.mapping), n.val)
    IN  Clone(PushBackInstruction(h, Newest(h), b), c.mapping @@ (i :> Newest(h)))

\* The block of the callee and a new block at the end of the caller.
CloneBlock(c, callee, b) ==
    LET h == CreateBasicBlock(c.graph)
    IN  FoldLeft(LAMBDA d, i : CloneInstruction(d, callee, i, Len(h.code)), Clone(h, c.mapping),
                 SelectSeq(callee.code[b], LAMBDA i : callee.insts[i].op \notin {"Argument", "Constant"}))

CloneBlocks(c, callee) ==
    FoldLeftDomain(LAMBDA d, b : CloneBlock(d, callee, b), c, callee.code)

\* The phis keep the inputs they were cloned with.
PatchNothing(g, callee, mapping) == g

\* The inputs of the phis once more, now that all is mapped, and recorded.
PatchClonedInstructions(g, callee, mapping) ==
    FoldLeft(LAMBDA h, i :
                 RegisterInputs([h EXCEPT !.insts[mapping[i]].in = MapInputs(callee.insts[i].in, mapping)],
                                mapping[i]),
             g, SelectSeq(Listed(callee), LAMBDA i : callee.insts[i].op = "PHI"))

\* first is the block of the caller that block 1 of the callee became.
ConnectCFG(g, callee, callerBlock, first) ==
    FoldLeftDomain(LAMBDA h, b :
                       FoldLeft(LAMBDA k, s : AddEdge(k, first + b - 1, first + s - 1), h, callee.succs[b]),
                   CreateJump(g, callerBlock, first), callee.code)

\* A RET gives way to a jump.
EndReturn(g, ret, cont) == CreateJump(RemoveInstruction(g, ret), g.insts[ret].block, cont)

\* CreateMergePhi, and the replacement of the call by what it returns.
MergeReturns(g, call, cont, returns) ==
    LET value(r) == g.insts[r].in[1]
        withPhi == New(g, "PHI", <<>>, 0)
        phi == Newest(withPhi)
    IN  IF returns = <<>> THEN g
        ELSE IF Len(returns) = 1
        THEN ReplaceAllUsesWith(EndReturn(g, returns[1], cont), call, value(returns[1]))
        ELSE ReplaceAllUsesWith(
                 FoldLeft(LAMBDA h, r : AddIncoming(EndReturn(h, r, cont), phi, value(r)),
                          PushFront(withPhi, phi, cont), returns),
                 call, phi)

InlineCall(g, call, callee) ==
    LET callerBlock == g.insts[call].block
        split == RemoveInstruction(SplitAfter(g, call), call)
        cont == Len(split.code)
        hoisted == HoistConstants(split, callee, MapParameters(callee, g.insts[call].in))
        cloned == CloneBlocks(hoisted, callee)
        patched == PatchClonedInstructions(cloned.graph, callee, cloned.mapping)
        connected == ConnectCFG(patched, callee, callerBlock, cont + 1)
        rets == SelectSeq(Listed(callee), LAMBDA i : callee.insts[i].op = "RET")
    IN  MergeReturns(connected, call, cont, [k \in DOMAIN rets |-> cloned.mapping[rets[k]]])

=============================================================================
