------------------------------- MODULE UseDef -------------------------------
(***************************************************************************)
(* A Graph with its instructions, their inputs and the records of their    *)
(* uses, and the operations of IRBuilder, BasicBlock, Graph and            *)
(* Instruction that the Inliner and the peephole optimizer are made of,    *)
(* each from graph to graph.                                               *)
(*                                                                         *)
(* g.insts is the storage of the graph: instruction i has an opcode,       *)
(* inputs, a value (of a constant; the position of an argument; the name   *)
(* of a callee), the records of its uses, pairs of user and input index,   *)
(* and a block, 0 when it is in none.  g.code has the instructions of each *)
(* block, in the order of the block list; block 1 is the start block.      *)
(* The pointers that make up a list are the InstructionList module's.      *)
(***************************************************************************)
EXTENDS Integers, SequencesExt

Node(op, in, val) == [op |-> op, in |-> in, val |-> val, users |-> {}, block |-> 0]

Newest(g) == Len(g.insts)

Terminators == {"JUMP", "JA", "RET", "DEOPTIMIZE"}

\* Only the constructor: no records, no block.
New(g, op, in, val) == [g EXCEPT !.insts = Append(@, Node(op, in, val))]

\* An input that is not of this graph (a negative number) keeps its records elsewhere.
RegisterUse(g, def, user, k) ==
    IF def < 0 THEN g ELSE [g EXCEPT !.insts[def].users = @ \cup {<<user, k>>}]

RegisterInputs(g, i) ==
    FoldLeftDomain(LAMBDA h, k : RegisterUse(h, g.insts[i].in[k], i, k), g, g.insts[i].in)

PushBackInstruction(g, i, b) ==
    [g EXCEPT !.code[b] = Append(@, i), !.insts[i].block = b]

PushFront(g, i, b) ==
    [g EXCEPT !.code[b] = <<i>> \o @, !.insts[i].block = b]

\* The records of the removed instruction as a user stay where they are.
RemoveInstruction(g, i) ==
    [g EXCEPT !.code[g.insts[i].block] = SelectSeq(@, LAMBDA j : j # i), !.insts[i].block = 0]

\* CreateInstruction at the end of block b.
Create(g, b, op, in, val) ==
    LET h == New(g, op, in, val)
    IN  RegisterInputs(PushBackInstruction(h, Newest(h), b), Newest(h))

AddEdge(g, b, s) == [g EXCEPT !.succs[b] = Append(@, s), !.preds[s] = Append(@, b)]

CreateJump(g, b, target) == AddEdge(Create(g, b, "JUMP", <<>>, 0), b, target)

CreateBasicBlock(g) ==
    [g EXCEPT !.code = Append(@, <<>>), !.succs = Append(@, <<>>), !.preds = Append(@, <<>>)]

\* SplitAt(i->GetNext()): the rest of the block and its successors go to a new block.
SplitAfter(g, i) ==
    LET b == g.insts[i].block
        n == Len(g.code) + 1
        k == CHOOSE k \in DOMAIN g.code[b] : g.code[b][k] = i
        rest == SubSeq(g.code[b], k + 1, Len(g.code[b]))
    IN  [insts |-> [j \in DOMAIN g.insts |->
                       IF j \in Range(rest) THEN [g.insts[j] EXCEPT !.block = n] ELSE g.insts[j]],
         code |-> Append([g.code EXCEPT ![b] = SubSeq(@, 1, k)], rest),
         succs |-> Append([g.succs EXCEPT ![b] = <<>>], g.succs[b]),
         preds |-> Append([s \in DOMAIN g.preds |-> ReplaceAll(g.preds[s], b, n)], <<>>)]

\* PhiInst::AddIncoming, for predecessors that come in their order.
AddIncoming(g, phi, value) ==
    LET h == [g EXCEPT !.insts[phi].in = Append(@, value)]
    IN  RegisterUse(h, value, phi, Len(h.insts[phi].in))

\* The new value is not told who uses it now.
ReplaceUsesUnrecorded(g, i, other) ==
    [g EXCEPT !.insts = [j \in DOMAIN @ |->
        [@[j] EXCEPT !.in = [k \in DOMAIN @ |-> IF <<j, k>> \in g.insts[i].users THEN other ELSE @[k]],
                     !.users = IF j = i THEN {} ELSE @]]]

\* Every use on record is rewritten, and recorded again if its user is in a block.
ReplaceAllUsesWith(g, i, other) ==
    LET uses == g.insts[i].users
        listed == {u \in uses : g.insts[u[1]].block # 0}
        rewritten == [j \in DOMAIN g.insts |->
            [g.insts[j] EXCEPT !.in = [k \in DOMAIN @ |-> IF <<j, k>> \in uses THEN other ELSE @[k]]]]
    IN  IF other = i THEN g
        ELSE [g EXCEPT !.insts = [j \in DOMAIN rewritten |->
            [rewritten[j] EXCEPT !.users = IF j = i THEN {}
                                           ELSE IF j = other THEN @ \cup listed ELSE @]]]

=============================================================================
