------------------------------ MODULE BlockSeq ------------------------------
(***************************************************************************)
(* What the instruction lists of the basic blocks are to the passes that   *)
(* edit them: each block of the graph holds a sequence of instructions.    *)
(***************************************************************************)
EXTENDS Integers, SequencesExt

CONSTANTS Blocks, Insts

VARIABLES
    blocks,     \* the blocks created so far
    code        \* the instructions of each block, in order

vars == <<blocks, code>>

Listed == UNION {Range(code[b]) : b \in Blocks}

PositionOf(b, i) == CHOOSE k \in 1 .. Len(code[b]) : code[b][k] = i

Init ==
    /\ blocks = {}
    /\ code = [b \in Blocks |-> <<>>]

CreateBasicBlock(b) ==
    /\ b \notin blocks
    /\ blocks' = blocks \cup {b}
    /\ UNCHANGED code

PushBackInstruction(b, i) ==
    /\ b \in blocks /\ i \notin Listed
    /\ code' = [code EXCEPT ![b] = Append(@, i)]
    /\ UNCHANGED blocks

InsertBefore(b, new, i) ==
    /\ new \notin Listed /\ i \in Range(code[b])
    /\ code' = [code EXCEPT ![b] = InsertAt(@, PositionOf(b, i), new)]
    /\ UNCHANGED blocks

RemoveInstruction(b, i) ==
    /\ i \in Range(code[b])
    /\ code' = [code EXCEPT ![b] = RemoveAt(@, PositionOf(b, i))]
    /\ UNCHANGED blocks

\* The first k instructions stay in b, the others go to the new block.
SplitAt(b, new, k) ==
    /\ b \in blocks /\ new \notin blocks
    /\ blocks' = blocks \cup {new}
    /\ code' = [code EXCEPT ![b] = SubSeq(code[b], 1, k),
                            ![new] = SubSeq(code[b], k + 1, Len(code[b]))]

Next ==
    \/ \E b \in Blocks : CreateBasicBlock(b)
    \/ \E b \in Blocks, i \in Insts : PushBackInstruction(b, i) \/ RemoveInstruction(b, i)
    \/ \E b \in Blocks, new, i \in Insts : InsertBefore(b, new, i)
    \/ \E b, new \in Blocks : \E k \in 0 .. Len(code[b]) : SplitAt(b, new, k)

Spec == Init /\ [][Next]_vars

=============================================================================
