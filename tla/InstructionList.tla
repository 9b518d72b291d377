--------------------------- MODULE InstructionList ---------------------------
(***************************************************************************)
(* The instruction lists of the basic blocks (basic_block.cpp), pointer by *)
(* pointer.  The list runs through the instructions: a block knows the     *)
(* first and the last, an instruction its neighbours and its block.  Every *)
(* builder and pass edits the lists by the calls modelled here, one at a   *)
(* time.  The edges that SplitAt moves are those of ControlFlow.           *)
(*                                                                         *)
(* The calls are made as the passes make them: what is put into a list is  *)
(* in no list, and the place it is put is in the list.                     *)
(***************************************************************************)
EXTENDS Integers, SequencesExt

CONSTANTS
    Blocks,     \* the blocks the graph may come to have
    Insts,      \* the instructions
    Null        \* nullptr

ASSUME NullAssumption == Null \notin Blocks \cup Insts
ASSUME InstsAssumption == IsFiniteSet(Insts)

VARIABLES
    blocks,     \* blocks_ of the graph
    first,      \* first_inst_
    last,       \* last_inst_
    prev,       \* prev_
    next,       \* next_
    owner       \* basic_block_

links == <<first, last, prev, next>>
vars == <<blocks, links, owner>>

Detached(i) == owner[i] = Null

-----------------------------------------------------------------------------

Init ==
    /\ blocks = {}
    /\ first = [b \in Blocks |-> Null]
    /\ last = [b \in Blocks |-> Null]
    /\ prev = [i \in Insts |-> Null]
    /\ next = [i \in Insts |-> Null]
    /\ owner = [i \in Insts |-> Null]

CreateBasicBlock(b) ==
    /\ b \notin blocks
    /\ blocks' = blocks \cup {b}
    /\ UNCHANGED <<links, owner>>

PushBackInstruction(b, i) ==
    /\ b \in blocks /\ Detached(i)
    /\ \/ /\ first[b] = Null
          /\ first' = [first EXCEPT ![b] = i]
          /\ UNCHANGED <<prev, next>>
       \/ /\ first[b] # Null
          /\ next' = [next EXCEPT ![last[b]] = i]
          /\ prev' = [prev EXCEPT ![i] = last[b]]
          /\ UNCHANGED first
    /\ last' = [last EXCEPT ![b] = i]
    /\ owner' = [owner EXCEPT ![i] = b]
    /\ UNCHANGED blocks

\* The new instruction becomes the first whatever it was to stand before.
InsertBeforeAll(b, new, i) ==
    /\ Detached(new) /\ owner[i] = b
    /\ next' = [next EXCEPT ![new] = first[b]]
    /\ prev' = [prev EXCEPT ![first[b]] = new]
    /\ first' = [first EXCEPT ![b] = new]
    /\ owner' = [owner EXCEPT ![new] = b]
    /\ UNCHANGED <<blocks, last>>

InsertBefore(b, new, i) ==
    /\ b \in blocks /\ Detached(new) /\ owner[i] = b
    /\ owner' = [owner EXCEPT ![new] = b]
    /\ \/ /\ i = first[b]
          /\ next' = [next EXCEPT ![new] = i]
          /\ prev' = [prev EXCEPT ![i] = new]
          /\ first' = [first EXCEPT ![b] = new]
       \/ /\ i # first[b]
          /\ next' = [next EXCEPT ![new] = i, ![prev[i]] = new]
          /\ prev' = [prev EXCEPT ![new] = prev[i], ![i] = new]
          /\ UNCHANGED first
    /\ UNCHANGED <<blocks, last>>

\* The end of the list does not move back.
RemoveKeepingLast(b, i) ==
    /\ b \in blocks /\ owner[i] = b
    /\ first' = IF prev[i] = Null THEN [first EXCEPT ![b] = next[i]] ELSE first
    /\ last' = last
    /\ next' = [j \in Insts |-> IF j = i THEN Null ELSE IF j = prev[i] THEN next[i] ELSE next[j]]
    /\ prev' = [j \in Insts |-> IF j = i THEN Null ELSE IF j = next[i] THEN prev[i] ELSE prev[j]]
    /\ owner' = [owner EXCEPT ![i] = Null]
    /\ UNCHANGED blocks

RemoveInstruction(b, i) ==
    /\ b \in blocks /\ owner[i] = b
    /\ first' = IF prev[i] = Null THEN [first EXCEPT ![b] = next[i]] ELSE first
    /\ last' = IF next[i] = Null THEN [last EXCEPT ![b] = prev[i]] ELSE last
    /\ next' = [j \in Insts |-> IF j = i THEN Null ELSE IF j = prev[i] THEN next[i] ELSE next[j]]
    /\ prev' = [j \in Insts |-> IF j = i THEN Null ELSE IF j = next[i] THEN prev[i] ELSE prev[j]]
    /\ owner' = [owner EXCEPT ![i] = Null]
    /\ UNCHANGED blocks

ClosedUnderNext(S) == \A j \in S : next[j] # Null => next[j] \in S

\* What a walk from i along next_ visits.
From(i) == {j \in Insts : \A S \in SUBSET Insts : i \in S /\ ClosedUnderNext(S) => j \in S}

\* The old block keeps the last instruction it had.
SplitKeepingLast(b, new, i) ==
    /\ b \in blocks /\ new \notin blocks /\ owner[i] = b
    /\ blocks' = blocks \cup {new}
    /\ first' = [first EXCEPT ![new] = i, ![b] = IF prev[i] = Null THEN Null ELSE @]
    /\ last' = [last EXCEPT ![new] = last[b]]
    /\ next' = [j \in Insts |-> IF j = prev[i] THEN Null ELSE next[j]]
    /\ prev' = [prev EXCEPT ![i] = Null]
    /\ owner' = [j \in Insts |-> IF j \in From(i) THEN new ELSE owner[j]]

\* The new block is made, but not put into the graph.
SplitIntoUnlistedBlock(b, new, i) ==
    /\ b \in blocks /\ new \notin blocks /\ owner[i] = b
    /\ first' = [first EXCEPT ![new] = i, ![b] = IF prev[i] = Null THEN Null ELSE @]
    /\ last' = [last EXCEPT ![new] = last[b], ![b] = prev[i]]
    /\ next' = [j \in Insts |-> IF j = prev[i] THEN Null ELSE next[j]]
    /\ prev' = [prev EXCEPT ![i] = Null]
    /\ owner' = [j \in Insts |-> IF j \in From(i) THEN new ELSE owner[j]]
    /\ UNCHANGED blocks

\* SplitAt of an instruction: it and what follows go to the new block.
SplitAt(b, new, i) ==
    /\ b \in blocks /\ new \notin blocks /\ owner[i] = b
    /\ blocks' = blocks \cup {new}
    /\ \/ /\ prev[i] # Null
          /\ first' = [first EXCEPT ![new] = i]
          /\ last' = [last EXCEPT ![new] = last[b], ![b] = prev[i]]
          /\ next' = [next EXCEPT ![prev[i]] = Null]
          /\ prev' = [prev EXCEPT ![i] = Null]
       \/ /\ prev[i] = Null
          /\ first' = [first EXCEPT ![new] = i, ![b] = Null]
          /\ last' = [last EXCEPT ![new] = last[b], ![b] = Null]
          /\ UNCHANGED <<prev, next>>
    /\ owner' = [j \in Insts |-> IF j \in From(i) THEN new ELSE owner[j]]

\* SplitAt(nullptr), after the last instruction: the new block is empty.
SplitAtEnd(b, new) ==
    /\ b \in blocks /\ new \notin blocks
    /\ blocks' = blocks \cup {new}
    /\ UNCHANGED <<links, owner>>

Next ==
    \/ \E b \in Blocks : CreateBasicBlock(b)
    \/ \E b \in Blocks, i \in Insts : PushBackInstruction(b, i) \/ RemoveInstruction(b, i)
    \/ \E b \in Blocks, new, i \in Insts : InsertBefore(b, new, i)
    \/ \E b, new \in Blocks : SplitAtEnd(b, new) \/ \E i \in Insts : SplitAt(b, new, i)

Spec == Init /\ [][Next]_vars

-----------------------------------------------------------------------------

TypeOK ==
    /\ blocks \in SUBSET Blocks
    /\ first \in [Blocks -> Insts \cup {Null}]
    /\ last \in [Blocks -> Insts \cup {Null}]
    /\ prev \in [Insts -> Insts \cup {Null}]
    /\ next \in [Insts -> Insts \cup {Null}]
    /\ owner \in [Insts -> blocks \cup {Null}]

(***************************************************************************)
(* The pointers agree with one another: a neighbour's neighbour is the     *)
(* instruction itself, neighbours are in one block, and the ends of a list *)
(* are the instructions of the block without a neighbour on that side,     *)
(* and null only where the block is empty.  GetBasicBlock and              *)
(* GetLastInstruction answer from these fields alone.                      *)
(***************************************************************************)
NeighboursAgree == \A i, j \in Insts :
    /\ next[i] = j <=> prev[j] = i
    /\ next[i] = j => owner[i] = owner[j] /\ ~Detached(i)

EndsAgree == \A b \in Blocks, i \in Insts :
    /\ first[b] = i <=> owner[i] = b /\ prev[i] = Null
    /\ last[b] = i <=> owner[i] = b /\ next[i] = Null
    /\ owner[i] = b => first[b] # Null /\ last[b] # Null

WellLinked == NeighboursAgree /\ EndsAgree

(***************************************************************************)
(* A walk along next_ from any instruction of a block ends at the last     *)
(* one, whatever was inserted, removed or split: no list runs in a circle  *)
(* or out of its block.                                                    *)
(***************************************************************************)
WalksReachLast == \A i \in Insts : ~Detached(i) => last[owner[i]] \in From(i)

(***************************************************************************)
(* The pointers implement the sequences of BlockSeq: the code of a block   *)
(* is what a walk from its first instruction visits, in that order, and    *)
(* each call does to it what the same call of BlockSeq does.               *)
(***************************************************************************)
Walk(b) ==
    LET step[n \in 0 .. Cardinality(Insts)] ==
            IF n = 0 THEN IF first[b] = Null THEN <<>> ELSE <<first[b]>>
            ELSE LET s == step[n - 1] IN
                 IF s = <<>> \/ next[Last(s)] = Null THEN s ELSE Append(s, next[Last(s)])
    IN  step[Cardinality(Insts)]

Sequences == INSTANCE BlockSeq WITH code <- [b \in Blocks |-> Walk(b)]

SameCall ==
    /\ \A b \in Blocks, i \in Insts :
        /\ PushBackInstruction(b, i) => Sequences!PushBackInstruction(b, i)
        /\ RemoveInstruction(b, i) => Sequences!RemoveInstruction(b, i)
        /\ \A new \in Insts : InsertBefore(b, new, i) => Sequences!InsertBefore(b, new, i)
        /\ \A new \in Blocks : SplitAt(b, new, i) =>
              Sequences!SplitAt(b, new, Sequences!PositionOf(b, i) - 1)
    /\ \A b, new \in Blocks : SplitAtEnd(b, new) => Sequences!SplitAt(b, new, Len(Walk(b)))

ImplementsBlockSeq == Sequences!Spec /\ [][SameCall]_vars

=============================================================================
