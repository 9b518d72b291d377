----------------------------- MODULE MCLiveness -----------------------------
(***************************************************************************)
(* Liveness on every reducible graph of four blocks with one or two        *)
(* successors, in every linear order, for a value with at most MaxUses     *)
(* uses.                                                                   *)
(***************************************************************************)
EXTENDS Liveness

CONSTANT MaxUses    \* bounds the uses of the value, by instructions and by phis

MCInit ==
    /\ succs \in [Blocks -> {S \in SUBSET Blocks : Cardinality(S) <= 2}]
    /\ LinearOrder
    /\ def \in {i \in Slots : ~IsTerminator(i)}
    /\ uses \in {U \in SUBSET {u \in Slots : DominatesIn(succs, 1, DefBlock, u[1])} :
                    Cardinality(U) <= MaxUses}
    /\ phiUses \in {E \in SUBSET {e \in Blocks \X Blocks : Phis(e[2]) = 1 /\ e[2] \in succs[e[1]]} :
                       Cardinality(E) + Cardinality(uses) <= MaxUses}
    /\ StrictSSA
    /\ next = NumBlocks
    /\ liveIn = [x \in Blocks |-> FALSE]
    /\ ranges = <<>>

MCSpec == MCInit /\ [][Next]_vars

=============================================================================
