------------------------------ MODULE PhiMoves ------------------------------
(***************************************************************************)
(* RegisterAllocator::ResolvePhis on one edge of the control flow graph:   *)
(* the phis of the successor take their inputs for this predecessor by     *)
(* moves put at the end of the predecessor.  The phi functions of a block  *)
(* act at once, a parallel copy; the moves act one after the other.        *)
(*                                                                         *)
(* The code scans a list of pending moves.  It takes out each move whose   *)
(* target no other pending move reads, and emits those before the next     *)
(* scan; whether a move may be taken depends on the pending moves alone,   *)
(* so taking one out and emitting it is one action here, and the moves     *)
(* that can be taken are taken in any order.  Emitted moves are executed:  *)
(* contents is what each location holds after the moves emitted so far.    *)
(***************************************************************************)
EXTENDS Integers, FiniteSets

CONSTANTS
    Phis,       \* the phis of the successor
    Others,     \* the other instructions that may be their inputs
    Registers,  \* the allocatable registers
    Slots,      \* the stack slots
    Reserved,   \* the first reserved register, reserved_regs_start_
    TempMove    \* the move that saves a value in Reserved

ASSUME LocationsAssumption ==
    /\ IsFiniteSet(Phis)
    /\ Registers \cap Slots = {}
    /\ Reserved \notin Registers \cup Slots
    /\ Phis \cap Others = {}
    /\ TempMove \notin Phis \cup Others

Instructions == Phis \cup Others
Locations == Registers \cup Slots
Places == Locations \cup {Reserved}

VARIABLES
    location,   \* where each instruction lives
    incoming,   \* the input of each phi for this predecessor
    pending,    \* pending: moves not yet emitted, [to, from]
    contents    \* what each place holds, as the place that held it before the moves

vars == <<location, incoming, pending, contents>>

\* The values that leave the predecessor towards the phis.
Outgoing == {incoming[p] : p \in Phis}

-----------------------------------------------------------------------------

(***************************************************************************)
(* What the allocator hands over: the phis are live together where the     *)
(* successor begins, the outgoing values are live together where the       *)
(* predecessor ends, and no two intervals ever share a stack slot.  A phi  *)
(* may be given a register that an outgoing value held until the end of    *)
(* the predecessor, when that block does not immediately precede.  If an   *)
(* outgoing value is a phi of the successor, the edge is a back edge: all  *)
(* the header's phis are live over the whole loop, its last block too.     *)
(***************************************************************************)
AllocationIsValid ==
    /\ \A p, q \in Phis : location[p] = location[q] => p = q
    /\ \A x, y \in Outgoing : location[x] = location[y] => x = y
    /\ \A i, j \in Instructions : location[i] \in Slots /\ location[i] = location[j] => i = j
    /\ Outgoing \cap Phis # {} => \A p \in Phis, x \in Outgoing : location[p] = location[x] => p = x

\* A phi that has no input for this predecessor needs no move either.
NeedsMove(p) == location[p] # location[incoming[p]]

(***************************************************************************)
(* Identity of instructions, which ResolvePhis compares, tells what        *)
(* identity of places would: a place that one move writes and another      *)
(* reads is a register, and the home of the phi it is read as.  The        *)
(* allocator does not provide for it.                                      *)
(***************************************************************************)
ConflictsAreSeen ==
    \A p, q \in Phis :
        p # q /\ NeedsMove(p) /\ NeedsMove(q) /\ location[p] = location[incoming[q]]
            => p = incoming[q] /\ location[p] \in Registers

Init ==
    /\ location \in [Instructions -> Locations]
    /\ incoming \in [Phis -> Instructions]
    /\ AllocationIsValid
    /\ pending = {[to |-> p, from |-> incoming[p]] : p \in {q \in Phis : NeedsMove(q)}}
    /\ contents = [l \in Places |-> l]

SourceOf(m) == IF m.from = TempMove THEN Reserved ELSE location[m.from]

\* The first move of the list is always ready.
NeverSource(m) == FALSE

\* The target of m is an instruction in a register that another pending move reads.
IsSource(m) ==
    /\ location[m.to] \in Registers
    /\ \E o \in pending \ {m} : m.to = o.from

EmitMove ==
    /\ \E m \in pending :
        /\ ~IsSource(m)
        /\ contents' = [contents EXCEPT ![location[m.to]] = contents[SourceOf(m)]]
        /\ pending' = pending \ {m}
    /\ UNCHANGED <<location, incoming>>

\* A move that is not ready is broken though others are.
BreakCycleEagerly ==
    /\ \E m \in pending :
        /\ IsSource(m)
        /\ contents' = [contents EXCEPT ![Reserved] = contents[SourceOf(m)]]
        /\ pending' = (pending \ {m}) \cup {[to |-> m.to, from |-> TempMove]}
    /\ UNCHANGED <<location, incoming>>

\* The saved value is never read back.
BreakCycleInVain ==
    /\ pending # {}
    /\ \A m \in pending : IsSource(m)
    /\ \E m \in pending :
        /\ contents' = [contents EXCEPT ![Reserved] = contents[SourceOf(m)]]
        /\ UNCHANGED pending
    /\ UNCHANGED <<location, incoming>>

\* Nothing is ready: one source is saved in the reserved register and read from there.
BreakCycle ==
    /\ pending # {}
    /\ \A m \in pending : IsSource(m)
    /\ \E m \in pending :
        /\ contents' = [contents EXCEPT ![Reserved] = contents[SourceOf(m)]]
        /\ pending' = (pending \ {m}) \cup {[to |-> m.to, from |-> TempMove]}
    /\ UNCHANGED <<location, incoming>>

Done == pending = {} /\ UNCHANGED vars

Next == EmitMove \/ BreakCycle \/ Done

\* ResolvePhis is one call that nothing interrupts.
Spec == Init /\ [][Next]_vars /\ WF_vars(Next)

-----------------------------------------------------------------------------

TypeOK ==
    /\ location \in [Instructions -> Locations]
    /\ incoming \in [Phis -> Instructions]
    /\ pending \in SUBSET [to : Phis, from : Instructions \cup {TempMove}]
    /\ contents \in [Places -> Places]

\* What phi p must hold: what its input held when the moves began.
Wanted(p) == location[incoming[p]]

(***************************************************************************)
(* The moves add up to the parallel copy: once all are emitted, every phi  *)
(* holds what its input held before the first of them.  So it is where     *)
(* ConflictsAreSeen, and not where they are not.                           *)
(***************************************************************************)
ParallelCopy == pending = {} => \A p \in Phis : contents[location[p]] = Wanted(p)

(***************************************************************************)
(* No move emitted so far destroyed a value that is still to be read: the  *)
(* source of each pending move holds what the move is to carry, and each   *)
(* move already emitted (or never needed) has its value in place.          *)
(***************************************************************************)
NothingLost ==
    /\ \A m \in pending : contents[SourceOf(m)] = Wanted(m.to)
    /\ \A p \in Phis : (\A m \in pending : m.to # p) => contents[location[p]] = Wanted(p)

(***************************************************************************)
(* The reserved register saves one value at a time: it is not overwritten  *)
(* while a pending move still has to read it.                              *)
(***************************************************************************)
OneSavedValue == [][
    contents'[Reserved] # contents[Reserved] => \A m \in pending : m.from # TempMove
    ]_vars

(***************************************************************************)
(* The scan comes to an end: no mixture of chains and cycles keeps the     *)
(* list pending for ever.                                                  *)
(***************************************************************************)
AllMovesEmitted == <>(pending = {})

=============================================================================
