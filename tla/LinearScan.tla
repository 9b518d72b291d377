----------------------------- MODULE LinearScan -----------------------------
(***************************************************************************)
(* The main loop of RegisterAllocator::Run (opt/register_allocator.cpp)    *)
(* over the hulls of the live intervals.  The loop takes the intervals in  *)
(* order of their start; std::sort leaves the order of equal starts open,  *)
(* so the next interval is any pending one of least start.  One action is  *)
(* one iteration: ExpireOldIntervals, then the branch the iteration takes. *)
(*                                                                         *)
(* `active` is the set of the intervals in the vector active_; the vector  *)
(* is kept sorted by end, so its back() is some active interval of         *)
(* greatest end.  The module RegisterAllocator models the vector itself    *)
(* and which of several greatest ends is at its back.                      *)
(***************************************************************************)
EXTENDS Integers, FiniteSets

CONSTANTS
    Intervals,      \* the live intervals of the function
    NumTotalRegs,   \* the registers of the target
    Positions       \* the instruction positions intervals may start and end at

NumReservedRegs == 2

NumRegs == IF NumTotalRegs <= NumReservedRegs THEN 0 ELSE NumTotalRegs - NumReservedRegs

ASSUME IntervalsAssumption == IsFiniteSet(Intervals)
ASSUME RegistersAssumption == NumTotalRegs \in Nat
ASSUME PositionsAssumption == Positions \subseteq Nat

Registers == 0 .. (NumRegs - 1)

VARIABLES
    start, end,     \* the hull of each interval: ranges_.front().start, ranges_.back().end
    pending,        \* the intervals the loop has not reached
    active,         \* active_
    free,           \* free_regs_
    location,       \* the location of each interval's instruction
    stackOffset     \* stack_offset_

vars == <<start, end, pending, active, free, location, stackOffset>>

Unassigned == [kind |-> "UNASSIGNED", value |-> 0]
Register(r) == [kind |-> "REGISTER", value |-> r]
Stack(o) == [kind |-> "STACK", value |-> o]

InRegister(i) == location[i].kind = "REGISTER"
InStack(i) == location[i].kind = "STACK"

-----------------------------------------------------------------------------

\* free_regs_ as the constructor fills it.
InitialFree == Registers

Init ==
    /\ start \in [Intervals -> Positions]
    /\ end \in [Intervals -> Positions]
    /\ \A i \in Intervals : start[i] < end[i]
    /\ pending = Intervals
    /\ active = {}
    /\ free = InitialFree
    /\ location = [i \in Intervals |-> Unassigned]
    /\ stackOffset = 0

\* Run returns at once without registers; otherwise c is next in sorted order.
IsCurrent(c) ==
    /\ NumRegs # 0
    /\ c \in pending
    /\ \A i \in pending : start[c] <= start[i]

\* Touching intervals expire: `>` in place of `>=`.
StillActiveUnlessTouching(c) == {a \in active : end[a] > start[c]}

\* ExpireOldIntervals(c): an interval that ends exactly where c starts stays.
StillActive(c) == {a \in active : end[a] >= start[c]}

\* Expired intervals keep their registers.
FreeAfterLeakyExpire(c) == free

FreeAfterExpire(c) ==
    free \cup {location[a].value : a \in {b \in active \ StillActive(c) : InRegister(b)}}

\* The victim taken from the front of active_.
Fronts(c) == {s \in StillActive(c) : \A a \in StillActive(c) : end[s] <= end[a]}

\* The intervals active_.back() may be once c has expired the old ones.
Backs(c) == {s \in StillActive(c) : \A a \in StillActive(c) : end[a] <= end[s]}

\* One register is never used.
MustSpillEarly(c) == Cardinality(StillActive(c)) >= NumRegs - 1

MustSpill(c) == Cardinality(StillActive(c)) = NumRegs \/ FreeAfterExpire(c) = {}

AllocateRegister(c) ==
    /\ IsCurrent(c)
    /\ ~MustSpill(c)
    /\ \E r \in FreeAfterExpire(c) :
        /\ \A q \in FreeAfterExpire(c) : r <= q
        /\ free' = FreeAfterExpire(c) \ {r}
        /\ location' = [location EXCEPT ![c] = Register(r)]
    /\ active' = StillActive(c) \cup {c}
    /\ pending' = pending \ {c}
    /\ UNCHANGED <<start, end, stackOffset>>

\* The first slot, again and again.
SameSlot == Stack(-8)

\* The slot the next spill gets: stack_offset_ grows by 8, the slot is its negative.
NextSlot == Stack(-(stackOffset + 8))

\* SpillAtInterval, s = active_.back() ends later than c and gives up its register.
SpillBack(c) ==
    /\ IsCurrent(c)
    /\ MustSpill(c)
    /\ \E s \in Backs(c) :
        /\ end[s] > end[c]
        /\ location' = [location EXCEPT ![c] = location[s], ![s] = NextSlot]
        /\ active' = (StillActive(c) \ {s}) \cup {c}
    /\ stackOffset' = stackOffset + 8
    /\ free' = FreeAfterExpire(c)
    /\ pending' = pending \ {c}
    /\ UNCHANGED <<start, end>>

\* SpillAtInterval, nothing active ends later than c.
SpillCurrent(c) ==
    /\ IsCurrent(c)
    /\ MustSpill(c)
    /\ \E s \in Backs(c) : end[s] <= end[c]
    /\ location' = [location EXCEPT ![c] = NextSlot]
    /\ stackOffset' = stackOffset + 8
    /\ active' = StillActive(c)
    /\ free' = FreeAfterExpire(c)
    /\ pending' = pending \ {c}
    /\ UNCHANGED <<start, end>>

\* The loop is over (or there was never a register): Run goes on to the rewrite.
Finished == pending = {} \/ NumRegs = 0

Finish == Finished /\ UNCHANGED vars

Next ==
    \/ \E c \in Intervals : AllocateRegister(c) \/ SpillBack(c) \/ SpillCurrent(c)
    \/ Finish

Spec == Init /\ [][Next]_vars

-----------------------------------------------------------------------------

TypeOK ==
    /\ start \in [Intervals -> Positions]
    /\ end \in [Intervals -> Positions]
    /\ pending \in SUBSET Intervals
    /\ active \in SUBSET Intervals
    /\ free \in SUBSET Registers
    /\ location \in [Intervals -> [kind : {"UNASSIGNED", "REGISTER", "STACK"}, value : Int]]
    /\ stackOffset \in Nat

(***************************************************************************)
(* The allocation is valid at every moment of the loop: intervals that     *)
(* share a register do not even touch.  (VerifyAllocation in               *)
(* register_allocator_test.cpp asks the weaker half-open question of the   *)
(* final result only.)                                                     *)
(***************************************************************************)
Apart(i, j) == end[i] < start[j] \/ end[j] < start[i]

NoConflict == \A i, j \in Intervals :
    i # j /\ InRegister(i) /\ InRegister(j) /\ location[i] = location[j] => Apart(i, j)

(***************************************************************************)
(* No register leaks and none is handed out twice: between iterations each *)
(* register is free or held by exactly one active interval.  So the test   *)
(* `active_.size() == num_regs_` is true just when no register is free:    *)
(* the fall-back in AllocateRegister is dead, and active_.back() is never  *)
(* taken of an empty vector.                                               *)
(***************************************************************************)
HeldOnce ==
    /\ \A a \in active : InRegister(a) /\ location[a].value \in Registers \ free
    /\ \A r \in Registers \ free : \E a \in active : location[a] = Register(r)
    /\ \A a, b \in active : location[a] = location[b] => a = b

RegisterPartition == HeldOnce /\ (Cardinality(active) = NumRegs <=> free = {})

(***************************************************************************)
(* An interval is on the stack only under pressure: at the start of some   *)
(* interval that it is live at, more intervals are live than there are     *)
(* registers.                                                              *)
(***************************************************************************)
LiveAtStartOf(c) == {i \in Intervals : start[i] <= start[c] /\ start[c] <= end[i]}

SpillOnlyUnderPressure == \A i \in Intervals : InStack(i) =>
    \E c \in Intervals : i \in LiveAtStartOf(c) /\ Cardinality(LiveAtStartOf(c)) > NumRegs

(***************************************************************************)
(* The choice of the victim: the interval an iteration sends to the stack  *)
(* ends no earlier than any interval left in a register after it.          *)
(***************************************************************************)
FurthestEndSpilled == [][
    \A v \in Intervals : ~InStack(v) /\ InStack(v)' => \A a \in active' : end[a] <= end[v]
    ]_vars

(***************************************************************************)
(* The loop implements the promise of RegisterAssignment: a register only  *)
(* beside intervals that are apart, a fresh slot for each spill, no        *)
(* decision revised but by a spill.  The slots are multiples of eight.     *)
(***************************************************************************)
Slots == {-8 * k : k \in 1 .. Cardinality(Intervals)}

Assignment == INSTANCE RegisterAssignment

ImplementsAssignment == Assignment!Spec

=============================================================================
