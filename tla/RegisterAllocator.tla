-------------------------- MODULE RegisterAllocator --------------------------
(***************************************************************************)
(* RegisterAllocator::Run up to the rewrite, with its vectors: intervals_, *)
(* collected in linear order and sorted once, and active_, kept sorted by  *)
(* end with std::lower_bound.  An interval is named by its place in the    *)
(* linear order of instructions.  LinearScan is what this implements; here *)
(* the order of equal keys, and so the victim among equal ends, is the one *)
(* the vectors give.                                                       *)
(***************************************************************************)
EXTENDS Integers, FiniteSets, SequencesExt

CONSTANTS
    Intervals,      \* 1 .. the number of instructions with a live interval
    NumTotalRegs,
    Positions

ASSUME IntervalsAssumption == IsFiniteSet(Intervals)
ASSUME InstructionsAssumption == Intervals = 1 .. Cardinality(Intervals)
ASSUME RegistersAssumption == NumTotalRegs \in Nat
ASSUME PositionsAssumption == Positions \subseteq Nat

NumReservedRegs == 2

NumRegs == IF NumTotalRegs <= NumReservedRegs THEN 0 ELSE NumTotalRegs - NumReservedRegs

VARIABLES
    start, end,     \* the hull of each interval
    intervals,      \* intervals_: in linear order, then sorted by start
    next,           \* the iteration of the main loop; 0 before the sort
    active,         \* active_
    free,           \* free_regs_
    location,
    stackOffset

vars == <<start, end, intervals, next, active, free, location, stackOffset>>

Unassigned == [kind |-> "UNASSIGNED", value |-> 0]
Register(r) == [kind |-> "REGISTER", value |-> r]
Stack(o) == [kind |-> "STACK", value |-> o]

-----------------------------------------------------------------------------

\* free_regs_ as the constructor fills it.
InitialFree == 0 .. (NumRegs - 1)

Init ==
    /\ start \in [Intervals -> Positions]
    /\ end \in [Intervals -> Positions]
    /\ \A i \in Intervals : start[i] < end[i]
    /\ intervals = [i \in Intervals |-> i]
    /\ next = 0
    /\ active = <<>>
    /\ free = InitialFree
    /\ location = [i \in Intervals |-> Unassigned]
    /\ stackOffset = 0

\* Sorted by the end of the hull.
SortedByEnd(s) == \A k \in 1 .. (Len(s) - 1) : end[s[k]] <= end[s[k + 1]]

SortedByStart(s) == \A k \in 1 .. (Len(s) - 1) : start[s[k]] <= start[s[k + 1]]

\* std::sort is not stable: any sorted arrangement may come out.
Sort ==
    /\ NumRegs # 0
    /\ next = 0
    /\ intervals' \in {s \in SetToSeqs(Intervals) : SortedByStart(s)}
    /\ next' = 1
    /\ UNCHANGED <<start, end, active, free, location, stackOffset>>

Looping == next \in 1 .. Len(intervals)

current == intervals[next]

\* ExpireOldIntervals: still_active after k of active_, and in the end.
StillActive ==
    LET kept[k \in 0 .. Len(active)] ==
            IF k = 0 THEN <<>>
            ELSE IF end[active[k]] >= start[current] THEN Append(kept[k - 1], active[k])
            ELSE kept[k - 1]
    IN  kept[Len(active)]
Expired == Range(active) \ Range(StillActive)
FreeAfterExpire ==
    free \cup {location[a].value : a \in {x \in Expired : location[x].kind = "REGISTER"}}

\* An insertion that trusts the order of the starts.
PushBack(s, i) == Append(s, i)

\* SortedInsert: std::lower_bound of a sorted vector, before any equal end.
SortedInsert(s, i) ==
    InsertAt(s, 1 + Cardinality({k \in DOMAIN s : end[s[k]] < end[i]}), i)

MustSpill == Len(StillActive) = NumRegs \/ FreeAfterExpire = {}

AllocateRegister ==
    /\ Looping
    /\ ~MustSpill
    /\ LET r == CHOOSE q \in FreeAfterExpire : \A p \in FreeAfterExpire : q <= p IN
        /\ location' = [location EXCEPT ![current] = Register(r)]
        /\ free' = FreeAfterExpire \ {r}
    /\ active' = SortedInsert(StillActive, current)
    /\ next' = next + 1
    /\ UNCHANGED <<start, end, intervals, stackOffset>>

\* The spilled instruction is left without a location.
NoSlot == Unassigned

NextSlot == Stack(-(stackOffset + 8))

SpillAtInterval ==
    /\ Looping
    /\ MustSpill
    /\ stackOffset' = stackOffset + 8
    /\ LET spill == Last(StillActive) IN
        \/ /\ end[spill] > end[current]
           /\ location' = [location EXCEPT ![current] = location[spill], ![spill] = NextSlot]
           /\ active' = SortedInsert(Front(StillActive), current)
        \/ /\ end[spill] <= end[current]
           /\ location' = [location EXCEPT ![current] = NextSlot]
           /\ active' = StillActive
    /\ free' = FreeAfterExpire
    /\ next' = next + 1
    /\ UNCHANGED <<start, end, intervals>>

Finished == NumRegs = 0 \/ next > Len(intervals)

Finish == Finished /\ UNCHANGED vars

Next == Sort \/ AllocateRegister \/ SpillAtInterval \/ Finish

\* Run is one call that nothing interrupts.
Spec == Init /\ [][Next]_vars /\ WF_vars(Next)

-----------------------------------------------------------------------------

(***************************************************************************)
(* active_ stays sorted by end, without repetition and within num_regs_,   *)
(* through every mix of expiry, insertion and spilling: lower_bound needs  *)
(* the order, and back() is the furthest end only because of it.           *)
(***************************************************************************)
ActiveSorted ==
    /\ \A k \in 1 .. (Len(active) - 1) : end[active[k]] <= end[active[k + 1]]
    /\ \A j, k \in DOMAIN active : active[j] = active[k] => j = k
    /\ Len(active) <= NumRegs

(***************************************************************************)
(* The vectors implement the sets of LinearScan: nothing is pending before *)
(* its turn or after, and back() is one of the victims allowed there.      *)
(***************************************************************************)
Pending == {intervals[k] : k \in {j \in Intervals : j >= next}}

Scan == INSTANCE LinearScan WITH pending <- Pending, active <- Range(active)

ImplementsLinearScan == Scan!Spec

(***************************************************************************)
(* The loop decides every interval, and what it decided stands at the end. *)
(***************************************************************************)
AllPlaced == \A i \in Intervals : location[i] # Unassigned

EventuallyAllPlaced == NumRegs # 0 => <>[]AllPlaced

=============================================================================
