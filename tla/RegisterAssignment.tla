------------------------- MODULE RegisterAssignment -------------------------
(***************************************************************************)
(* What the register allocator promises the passes that follow it, with    *)
(* no word of how it chooses.  Every live interval is given a location     *)
(* once; it may later lose a register to another interval, and then it     *)
(* lives in a stack slot for good.  At every moment two intervals in one   *)
(* register are apart and two spilled intervals have different slots.      *)
(***************************************************************************)
EXTENDS Integers

CONSTANTS
    Intervals,      \* the live intervals of the function
    Registers,      \* the registers the allocator may hand out
    Slots           \* the stack offsets it may hand out

VARIABLES
    start, end,     \* the hull of each interval: first position, last position
    location        \* where each interval lives

vars == <<start, end, location>>

Unassigned == [kind |-> "UNASSIGNED", value |-> 0]
Register(r) == [kind |-> "REGISTER", value |-> r]
Stack(o) == [kind |-> "STACK", value |-> o]

Locations == {Unassigned} \cup {Register(r) : r \in Registers} \cup {Stack(o) : o \in Slots}

\* Touching at a position already counts as an overlap.
Apart(i, j) == end[i] < start[j] \/ end[j] < start[i]

\* r would hold i beside nothing that overlaps it, `except` aside.
Holds(r, i, except) ==
    \A j \in Intervals \ (except \cup {i}) : location[j] = Register(r) => Apart(i, j)

FreshSlot(o) == \A j \in Intervals : location[j] # Stack(o)

Init ==
    /\ start \in [Intervals -> Nat]
    /\ end \in [Intervals -> Nat]
    /\ \A i \in Intervals : start[i] < end[i]
    /\ location = [i \in Intervals |-> Unassigned]

Assign(i) ==
    /\ location[i] = Unassigned
    /\ \E r \in Registers :
        /\ Holds(r, i, {})
        /\ location' = [location EXCEPT ![i] = Register(r)]
    /\ UNCHANGED <<start, end>>

Spill(i) ==
    /\ location[i] = Unassigned
    /\ \E o \in Slots :
        /\ FreshSlot(o)
        /\ location' = [location EXCEPT ![i] = Stack(o)]
    /\ UNCHANGED <<start, end>>

\* i takes the register of j, which goes to the stack.
Evict(i, j) ==
    /\ location[i] = Unassigned
    /\ \E r \in Registers, o \in Slots :
        /\ location[j] = Register(r)
        /\ Holds(r, i, {j})
        /\ FreshSlot(o)
        /\ location' = [location EXCEPT ![i] = Register(r), ![j] = Stack(o)]
    /\ UNCHANGED <<start, end>>

Next == \E i \in Intervals :
    \/ Assign(i)
    \/ Spill(i)
    \/ \E j \in Intervals : Evict(i, j)

Spec == Init /\ [][Next]_vars

=============================================================================
