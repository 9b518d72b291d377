----------------------------- MODULE MCSpillFill -----------------------------
EXTENDS SpillFill

(***************************************************************************)
(* Registers, slots, and phis and other instructions are each told apart   *)
(* by what is done with them alone, so one way to place the phis stands    *)
(* for all: in registers of their own, but for one that may be spilled.    *)
(***************************************************************************)
PhiRegister == CHOOSE f \in [Phis -> Registers] : \A p, q \in Phis : f[p] = f[q] => p = q

SpilledPhi == CHOOSE p \in Phis : TRUE

SpillSlot == CHOOSE s \in Slots : TRUE

(***************************************************************************)
(* A terminator reads any values, and three spilled inputs are more than   *)
(* the registers.  The first of them stands for either instruction.        *)
(***************************************************************************)
FirstRead == CHOOSE x \in Others : TRUE

MCTails == {t \in UNION {[1 .. n -> Others] : n \in 1 .. 3} : t[1] = FirstRead}

MCInit ==
    /\ location \in [Instructions -> Locations]
    /\ \A p \in Phis :
        location[p] = PhiRegister[p] \/ (p = SpilledPhi /\ location[p] = SpillSlot)
    /\ FillInit
    /\ ConflictsAreSeen

MCSpec == MCInit /\ [][FillNext]_<<vars, fillVars>> /\ WF_<<vars, fillVars>>(FillNext)

=============================================================================
