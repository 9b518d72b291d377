-------------------------- MODULE LinearScanProofs --------------------------
(***************************************************************************)
(* Proofs about LinearScan for every finite set of intervals and every     *)
(* number of registers.                                                    *)
(***************************************************************************)
EXTENDS LinearScan, FiniteSetTheorems, TLAPS

-----------------------------------------------------------------------------
(* What the auxiliary operators return. *)

Location == [kind : {"UNASSIGNED", "REGISTER", "STACK"}, value : Int]

LEMMA NumRegsNat == NumRegs \in Nat /\ Registers \subseteq Int
BY RegistersAssumption DEF NumRegs, NumReservedRegs, Registers

LEMMA LocationKinds ==
    /\ Unassigned \in Location /\ Unassigned.kind = "UNASSIGNED"
    /\ \A r \in Int : Register(r) \in Location /\ Register(r).kind = "REGISTER" /\ Register(r).value = r
    /\ \A o \in Int : Stack(o) \in Location /\ Stack(o).kind = "STACK" /\ Stack(o).value = o
BY DEF Location, Unassigned, Register, Stack

LEMMA HullsAreIntegers ==
    ASSUME TypeOK PROVE \A i \in Intervals : start[i] \in Int /\ end[i] \in Int
<1>1. \A p \in Positions : p \in Int
  BY PositionsAssumption
<1> QED
  BY <1>1 DEF TypeOK

-----------------------------------------------------------------------------
(* The inductive invariant.  NoConflict alone is not inductive: it says    *)
(* nothing of the intervals that left active, whose registers are handed   *)
(* out again.  What keeps them apart from every later interval is that     *)
(* they ended before all that is pending starts.                           *)

PendingUntouched == \A i \in pending : location[i] = Unassigned /\ i \notin active

ActiveHoldRegisters ==
    /\ \A a \in active : InRegister(a) /\ location[a].value \in Registers \ free
    /\ \A a, b \in active : location[a].value = location[b].value => a = b

EveryRegisterHeld == \A r \in Registers \ free : \E a \in active : location[a].value = r

RetiredEndBeforePending == \A i \in Intervals \ active : \A c \in pending :
    InRegister(i) => end[i] < start[c]

IInv ==
    /\ TypeOK
    /\ PendingUntouched
    /\ ActiveHoldRegisters
    /\ EveryRegisterHeld
    /\ RetiredEndBeforePending
    /\ NoConflict

LEMMA InitIInv == Init => IInv
<1> SUFFICES ASSUME Init PROVE IInv
  OBVIOUS
<1>1. TypeOK
  BY LocationKinds DEF Init, TypeOK, InitialFree, Location
<1>2. \A i \in Intervals : ~InRegister(i)
  BY LocationKinds DEF Init, InRegister
<1>3. PendingUntouched /\ ActiveHoldRegisters /\ EveryRegisterHeld
  BY DEF Init, InitialFree, PendingUntouched, ActiveHoldRegisters, EveryRegisterHeld
<1>4. RetiredEndBeforePending /\ NoConflict
  BY <1>2 DEF RetiredEndBeforePending, NoConflict
<1> QED
  BY <1>1, <1>3, <1>4 DEF IInv

(***************************************************************************)
(* ExpireOldIntervals, by itself, keeps the invariant: whatever leaves     *)
(* active ends before c starts, hence before all that is pending.          *)
(***************************************************************************)
LEMMA ExpireKeeps ==
    ASSUME IInv, NEW c \in Intervals, IsCurrent(c)
    PROVE  /\ StillActive(c) \subseteq active
           /\ FreeAfterExpire(c) \subseteq Registers
           /\ \A a \in StillActive(c) : location[a].value \notin FreeAfterExpire(c)
           /\ \A r \in Registers \ FreeAfterExpire(c) :
                 \E a \in StillActive(c) : location[a].value = r
           /\ \A i \in Intervals \ StillActive(c) : \A p \in pending :
                 InRegister(i) => end[i] < start[p]
<1> USE DEF IInv, StillActive, FreeAfterExpire
<1>1. StillActive(c) \subseteq active
  OBVIOUS
<1>2. FreeAfterExpire(c) \subseteq Registers
  BY DEF TypeOK, ActiveHoldRegisters
<1>3. ASSUME NEW a \in StillActive(c) PROVE location[a].value \notin FreeAfterExpire(c)
  BY DEF ActiveHoldRegisters
<1>4. ASSUME NEW r \in Registers \ FreeAfterExpire(c)
      PROVE  \E a \in StillActive(c) : location[a].value = r
  BY DEF EveryRegisterHeld, ActiveHoldRegisters
<1>5. ASSUME NEW i \in Intervals \ StillActive(c), NEW p \in pending, InRegister(i)
      PROVE  end[i] < start[p]
  <2>0. p \in Intervals /\ start[c] <= start[p]
    BY DEF TypeOK, IsCurrent
  <2>1. CASE i \in active
    BY <2>0, <2>1, HullsAreIntegers
  <2>2. CASE i \notin active
    BY <1>5, <2>2 DEF RetiredEndBeforePending
  <2> QED
    BY <2>1, <2>2
<1> QED
  BY <1>1, <1>2, <1>3, <1>4, <1>5

LEMMA AllocateKeeps ==
    ASSUME IInv, NEW c \in Intervals, AllocateRegister(c)
    PROVE  IInv'
<1> DEFINE S == StillActive(c)
           F == FreeAfterExpire(c)
<1>0. PICK r \in F : /\ free' = F \ {r}
                     /\ location' = [location EXCEPT ![c] = Register(r)]
  BY DEF AllocateRegister
<1>1. /\ IsCurrent(c) /\ c \in pending
      /\ active' = S \cup {c}
      /\ pending' = pending \ {c}
      /\ UNCHANGED <<start, end, stackOffset>>
  BY DEF AllocateRegister, IsCurrent
<1>2. /\ S \subseteq active
      /\ F \subseteq Registers
      /\ \A a \in S : location[a].value \notin F
      /\ \A q \in Registers \ F : \E a \in S : location[a].value = q
      /\ \A i \in Intervals \ S : \A p \in pending : InRegister(i) => end[i] < start[p]
  BY <1>1, ExpireKeeps
<1>3. c \notin active /\ r \in Int
  BY <1>1, <1>2, NumRegsNat DEF IInv, PendingUntouched
<1>4. location \in [Intervals -> Location]
  BY DEF IInv, TypeOK, Location
<1>5. /\ location' \in [Intervals -> Location]
      /\ location'[c] = Register(r)
      /\ \A i \in Intervals \ {c} : location'[i] = location[i]
  BY <1>0, <1>3, <1>4, LocationKinds
<1>6. InRegister(c)' /\ location'[c].value = r
  BY <1>3, <1>5, LocationKinds DEF InRegister
<1>7. \A i \in Intervals \ {c} : InRegister(i)' <=> InRegister(i)
  BY <1>5 DEF InRegister
<1> HIDE DEF S, F
<1>8. TypeOK'
  BY <1>0, <1>1, <1>2, <1>5 DEF IInv, TypeOK, Location
<1>9. PendingUntouched'
  BY <1>1, <1>2, <1>5 DEF IInv, TypeOK, PendingUntouched
<1>10. ActiveHoldRegisters'
  BY <1>0, <1>1, <1>2, <1>3, <1>5, <1>6, <1>7 DEF IInv, TypeOK, ActiveHoldRegisters
<1>11. EveryRegisterHeld'
  BY <1>0, <1>1, <1>2, <1>3, <1>5, <1>6 DEF IInv, TypeOK, EveryRegisterHeld
<1>12. RetiredEndBeforePending'
  BY <1>1, <1>2, <1>7 DEF IInv, TypeOK, RetiredEndBeforePending
<1>13. NoConflict'
  <2> SUFFICES ASSUME NEW i \in Intervals, NEW j \in Intervals, i # j,
                      InRegister(i)', InRegister(j)', location'[i] = location'[j]
               PROVE  Apart(i, j)'
    BY DEF NoConflict
  <2>1. \A k \in Intervals \ {c} : InRegister(k) /\ location[k].value = r => end[k] < start[c]
    BY <1>0, <1>1, <1>2
  <2>2. CASE i = c
    BY <1>1, <1>5, <1>6, <1>7, <2>1, <2>2 DEF Apart
  <2>3. CASE j = c
    BY <1>1, <1>5, <1>6, <1>7, <2>1, <2>3 DEF Apart
  <2>4. CASE i # c /\ j # c
    BY <1>1, <1>5, <1>7, <2>4 DEF IInv, NoConflict, Apart
  <2> QED
    BY <2>2, <2>3, <2>4
<1> QED
  BY <1>8, <1>9, <1>10, <1>11, <1>12, <1>13 DEF IInv

LEMMA SpillBackKeeps ==
    ASSUME IInv, NEW c \in Intervals, SpillBack(c)
    PROVE  IInv'
<1> DEFINE S == StillActive(c)
           F == FreeAfterExpire(c)
<1>0. PICK s \in S : /\ location' = [location EXCEPT ![c] = location[s], ![s] = NextSlot]
                     /\ active' = (S \ {s}) \cup {c}
  BY DEF SpillBack, Backs
<1>1. /\ IsCurrent(c) /\ c \in pending
      /\ free' = F
      /\ stackOffset' = stackOffset + 8
      /\ pending' = pending \ {c}
      /\ UNCHANGED <<start, end>>
  BY DEF SpillBack, IsCurrent
<1>2. /\ S \subseteq active
      /\ F \subseteq Registers
      /\ \A a \in S : location[a].value \notin F
      /\ \A q \in Registers \ F : \E a \in S : location[a].value = q
      /\ \A i \in Intervals \ S : \A p \in pending : InRegister(i) => end[i] < start[p]
  BY <1>1, ExpireKeeps
<1>3. /\ c \notin active /\ s \in Intervals /\ s # c
      /\ stackOffset \in Nat
      /\ location \in [Intervals -> Location]
  BY <1>0, <1>1, <1>2 DEF IInv, PendingUntouched, TypeOK, Location
<1>4. NextSlot \in Location /\ NextSlot.kind = "STACK"
  BY <1>3, LocationKinds DEF NextSlot
<1>5. /\ location' \in [Intervals -> Location]
      /\ location'[c] = location[s]
      /\ location'[s] = NextSlot
      /\ \A i \in Intervals \ {c, s} : location'[i] = location[i]
  BY <1>0, <1>3, <1>4
<1>6. InRegister(s) /\ location[s].value \in Registers \ F
  BY <1>0, <1>2 DEF IInv, TypeOK, ActiveHoldRegisters
<1>7. /\ InRegister(c)'
      /\ ~InRegister(s)'
      /\ \A i \in Intervals \ {c, s} : InRegister(i)' <=> InRegister(i)
  BY <1>4, <1>5, <1>6 DEF InRegister
<1>8. \A a, b \in S : location[a].value = location[b].value => a = b
  BY <1>2 DEF IInv, ActiveHoldRegisters
<1> HIDE DEF S, F
<1>9. TypeOK'
  BY <1>0, <1>1, <1>2, <1>3, <1>5 DEF IInv, TypeOK, Location
<1>10. PendingUntouched'
  BY <1>0, <1>1, <1>2, <1>3, <1>5 DEF IInv, TypeOK, PendingUntouched
<1>11. ActiveHoldRegisters'
  <2>1. \A a \in active' : a = c \/ (a \in S /\ a \in Intervals \ {c, s})
    BY <1>0, <1>2, <1>3 DEF IInv, TypeOK
  <2>2. \A a \in S : InRegister(a) /\ location[a].value \in Registers \ F
    BY <1>2 DEF IInv, TypeOK, ActiveHoldRegisters
  <2>3. \A a \in active' : InRegister(a)' /\ location'[a].value \in Registers \ free'
    BY <1>1, <1>5, <1>6, <1>7, <2>1, <2>2
  <2>4. ASSUME NEW a \in active', NEW b \in active', location'[a].value = location'[b].value
        PROVE  a = b
    BY <1>0, <1>5, <1>8, <2>1, <2>4
  <2> QED
    BY <2>3, <2>4 DEF ActiveHoldRegisters
<1>12. EveryRegisterHeld'
  <2> SUFFICES ASSUME NEW q \in Registers \ F
               PROVE  \E a \in active' : location'[a].value = q
    BY <1>1 DEF EveryRegisterHeld
  <2>1. PICK a \in S : location[a].value = q
    BY <1>2
  <2>2. CASE a = s
    BY <1>0, <1>5, <2>1, <2>2
  <2>3. CASE a # s
    BY <1>0, <1>2, <1>3, <1>5, <2>1, <2>3 DEF IInv, TypeOK
  <2> QED
    BY <2>2, <2>3
<1>13. RetiredEndBeforePending'
  BY <1>0, <1>1, <1>2, <1>7 DEF IInv, TypeOK, RetiredEndBeforePending
<1>14. NoConflict'
  <2> SUFFICES ASSUME NEW i \in Intervals, NEW j \in Intervals, i # j,
                      InRegister(i)', InRegister(j)', location'[i] = location'[j]
               PROVE  Apart(i, j)'
    BY DEF NoConflict
  <2>1. ASSUME NEW k \in Intervals \ {c, s}, InRegister(k), location[k] = location[s]
        PROVE  end[k] < start[c]
    BY <1>0, <1>1, <1>2, <1>8, <2>1
  <2>2. CASE i = c
    BY <1>1, <1>5, <1>7, <2>1, <2>2 DEF Apart
  <2>3. CASE j = c
    BY <1>1, <1>5, <1>7, <2>1, <2>3 DEF Apart
  <2>4. CASE i # c /\ j # c
    BY <1>1, <1>5, <1>7, <2>4 DEF IInv, NoConflict, Apart
  <2> QED
    BY <2>2, <2>3, <2>4
<1> QED
  BY <1>9, <1>10, <1>11, <1>12, <1>13, <1>14 DEF IInv

LEMMA SpillCurrentKeeps ==
    ASSUME IInv, NEW c \in Intervals, SpillCurrent(c)
    PROVE  IInv'
<1> DEFINE S == StillActive(c)
           F == FreeAfterExpire(c)
<1>1. /\ IsCurrent(c) /\ c \in pending
      /\ location' = [location EXCEPT ![c] = NextSlot]
      /\ active' = S
      /\ free' = F
      /\ stackOffset' = stackOffset + 8
      /\ pending' = pending \ {c}
      /\ UNCHANGED <<start, end>>
  BY DEF SpillCurrent, IsCurrent
<1>2. /\ S \subseteq active
      /\ F \subseteq Registers
      /\ \A a \in S : location[a].value \notin F
      /\ \A q \in Registers \ F : \E a \in S : location[a].value = q
      /\ \A i \in Intervals \ S : \A p \in pending : InRegister(i) => end[i] < start[p]
  BY <1>1, ExpireKeeps
<1>3. c \notin active /\ stackOffset \in Nat /\ location \in [Intervals -> Location]
  BY <1>1 DEF IInv, PendingUntouched, TypeOK, Location
<1>4. NextSlot \in Location /\ NextSlot.kind = "STACK"
  BY <1>3, LocationKinds DEF NextSlot
<1>5. /\ location' \in [Intervals -> Location]
      /\ location'[c] = NextSlot
      /\ \A i \in Intervals \ {c} : location'[i] = location[i]
  BY <1>1, <1>3, <1>4
<1>6. ~InRegister(c)' /\ \A i \in Intervals \ {c} : InRegister(i)' <=> InRegister(i)
  BY <1>4, <1>5 DEF InRegister
<1> HIDE DEF S, F
<1>7. TypeOK'
  BY <1>1, <1>2, <1>3, <1>5 DEF IInv, TypeOK, Location
<1>8. PendingUntouched'
  BY <1>1, <1>2, <1>5 DEF IInv, TypeOK, PendingUntouched
<1>9. ActiveHoldRegisters'
  BY <1>1, <1>2, <1>3, <1>5, <1>6 DEF IInv, TypeOK, ActiveHoldRegisters
<1>10. EveryRegisterHeld'
  BY <1>1, <1>2, <1>3, <1>5 DEF IInv, TypeOK, EveryRegisterHeld
<1>11. RetiredEndBeforePending'
  BY <1>1, <1>2, <1>6 DEF IInv, TypeOK, RetiredEndBeforePending
<1>12. NoConflict'
  BY <1>1, <1>5, <1>6 DEF IInv, NoConflict, Apart
<1> QED
  BY <1>7, <1>8, <1>9, <1>10, <1>11, <1>12 DEF IInv

(***************************************************************************)
(* Every step of the loop keeps the invariant.                             *)
(***************************************************************************)
LEMMA NextIInv == IInv /\ [Next]_vars => IInv'
<1> SUFFICES ASSUME IInv, [Next]_vars PROVE IInv'
  OBVIOUS
<1>1. CASE UNCHANGED vars
  BY <1>1 DEF vars, IInv, TypeOK, PendingUntouched, ActiveHoldRegisters, EveryRegisterHeld,
              RetiredEndBeforePending, NoConflict, InRegister, Apart
<1>2. CASE Finish
  BY <1>1, <1>2 DEF Finish
<1>3. ASSUME NEW c \in Intervals, AllocateRegister(c) PROVE IInv'
  BY <1>3, AllocateKeeps
<1>4. ASSUME NEW c \in Intervals, SpillBack(c) PROVE IInv'
  BY <1>4, SpillBackKeeps
<1>5. ASSUME NEW c \in Intervals, SpillCurrent(c) PROVE IInv'
  BY <1>5, SpillCurrentKeeps
<1> QED
  BY <1>1, <1>2, <1>3, <1>4, <1>5 DEF Next

THEOREM InductiveInvariant == Spec => []IInv
BY InitIInv, NextIInv, PTL DEF Spec

(***************************************************************************)
(* RegisterAllocator::Run keeps its containers well typed: free_regs_ only *)
(* ever holds registers the constructor put there.                         *)
(***************************************************************************)
THEOREM TypeCorrect == Spec => []TypeOK
<1>1. IInv => TypeOK
  BY DEF IInv
<1> QED
  BY <1>1, InductiveInvariant, PTL

(***************************************************************************)
(* The allocation is valid after every iteration of the main loop of Run:  *)
(* two intervals in one register never overlap nor touch, however many     *)
(* intervals and registers there are.                                      *)
(***************************************************************************)
THEOREM AllocationIsValid == Spec => []NoConflict
<1>1. IInv => NoConflict
  BY DEF IInv
<1> QED
  BY <1>1, InductiveInvariant, PTL

-----------------------------------------------------------------------------
(* Counting.  The held registers and the intervals that hold them are in   *)
(* bijection, so the size of active_ and the number of free registers      *)
(* determine one another.                                                  *)

LEMMA SizeTest ==
    ASSUME NEW S \in SUBSET Intervals, NEW F \in SUBSET Registers,
           \A a \in S : location[a].value \in Registers \ F,
           \A a, b \in S : location[a].value = location[b].value => a = b,
           \A r \in Registers \ F : \E a \in S : location[a].value = r
    PROVE  Cardinality(S) = NumRegs <=> F = {}
<1> DEFINE H == Registers \ F
           f == [a \in S |-> location[a].value]
<1>1. f \in Bijection(S, H)
  <2>1. f \in [S -> H]
    OBVIOUS
  <2>2. \A a, b \in S : f[a] = f[b] => a = b
    OBVIOUS
  <2>3. \A r \in H : \E a \in S : f[a] = r
    OBVIOUS
  <2> QED
    BY <2>1, <2>2, <2>3 DEF Bijection, Injection, Surjection, IsInjective
<1>2. IsFiniteSet(S) /\ Cardinality(S) = Cardinality(H)
  <2>1. IsFiniteSet(S)
    BY IntervalsAssumption, FS_Subset
  <2>2. ExistsBijection(S, H)
    BY <1>1 DEF ExistsBijection
  <2> QED
    BY <2>1, <2>2, FS_Bijection
<1>3. IsFiniteSet(Registers) /\ Cardinality(Registers) = NumRegs
  BY NumRegsNat, FS_Interval DEF Registers
<1>4. Cardinality(H) = Cardinality(Registers) => H = Registers
  BY <1>3, FS_Subset
<1> QED
  BY <1>2, <1>3, <1>4

LEMMA PartitionFromIInv == IInv => RegisterPartition
<1> SUFFICES ASSUME IInv PROVE RegisterPartition
  OBVIOUS
<1>1. \A a \in active : location[a] \in Location /\ location[a] = Register(location[a].value)
  BY DEF IInv, TypeOK, ActiveHoldRegisters, InRegister, Location, Register
<1>2. HeldOnce
  BY <1>1 DEF IInv, ActiveHoldRegisters, EveryRegisterHeld, HeldOnce
<1>3. Cardinality(active) = NumRegs <=> free = {}
  BY SizeTest DEF IInv, TypeOK, ActiveHoldRegisters, EveryRegisterHeld
<1> QED
  BY <1>2, <1>3 DEF RegisterPartition

(***************************************************************************)
(* Between iterations every register is free or held by exactly one active *)
(* interval, and active_ is full exactly when free_regs_ is empty: the     *)
(* fall-back of AllocateRegister cannot be taken, nor can SpillAtInterval  *)
(* be reached with an empty active_.                                       *)
(***************************************************************************)
THEOREM RegistersPartitioned == Spec => []RegisterPartition
BY PartitionFromIInv, InductiveInvariant, PTL

-----------------------------------------------------------------------------
(* Spilling.  The iteration that spills has NumRegs intervals active, all  *)
(* live where its own interval starts: they started no later, because the  *)
(* intervals come in order of their start, and have not expired.           *)

NonEmptyHulls == \A i \in Intervals : start[i] < end[i]

InOrderOfStart == \A i \in Intervals \ pending : \A p \in pending : start[i] <= start[p]

OrderInv == NonEmptyHulls /\ InOrderOfStart

LEMMA StepShape ==
    ASSUME IInv, NEW c \in Intervals,
           AllocateRegister(c) \/ SpillBack(c) \/ SpillCurrent(c)
    PROVE  IsCurrent(c) /\ pending' = pending \ {c} /\ UNCHANGED <<start, end>>
BY DEF AllocateRegister, SpillBack, SpillCurrent

LEMMA OrderInvInvariant == Spec => []OrderInv
<1>1. Init => OrderInv
  BY DEF Init, OrderInv, NonEmptyHulls, InOrderOfStart
<1>2. IInv /\ OrderInv /\ [Next]_vars => OrderInv'
  <2> SUFFICES ASSUME IInv, OrderInv, [Next]_vars PROVE OrderInv'
    OBVIOUS
  <2>1. CASE UNCHANGED vars
    BY <2>1 DEF vars, OrderInv, NonEmptyHulls, InOrderOfStart
  <2>2. CASE Finish
    BY <2>1, <2>2 DEF Finish
  <2>3. ASSUME NEW c \in Intervals,
               AllocateRegister(c) \/ SpillBack(c) \/ SpillCurrent(c)
        PROVE  OrderInv'
    BY <2>3, StepShape DEF OrderInv, NonEmptyHulls, InOrderOfStart, IsCurrent
  <2> QED
    BY <2>1, <2>2, <2>3 DEF Next
<1> QED
  BY <1>1, <1>2, InductiveInvariant, PTL DEF Spec

LEMMA PressureAtSpill ==
    ASSUME IInv, OrderInv, NEW c \in Intervals, IsCurrent(c), MustSpill(c)
    PROVE  /\ StillActive(c) \cup {c} \subseteq LiveAtStartOf(c)
           /\ Cardinality(LiveAtStartOf(c)) > NumRegs
<1> DEFINE S == StillActive(c)
           F == FreeAfterExpire(c)
<1>1. /\ S \subseteq active
      /\ F \subseteq Registers
      /\ \A a \in S : location[a].value \notin F
      /\ \A q \in Registers \ F : \E a \in S : location[a].value = q
  BY ExpireKeeps
<1>2. /\ S \subseteq Intervals \ pending
      /\ \A a \in S : location[a].value \in Registers \ F
      /\ \A a, b \in S : location[a].value = location[b].value => a = b
  BY <1>1 DEF IInv, TypeOK, PendingUntouched, ActiveHoldRegisters
<1>3. Cardinality(S) = NumRegs
  <2>1. Cardinality(S) = NumRegs <=> F = {}
    BY <1>1, <1>2, SizeTest
  <2> QED
    BY <2>1 DEF MustSpill
<1>4. S \cup {c} \subseteq LiveAtStartOf(c)
  <2>1. start[c] <= start[c] /\ start[c] <= end[c]
    BY HullsAreIntegers DEF IInv, OrderInv, NonEmptyHulls
  <2>2. ASSUME NEW a \in S PROVE start[a] <= start[c] /\ start[c] <= end[a]
    <3>1. a \in Intervals \ pending /\ end[a] >= start[c]
      BY <1>2 DEF StillActive
    <3> QED
      BY <3>1, HullsAreIntegers DEF IInv, OrderInv, InOrderOfStart, IsCurrent
  <2> QED
    BY <1>2, <2>1, <2>2 DEF LiveAtStartOf
<1>5. IsFiniteSet(S) /\ Cardinality(S \cup {c}) = NumRegs + 1
  <2>1. IsFiniteSet(S)
    BY <1>2, IntervalsAssumption, FS_Subset
  <2>2. c \notin S
    BY <1>2 DEF IsCurrent
  <2> QED
    BY <1>3, <2>1, <2>2, FS_AddElement
<1>6. IsFiniteSet(LiveAtStartOf(c)) /\ Cardinality(LiveAtStartOf(c)) \in Nat
  <2>1. LiveAtStartOf(c) \in SUBSET Intervals
    BY DEF LiveAtStartOf
  <2> QED
    BY <2>1, IntervalsAssumption, FS_Subset, FS_CardinalityType
<1>7. Cardinality(S \cup {c}) <= Cardinality(LiveAtStartOf(c))
  BY <1>4, <1>6, FS_Subset
<1> QED
  BY <1>4, <1>5, <1>6, <1>7, NumRegsNat

(***************************************************************************)
(* The one interval an iteration sends to the stack, if any, is active and *)
(* not expired, or the iteration's own.                                    *)
(***************************************************************************)
LEMMA WhoIsSpilled ==
    ASSUME IInv, NEW c \in Intervals,
           AllocateRegister(c) \/ SpillBack(c) \/ SpillCurrent(c)
    PROVE  \/ \A i \in Intervals : InStack(i)' <=> InStack(i)
           \/ /\ IsCurrent(c) /\ MustSpill(c)
              /\ \E v \in StillActive(c) \cup {c} :
                    /\ ~InStack(v) /\ location'[v] = NextSlot
                    /\ \A i \in Intervals \ {v} :
                          /\ InStack(i)' <=> InStack(i)
                          /\ InStack(i) => location'[i] = location[i]
              /\ stackOffset' = stackOffset + 8
<1>0. /\ location \in [Intervals -> Location] /\ stackOffset \in Nat
      /\ IsCurrent(c) /\ location[c] = Unassigned /\ ~InStack(c)
      /\ StillActive(c) \subseteq Intervals
      /\ \A a \in StillActive(c) : InRegister(a) /\ ~InStack(a) /\ a # c
  BY LocationKinds DEF IInv, TypeOK, Location, PendingUntouched, ActiveHoldRegisters,
     InStack, InRegister, StillActive, IsCurrent, AllocateRegister, SpillBack, SpillCurrent
<1>1. CASE AllocateRegister(c)
  <2>1. PICK r \in FreeAfterExpire(c) : location' = [location EXCEPT ![c] = Register(r)]
    BY <1>1 DEF AllocateRegister
  <2>2. Register(r).kind = "REGISTER"
    BY DEF Register
  <2> QED
    BY <1>0, <2>1, <2>2 DEF InStack
<1>2. CASE SpillBack(c)
  <2>1. PICK s \in StillActive(c) :
            location' = [location EXCEPT ![c] = location[s], ![s] = NextSlot]
    BY <1>2 DEF SpillBack, Backs
  <2>2. location'[s] = NextSlot /\ ~InStack(c)' /\ ~InStack(s)
    BY <1>0, <2>1 DEF InStack
  <2>3. \A i \in Intervals \ {s, c} : location'[i] = location[i]
    BY <1>0, <2>1
  <2>4. MustSpill(c) /\ stackOffset' = stackOffset + 8
    BY <1>2 DEF SpillBack
  <2> QED
    BY <1>0, <2>2, <2>3, <2>4 DEF InStack
<1>3. CASE SpillCurrent(c)
  <2>1. location' = [location EXCEPT ![c] = NextSlot]
    BY <1>3 DEF SpillCurrent
  <2>2. MustSpill(c) /\ stackOffset' = stackOffset + 8
    BY <1>3 DEF SpillCurrent
  <2>3. location'[c] = NextSlot /\ \A i \in Intervals \ {c} : location'[i] = location[i]
    BY <1>0, <2>1
  <2> QED
    BY <1>0, <2>2, <2>3 DEF InStack
<1> QED
  BY <1>1, <1>2, <1>3

LEMMA PressureStep ==
    ASSUME IInv, OrderInv, SpillOnlyUnderPressure, [Next]_vars
    PROVE  SpillOnlyUnderPressure'
<1>1. CASE UNCHANGED vars
  <2>1. \A i : (InStack(i)' <=> InStack(i)) /\ LiveAtStartOf(i)' = LiveAtStartOf(i)
    BY <1>1 DEF vars, InStack, LiveAtStartOf
  <2> QED
    BY <2>1 DEF SpillOnlyUnderPressure
<1>2. CASE Finish
  BY <1>1, <1>2 DEF Finish
<1>3. ASSUME NEW c \in Intervals,
             AllocateRegister(c) \/ SpillBack(c) \/ SpillCurrent(c)
      PROVE  SpillOnlyUnderPressure'
  <2>0. \A d \in Intervals : LiveAtStartOf(d)' = LiveAtStartOf(d)
    BY <1>3, StepShape DEF LiveAtStartOf
  <2> SUFFICES ASSUME NEW i \in Intervals, InStack(i)'
               PROVE  \E d \in Intervals : /\ i \in LiveAtStartOf(d)
                                           /\ Cardinality(LiveAtStartOf(d)) > NumRegs
    BY <2>0 DEF SpillOnlyUnderPressure
  <2>1. CASE InStack(i)
    BY <2>1 DEF SpillOnlyUnderPressure
  <2>2. CASE ~InStack(i)
    <3>1. IsCurrent(c) /\ MustSpill(c) /\ i \in StillActive(c) \cup {c}
      BY <1>3, <2>2, WhoIsSpilled
    <3> QED
      BY <3>1, PressureAtSpill
  <2> QED
    BY <2>1, <2>2
<1> QED
  BY <1>1, <1>2, <1>3 DEF Next

(***************************************************************************)
(* The loop never spills an interval that could have stayed: at the start  *)
(* of some interval it overlaps, more intervals are live than there are    *)
(* registers.                                                              *)
(***************************************************************************)
THEOREM SpillsAreForced == Spec => []SpillOnlyUnderPressure
<1>1. Init => SpillOnlyUnderPressure
  BY LocationKinds DEF Init, SpillOnlyUnderPressure, InStack
<1>2. IInv /\ OrderInv /\ SpillOnlyUnderPressure /\ [Next]_vars => SpillOnlyUnderPressure'
  BY PressureStep
<1> QED
  BY <1>1, <1>2, InductiveInvariant, OrderInvInvariant, PTL DEF Spec

-----------------------------------------------------------------------------
(* Refinement.  The k-th spill gets slot -8k, so the slots in use are the  *)
(* first ones and the next is fresh.                                       *)

Spilled == {i \in Intervals : InStack(i)}

SlotInv ==
    /\ stackOffset = 8 * Cardinality(Spilled)
    /\ \A i \in Spilled : location[i].value >= -stackOffset

LEMMA SpilledFinite == IsFiniteSet(Spilled) /\ Cardinality(Spilled) \in Nat
BY IntervalsAssumption, FS_Subset, FS_CardinalityType DEF Spilled

LEMMA SlotStep ==
    ASSUME IInv, SlotInv, [Next]_vars
    PROVE  SlotInv'
<1>1. CASE UNCHANGED vars
  BY <1>1 DEF vars, SlotInv, Spilled, InStack
<1>2. CASE Finish
  BY <1>1, <1>2 DEF Finish
<1>3. ASSUME NEW c \in Intervals, AllocateRegister(c) PROVE SlotInv'
  <2>1. PICK r : location' = [location EXCEPT ![c] = Register(r)]
    BY <1>3 DEF AllocateRegister
  <2>2. /\ stackOffset' = stackOffset /\ ~InStack(c) /\ c \in Intervals
        /\ location \in [Intervals -> Location]
    BY <1>3, LocationKinds DEF AllocateRegister, IsCurrent, IInv, TypeOK, Location,
       PendingUntouched, InStack
  <2>3. Register(r).kind = "REGISTER"
    BY DEF Register
  <2>4. ~InStack(c)' /\ \A i \in Intervals \ {c} : location'[i] = location[i]
    BY <2>1, <2>2, <2>3 DEF InStack
  <2>5. Spilled' = Spilled /\ c \notin Spilled
    BY <2>2, <2>4 DEF Spilled, InStack
  <2> QED
    BY <2>2, <2>4, <2>5 DEF SlotInv, Spilled
<1>4. ASSUME NEW c \in Intervals, SpillBack(c) \/ SpillCurrent(c) PROVE SlotInv'
  <2>1. /\ stackOffset' = stackOffset + 8
        /\ StillActive(c) \cup {c} \subseteq Intervals
        /\ location \in [Intervals -> Location]
        /\ stackOffset \in Nat
    BY <1>4 DEF SpillBack, SpillCurrent, StillActive, IInv, TypeOK, Location
  <2>2. NextSlot.kind = "STACK" /\ NextSlot.value = -(stackOffset + 8)
    BY DEF NextSlot, Stack
  <2>3. PICK v \in StillActive(c) \cup {c} :
            /\ ~InStack(v) /\ location'[v] = NextSlot
            /\ \A i \in Intervals \ {v} :
                  /\ InStack(i)' <=> InStack(i)
                  /\ InStack(i) => location'[i] = location[i]
    <3>1. CASE SpillBack(c)
      <4>1. PICK s \in StillActive(c) :
                location' = [location EXCEPT ![c] = location[s], ![s] = NextSlot]
        BY <3>1 DEF SpillBack, Backs
      <4>2. InStack(s)' /\ ~InStack(s)
        BY <2>1, <2>2, <4>1, LocationKinds DEF InStack, InRegister, IInv, ActiveHoldRegisters, StillActive
      <4> QED
        BY <1>4, <2>1, <4>2, WhoIsSpilled
    <3>2. CASE SpillCurrent(c)
      <4>1. InStack(c)' /\ ~InStack(c)
        BY <2>1, <2>2, <3>2, LocationKinds DEF SpillCurrent, IsCurrent, InStack, IInv, PendingUntouched
      <4> QED
        BY <1>4, <2>1, <4>1, WhoIsSpilled
    <3> QED
      BY <1>4, <3>1, <3>2
  <2>4. Spilled' = Spilled \cup {v} /\ v \notin Spilled
    BY <2>1, <2>2, <2>3 DEF Spilled, InStack
  <2>5. Cardinality(Spilled') = Cardinality(Spilled) + 1
    BY <2>4, SpilledFinite, FS_AddElement
  <2>6. stackOffset' = 8 * Cardinality(Spilled)'
    BY <2>1, <2>5, SpilledFinite DEF SlotInv
  <2>7. ASSUME NEW i \in Spilled' PROVE location'[i].value >= -stackOffset'
    <3>1. CASE i = v
      BY <2>1, <2>2, <2>3, <3>1
    <3>2. CASE i # v
      <4>1. i \in Spilled /\ location'[i] = location[i] /\ location[i].value \in Int
        BY <2>1, <2>3, <2>4, <3>2 DEF Spilled, Location
      <4> QED
        BY <2>1, <4>1 DEF SlotInv
    <3> QED
      BY <3>1, <3>2
  <2> QED
    BY <2>6, <2>7 DEF SlotInv
<1> QED
  BY <1>1, <1>2, <1>3, <1>4 DEF Next

LEMMA SlotInvariant == Spec => []SlotInv
<1>1. Init => SlotInv
  <2> SUFFICES ASSUME Init PROVE SlotInv
    OBVIOUS
  <2>1. Spilled = {} /\ stackOffset = 0
    BY LocationKinds DEF Init, Spilled, InStack
  <2> QED
    BY <2>1, FS_EmptySet DEF SlotInv
<1>2. IInv /\ SlotInv /\ [Next]_vars => SlotInv'
  BY SlotStep
<1> QED
  BY <1>1, <1>2, InductiveInvariant, PTL DEF Spec

LEMMA FreshNextSlot ==
    ASSUME IInv, SlotInv, NEW v \in Intervals, ~InStack(v)
    PROVE  /\ -(stackOffset + 8) \in Slots
           /\ Assignment!FreshSlot(-(stackOffset + 8))
<1> DEFINE n == Cardinality(Spilled)
<1>1. n \in Nat /\ stackOffset = 8 * n /\ n + 1 <= Cardinality(Intervals)
  <2>1. Cardinality(Spilled \cup {v}) = n + 1
    BY SpilledFinite, FS_AddElement DEF Spilled
  <2>2. Spilled \cup {v} \in SUBSET Intervals
    BY DEF Spilled
  <2>3. Cardinality(Spilled \cup {v}) <= Cardinality(Intervals)
    BY <2>2, IntervalsAssumption, FS_Subset
  <2> QED
    BY <2>1, <2>3, SpilledFinite DEF SlotInv
<1>2. -(stackOffset + 8) \in Slots
  <2>1. Cardinality(Intervals) \in Nat
    BY IntervalsAssumption, FS_CardinalityType
  <2>2. n + 1 \in 1 .. Cardinality(Intervals) /\ -(stackOffset + 8) = -8 * (n + 1)
    BY <1>1, <2>1
  <2> QED
    BY <2>2 DEF Slots
<1>3. ASSUME NEW j \in Intervals, location[j] = Assignment!Stack(-(stackOffset + 8))
      PROVE  FALSE
  <2>1. location[j].kind = "STACK" /\ location[j].value = -(stackOffset + 8)
    BY <1>3 DEF Assignment!Stack
  <2>2. location[j].value >= -stackOffset
    BY <2>1 DEF SlotInv, Spilled, InStack
  <2> QED
    BY <1>1, <2>1, <2>2
<1> QED
  BY <1>2, <1>3 DEF Assignment!FreshSlot

LEMMA StepRefines ==
    ASSUME IInv, SlotInv, OrderInv, [Next]_vars
    PROVE  [Assignment!Next]_Assignment!vars
<1> USE DEF Assignment!Unassigned, Unassigned, Assignment!Register, Register,
            Assignment!Stack, Stack
<1>1. CASE UNCHANGED vars
  BY <1>1 DEF vars, Assignment!vars
<1>2. CASE Finish
  BY <1>1, <1>2 DEF Finish
<1>3. ASSUME NEW c \in Intervals, IsCurrent(c),
             NEW r \in Int, NEW s \in StillActive(c) \cup {c},
             r \in FreeAfterExpire(c) \/ (s # c /\ r = location[s].value)
      PROVE  Assignment!Holds(r, c, {s})
  <2> SUFFICES ASSUME NEW j \in Intervals \ {s, c}, location[j] = Register(r)
               PROVE  end[j] < start[c]
    BY DEF Assignment!Holds, Assignment!Apart
  <2>1. InRegister(j) /\ location[j].value = r
    BY DEF InRegister
  <2>2. j \notin StillActive(c)
    BY <1>3, <2>1, ExpireKeeps DEF IInv, ActiveHoldRegisters
  <2> QED
    BY <1>3, <2>1, <2>2, ExpireKeeps DEF IsCurrent
<1>4. ASSUME NEW c \in Intervals, AllocateRegister(c) PROVE Assignment!Next
  <2>1. PICK r \in FreeAfterExpire(c) : location' = [location EXCEPT ![c] = Register(r)]
    BY <1>4 DEF AllocateRegister
  <2>2. /\ IsCurrent(c) /\ UNCHANGED <<start, end>>
        /\ location[c] = Unassigned
    BY <1>4 DEF AllocateRegister, IsCurrent, IInv, PendingUntouched
  <2>3. r \in Registers /\ r \in Int
    BY <2>2, ExpireKeeps, NumRegsNat
  <2>4. Assignment!Holds(r, c, {})
    BY <1>3, <2>2, <2>3 DEF Assignment!Holds
  <2>5. Assignment!Assign(c)
    BY <2>1, <2>2, <2>3, <2>4 DEF Assignment!Assign
  <2> QED
    BY <2>5 DEF Assignment!Next
<1>5. ASSUME NEW c \in Intervals, SpillBack(c) PROVE Assignment!Next
  <2>1. PICK s \in StillActive(c) :
            location' = [location EXCEPT ![c] = location[s], ![s] = NextSlot]
    BY <1>5 DEF SpillBack, Backs
  <2>2. /\ IsCurrent(c) /\ UNCHANGED <<start, end>>
        /\ location[c] = Unassigned
        /\ s \in Intervals /\ s # c /\ InRegister(s) /\ location[s].value \in Registers
    BY <1>5 DEF SpillBack, IsCurrent, IInv, TypeOK, PendingUntouched, StillActive,
       ActiveHoldRegisters
  <2> DEFINE r == location[s].value
             o == -(stackOffset + 8)
  <2>3. location[s] = Register(r) /\ ~InStack(s) /\ r \in Int
    BY <2>2, NumRegsNat DEF IInv, TypeOK, InRegister, InStack
  <2>4. Assignment!Holds(r, c, {s})
    BY <1>3, <2>2, <2>3
  <2>5. o \in Slots /\ Assignment!FreshSlot(o)
    BY <2>2, <2>3, FreshNextSlot
  <2>6. location' = [location EXCEPT ![c] = Register(r), ![s] = Stack(o)]
    BY <2>1, <2>3 DEF NextSlot
  <2>7. Assignment!Evict(c, s)
    BY <2>2, <2>3, <2>4, <2>5, <2>6 DEF Assignment!Evict
  <2> QED
    BY <2>2, <2>7 DEF Assignment!Next
<1>6. ASSUME NEW c \in Intervals, SpillCurrent(c) PROVE Assignment!Next
  <2>1. /\ IsCurrent(c) /\ UNCHANGED <<start, end>>
        /\ location' = [location EXCEPT ![c] = NextSlot]
        /\ location[c] = Unassigned /\ ~InStack(c)
    BY <1>6 DEF SpillCurrent, IsCurrent, IInv, PendingUntouched, InStack
  <2>2. Assignment!Spill(c)
    BY <2>1, FreshNextSlot DEF NextSlot, Assignment!Spill
  <2> QED
    BY <2>2 DEF Assignment!Next
<1> QED
  BY <1>1, <1>2, <1>4, <1>5, <1>6 DEF Next

(***************************************************************************)
(* The main loop of Run keeps the promise of RegisterAssignment: registers *)
(* only beside intervals that are apart, a fresh slot for every spill, and *)
(* no decision revised but by a spill.                                     *)
(***************************************************************************)
THEOREM LoopImplementsAssignment == Spec => ImplementsAssignment
<1>1. Init => Assignment!Init
  <2>1. Positions \subseteq Nat
    BY PositionsAssumption
  <2> QED
    BY <2>1 DEF Init, Assignment!Init, Assignment!Unassigned, Unassigned
<1>2. IInv /\ SlotInv /\ OrderInv /\ [Next]_vars => [Assignment!Next]_Assignment!vars
  BY StepRefines
<1> QED
  BY <1>1, <1>2, InductiveInvariant, SlotInvariant, OrderInvInvariant, PTL
     DEF Spec, ImplementsAssignment, Assignment!Spec

-----------------------------------------------------------------------------
(* The victim.                                                             *)

LEMMA FurthestEndStep ==
    ASSUME IInv, [Next]_vars, NEW v \in Intervals, ~InStack(v), InStack(v)',
           NEW a \in active'
    PROVE  end[a] <= end[v]
<1> USE DEF InStack
<1>1. CASE UNCHANGED vars
  BY <1>1 DEF vars
<1>2. CASE Finish
  BY <1>1, <1>2 DEF Finish
<1>3. ASSUME NEW c \in Intervals, AllocateRegister(c) PROVE FALSE
  <2>1. PICK r : location' = [location EXCEPT ![c] = Register(r)]
    BY <1>3 DEF AllocateRegister
  <2> QED
    BY <2>1, v \in DOMAIN location DEF Register, IInv, TypeOK
<1>4. ASSUME NEW c \in Intervals, SpillBack(c) PROVE end[a] <= end[v]
  <2>1. PICK s \in Backs(c) :
            /\ end[s] > end[c]
            /\ location' = [location EXCEPT ![c] = location[s], ![s] = NextSlot]
            /\ active' = (StillActive(c) \ {s}) \cup {c}
    BY <1>4 DEF SpillBack
  <2>2. s \in Intervals /\ ~InStack(s)
    BY <2>1 DEF Backs, StillActive, IInv, TypeOK, ActiveHoldRegisters, InRegister
  <2>3. v = s
    BY <2>1, <2>2 DEF IInv, TypeOK
  <2> QED
    BY <2>1, <2>2, <2>3, HullsAreIntegers DEF Backs, IInv
<1>5. ASSUME NEW c \in Intervals, SpillCurrent(c) PROVE end[a] <= end[v]
  <2>1. PICK s \in Backs(c) : end[s] <= end[c]
    BY <1>5 DEF SpillCurrent
  <2>2. active' = StillActive(c) /\ v = c
    BY <1>5 DEF SpillCurrent, IInv, TypeOK
  <2>3. s \in Intervals /\ a \in Intervals /\ end[a] <= end[s]
    BY <2>1, <2>2 DEF Backs, StillActive, IInv, TypeOK
  <2> QED
    BY <2>1, <2>2, <2>3, HullsAreIntegers DEF IInv
<1> QED
  BY <1>1, <1>2, <1>3, <1>4, <1>5 DEF Next

(***************************************************************************)
(* SpillAtInterval sends the right interval to the stack: none that keeps  *)
(* a register ends later than the one spilled.                             *)
(***************************************************************************)
THEOREM SpillsFurthestEnd == Spec => FurthestEndSpilled
<1>1. IInv /\ [Next]_vars =>
        [\A v \in Intervals : ~InStack(v) /\ InStack(v)' => \A a \in active' : end[a] <= end[v]]_vars
  BY FurthestEndStep
<1> QED
  BY <1>1, InductiveInvariant, PTL DEF Spec, FurthestEndSpilled

=============================================================================
