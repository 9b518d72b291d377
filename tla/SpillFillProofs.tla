--------------------------- MODULE SpillFillProofs ---------------------------
(***************************************************************************)
(* Proofs about PhiMoves and SpillFill for any number of phis, registers   *)
(* and slots and any terminator.  All are of allocations in which          *)
(* ConflictsAreSeen: without that, which the code does not see to, the     *)
(* moves of an edge need not be the parallel copy of its phi functions.    *)
(* With it they are; the reloads that share the reserved registers with    *)
(* the broken cycles of the moves cannot be seen by the moves; and the     *)
(* terminator reads its inputs, or what the moves put in their places.     *)
(***************************************************************************)
EXTENDS SpillFill, FiniteSetTheorems, TLAPS

-----------------------------------------------------------------------------
(* PhiMoves. *)

(***************************************************************************)
(* One pending move per phi, and none for a phi already in place; a move   *)
(* reads the input of its phi, or the reserved register.                   *)
(***************************************************************************)
MovesAreTheirPhis ==
    /\ \A m, o \in pending : m.to = o.to => m = o
    /\ \A m \in pending : NeedsMove(m.to) /\ m.from \in {incoming[m.to], TempMove}

\* At most one value is saved.
OneTempMove == \A m, o \in pending : m.from = TempMove /\ o.from = TempMove => m = o

\* What holds of the pending moves in every allocation.
PendingInv == TypeOK /\ MovesAreTheirPhis /\ OneTempMove

IInv ==
    /\ TypeOK
    /\ AllocationIsValid
    /\ ConflictsAreSeen
    /\ MovesAreTheirPhis
    /\ OneTempMove
    /\ NothingLost

\* No pending move is ready: each one's target is read by another.
Stuck == pending # {} /\ \A m \in pending : IsSource(m)

-----------------------------------------------------------------------------

(***************************************************************************)
(* When no move is ready, no value waits in the reserved register.  Each   *)
(* of the n pending phis is read by a pending move; a move that read the   *)
(* reserved register would leave n - 1 moves to read n phis.               *)
(***************************************************************************)
LEMMA StuckReadsNoTemp ==
    ASSUME TypeOK, MovesAreTheirPhis, Stuck
    PROVE  \A m \in pending : m.from # TempMove
<1> SUFFICES ASSUME NEW t \in pending, t.from = TempMove
             PROVE  FALSE
    OBVIOUS
<1> DEFINE Readers == pending \ {t}
           to == [m \in pending |-> m.to]
           reader == [m \in pending |-> CHOOSE o \in Readers : o.from = m.to]
<1>1. IsFiniteSet(Phis) /\ TempMove \notin Phis
    BY LocationsAssumption
<1>2. IsFiniteSet(pending)
    <2>1. to \in Injection(pending, Phis)
        BY DEF MovesAreTheirPhis, Injection, IsInjective, TypeOK
    <2> QED
        BY <1>1, <2>1, FS_Injection
<1>3. /\ IsFiniteSet(Readers)
      /\ Cardinality(Readers) = Cardinality(pending) - 1
      /\ Cardinality(pending) \in Nat
    BY <1>2, FS_RemoveElement, FS_CardinalityType
<1>4. \A m \in pending : \E o \in Readers : o.from = m.to
    BY <1>1 DEF Stuck, IsSource, TypeOK
<1>5. /\ reader \in [pending -> Readers]
      /\ \A m \in pending : reader[m].from = m.to
    BY <1>4
<1>6. \E m, o \in pending : m # o /\ reader[m] = reader[o]
    <2> HIDE DEF reader, Readers
    <2>1. Cardinality(Readers) < Cardinality(pending)
        BY <1>3, FS_CardinalityType
    <2> QED
        BY <1>2, <1>3, <1>5, <2>1, FS_PigeonHole
<1> QED
    BY <1>5, <1>6 DEF MovesAreTheirPhis

-----------------------------------------------------------------------------

LEMMA InitPendingInv == Init => PendingInv
<1> SUFFICES ASSUME Init
             PROVE  PendingInv
    OBVIOUS
<1>1. TypeOK
    BY LocationsAssumption DEF Init, TypeOK, Places, Locations, Instructions
<1>2. MovesAreTheirPhis /\ OneTempMove
    BY LocationsAssumption DEF Init, MovesAreTheirPhis, OneTempMove, Instructions
<1> QED
    BY <1>1, <1>2 DEF PendingInv

LEMMA InitIInv == Init /\ ConflictsAreSeen => IInv
<1> SUFFICES ASSUME Init, ConflictsAreSeen
             PROVE  IInv
    OBVIOUS
<1>1. TypeOK
    BY InitPendingInv DEF PendingInv
<1>2. MovesAreTheirPhis /\ OneTempMove
    BY InitPendingInv DEF PendingInv
<1>3. NothingLost
    <2>1. ASSUME NEW m \in pending
          PROVE  contents[SourceOf(m)] = Wanted(m.to)
        BY LocationsAssumption
           DEF Init, SourceOf, Wanted, Places, Locations, Instructions
    <2>2. ASSUME NEW p \in Phis, \A m \in pending : m.to # p
          PROVE  contents[location[p]] = Wanted(p)
        <3>1. location[p] = location[incoming[p]]
            <4>1. SUFFICES ASSUME NeedsMove(p)
                           PROVE  FALSE
                BY DEF NeedsMove
            <4>2. [to |-> p, from |-> incoming[p]] \in pending
                BY <4>1 DEF Init
            <4> QED
                BY <2>2, <4>2
        <3>2. location[p] \in Places
            BY DEF Init, Places, Instructions
        <3> QED
            BY <3>1, <3>2 DEF Init, Wanted
    <2> QED
        BY <2>1, <2>2 DEF NothingLost
<1> QED
    BY <1>1, <1>2, <1>3 DEF Init, IInv

\* The moves change neither the allocation nor the phi functions.
LEMMA AllocationFixed ==
    ASSUME AllocationIsValid, ConflictsAreSeen, UNCHANGED <<location, incoming>>
    PROVE  AllocationIsValid' /\ ConflictsAreSeen'
BY DEF AllocationIsValid, ConflictsAreSeen, Outgoing, NeedsMove

(***************************************************************************)
(* A move that is ready writes a place nobody still reads: a pending move  *)
(* that reads it would read the phi that lives there, in a register, and   *)
(* then the move were not ready.                                           *)
(***************************************************************************)
LEMMA ReadyTargetIsUnread ==
    ASSUME IInv, NEW m \in pending, ~IsSource(m), NEW o \in pending \ {m}
    PROVE  SourceOf(o) # location[m.to]
<1>1. m.to \in Phis /\ location[m.to] \in Locations
    BY DEF IInv, TypeOK, Instructions
<1>2. CASE o.from = TempMove
    BY <1>1, <1>2, LocationsAssumption DEF SourceOf, Locations
<1>3. CASE o.from # TempMove
    <2>1. o.to \in Phis /\ o.from = incoming[o.to] /\ o.to # m.to
        BY <1>3 DEF IInv, MovesAreTheirPhis, TypeOK
    <2>2. NeedsMove(m.to) /\ NeedsMove(o.to)
        BY DEF IInv, MovesAreTheirPhis
    <2>3. ~(m.to = o.from /\ location[m.to] \in Registers)
        BY DEF IsSource
    <2> QED
        BY <1>1, <1>3, <2>1, <2>2, <2>3 DEF SourceOf, IInv, ConflictsAreSeen
<1> QED
    BY <1>2, <1>3

LEMMA EmitMovePendingInv == PendingInv /\ EmitMove => PendingInv'
<1> SUFFICES ASSUME PendingInv, EmitMove
             PROVE  PendingInv'
    OBVIOUS
<1> USE DEF PendingInv
<1>1. PICK m \in pending :
        /\ contents' = [contents EXCEPT ![location[m.to]] = contents[SourceOf(m)]]
        /\ pending' = pending \ {m}
    BY DEF EmitMove
<1>2. UNCHANGED <<location, incoming>>
    BY DEF EmitMove
<1>3. SourceOf(m) \in Places
    BY DEF SourceOf, TypeOK, Places
<1>4. TypeOK'
    BY <1>1, <1>2, <1>3 DEF TypeOK
<1>5. MovesAreTheirPhis'
    BY <1>1, <1>2 DEF MovesAreTheirPhis, NeedsMove
<1>6. OneTempMove'
    BY <1>1 DEF OneTempMove
<1> QED
    BY <1>4, <1>5, <1>6

LEMMA BreakCyclePendingInv == PendingInv /\ BreakCycle => PendingInv'
<1> SUFFICES ASSUME PendingInv, BreakCycle
             PROVE  PendingInv'
    OBVIOUS
<1> USE DEF PendingInv
<1>1. PICK m \in pending :
        /\ contents' = [contents EXCEPT ![Reserved] = contents[SourceOf(m)]]
        /\ pending' = (pending \ {m}) \cup {[to |-> m.to, from |-> TempMove]}
    BY DEF BreakCycle
<1>2. UNCHANGED <<location, incoming>>
    BY DEF BreakCycle
<1>3. \A o \in pending : o.from # TempMove
    BY StuckReadsNoTemp DEF BreakCycle, Stuck
<1>4. SourceOf(m) \in Places /\ m.to \in Phis /\ Reserved \in Places
    BY DEF SourceOf, TypeOK, Places
<1>5. TypeOK'
    BY <1>1, <1>2, <1>4 DEF TypeOK
<1>6. MovesAreTheirPhis'
    BY <1>1, <1>2 DEF MovesAreTheirPhis, NeedsMove
<1>7. OneTempMove'
    BY <1>1, <1>3 DEF OneTempMove
<1> QED
    BY <1>5, <1>6, <1>7

LEMMA NextPendingInv == PendingInv /\ [Next]_vars => PendingInv'
<1> SUFFICES ASSUME PendingInv, [Next]_vars
             PROVE  PendingInv'
    OBVIOUS
<1>1. CASE EmitMove
    BY <1>1, EmitMovePendingInv
<1>2. CASE BreakCycle
    BY <1>2, BreakCyclePendingInv
<1>3. CASE UNCHANGED vars
    <2>1. UNCHANGED <<location, incoming, pending, contents>>
        BY <1>3 DEF vars
    <2>2. TypeOK' /\ OneTempMove'
        BY <2>1 DEF PendingInv, TypeOK, OneTempMove
    <2>3. MovesAreTheirPhis'
        BY <2>1 DEF PendingInv, MovesAreTheirPhis, NeedsMove
    <2> QED
        BY <2>2, <2>3 DEF PendingInv
<1> QED
    BY <1>1, <1>2, <1>3 DEF Next, Done

LEMMA EmitMoveIInv == IInv /\ EmitMove => IInv'
<1> SUFFICES ASSUME IInv, EmitMove
             PROVE  IInv'
    OBVIOUS
<1> USE DEF IInv
<1>1. PICK m \in pending :
        /\ ~IsSource(m)
        /\ contents' = [contents EXCEPT ![location[m.to]] = contents[SourceOf(m)]]
        /\ pending' = pending \ {m}
    BY DEF EmitMove
<1>2. UNCHANGED <<location, incoming>>
    BY DEF EmitMove
<1>3. /\ m.to \in Phis
      /\ location[m.to] \in Places
    BY DEF TypeOK, Places, Instructions
<1>4. \A o \in pending : SourceOf(o) \in Places
    BY DEF SourceOf, TypeOK, Places
<1>5. (TypeOK /\ MovesAreTheirPhis /\ OneTempMove)'
    BY EmitMovePendingInv DEF PendingInv
<1>6. AllocationIsValid' /\ ConflictsAreSeen'
    BY <1>2, AllocationFixed
<1>7. NothingLost'
    <2>1. ASSUME NEW o \in pending'
          PROVE  contents'[SourceOf(o)'] = Wanted(o.to)'
        <3>1. o \in pending \ {m}
            BY <1>1
        <3>2. SourceOf(o)' = SourceOf(o) /\ Wanted(o.to)' = Wanted(o.to)
            BY <1>2 DEF SourceOf, Wanted
        <3>3. SourceOf(o) # location[m.to]
            BY <1>1, <3>1, ReadyTargetIsUnread
        <3>4. contents'[SourceOf(o)] = contents[SourceOf(o)]
            BY <1>1, <1>4, <3>1, <3>3 DEF TypeOK
        <3> QED
            BY <3>1, <3>2, <3>4 DEF NothingLost
    <2>2. ASSUME NEW p \in Phis, \A o \in pending' : o.to # p
          PROVE  contents'[location'[p]] = Wanted(p)'
        <3>1. location[p] \in Places /\ Wanted(p)' = Wanted(p) /\ location'[p] = location[p]
            BY <1>2 DEF TypeOK, Places, Instructions, Wanted
        <3>2. CASE p = m.to
            <4>1. contents'[location[p]] = contents[SourceOf(m)]
                BY <1>1, <3>1, <3>2 DEF TypeOK
            <4> QED
                BY <3>1, <3>2, <4>1 DEF NothingLost
        <3>3. CASE p # m.to
            <4>1. \A o \in pending : o.to # p
                BY <1>1, <2>2, <3>3
            <4>2. location[p] # location[m.to]
                BY <1>3, <3>3 DEF AllocationIsValid
            <4>3. contents'[location[p]] = contents[location[p]]
                BY <1>1, <3>1, <4>2 DEF TypeOK
            <4> QED
                BY <3>1, <4>1, <4>3 DEF NothingLost
        <3> QED
            BY <3>2, <3>3
    <2> QED
        BY <2>1, <2>2 DEF NothingLost
<1> QED
    BY <1>5, <1>6, <1>7

LEMMA BreakCycleIInv == IInv /\ BreakCycle => IInv'
<1> SUFFICES ASSUME IInv, BreakCycle
             PROVE  IInv'
    OBVIOUS
<1> USE DEF IInv
<1>1. PICK m \in pending :
        /\ contents' = [contents EXCEPT ![Reserved] = contents[SourceOf(m)]]
        /\ pending' = (pending \ {m}) \cup {[to |-> m.to, from |-> TempMove]}
    BY DEF BreakCycle
<1> DEFINE broken == [to |-> m.to, from |-> TempMove]
<1>2. UNCHANGED <<location, incoming>>
    BY DEF BreakCycle
<1>3. \A o \in pending : o.from # TempMove
    BY StuckReadsNoTemp DEF BreakCycle, Stuck
<1>4. /\ m.to \in Phis
      /\ Reserved \in Places
      /\ Reserved \notin Locations
    BY LocationsAssumption DEF TypeOK, Places, Locations
<1>5. \A o \in pending : SourceOf(o) \in Locations /\ SourceOf(o) \in Places
    BY <1>3 DEF SourceOf, TypeOK, Places
<1>6. (TypeOK /\ MovesAreTheirPhis /\ OneTempMove)'
    BY BreakCyclePendingInv DEF PendingInv
<1>7. AllocationIsValid' /\ ConflictsAreSeen'
    BY <1>2, AllocationFixed
<1>8. \A l \in Locations : contents'[l] = contents[l]
    BY <1>1, <1>4 DEF TypeOK, Places
<1>9. NothingLost'
    <2>1. ASSUME NEW o \in pending'
          PROVE  contents'[SourceOf(o)'] = Wanted(o.to)'
        <3>1. SourceOf(o)' = SourceOf(o) /\ Wanted(o.to)' = Wanted(o.to)
            BY <1>2 DEF SourceOf, Wanted
        <3>2. CASE o = broken
            <4>1. SourceOf(o) = Reserved /\ o.to = m.to
                BY <3>2 DEF SourceOf
            <4>2. contents'[Reserved] = contents[SourceOf(m)]
                BY <1>1, <1>4 DEF TypeOK
            <4> QED
                BY <3>1, <4>1, <4>2 DEF NothingLost
        <3>3. CASE o \in pending
            BY <1>5, <1>8, <3>1, <3>3 DEF NothingLost
        <3> QED
            BY <1>1, <3>2, <3>3
    <2>2. ASSUME NEW p \in Phis, \A o \in pending' : o.to # p
          PROVE  contents'[location'[p]] = Wanted(p)'
        <3>1. \A o \in pending : o.to # p
            <4>1. broken \in pending' /\ broken.to = m.to
                BY <1>1
            <4>2. m.to # p
                BY <2>2, <4>1
            <4> QED
                BY <1>1, <2>2, <4>2
        <3>2. location[p] \in Locations
            BY DEF TypeOK, Instructions
        <3> QED
            BY <1>2, <1>8, <3>1, <3>2 DEF NothingLost, Wanted
    <2> QED
        BY <2>1, <2>2 DEF NothingLost
<1> QED
    BY <1>6, <1>7, <1>9

LEMMA NextIInv == IInv /\ [Next]_vars => IInv'
<1> SUFFICES ASSUME IInv, [Next]_vars
             PROVE  IInv'
    OBVIOUS
<1>1. CASE EmitMove
    BY <1>1, EmitMoveIInv
<1>2. CASE BreakCycle
    BY <1>2, BreakCycleIInv
<1>3. CASE UNCHANGED vars
    BY <1>3 DEF vars, IInv, TypeOK, AllocationIsValid, ConflictsAreSeen, Outgoing,
                MovesAreTheirPhis, NeedsMove, OneTempMove, NothingLost, SourceOf, Wanted
<1> QED
    BY <1>1, <1>2, <1>3 DEF Next, Done

(***************************************************************************)
(* The inductive invariant where ConflictsAreSeen: the moves still pending *)
(* are those of their phis, at most one of them reads the saved value, and *)
(* nothing that is still to be read was overwritten by ResolvePhis.        *)
(***************************************************************************)
THEOREM InductiveInvariant == ConflictsAreSeen /\ Spec => []IInv
BY InitIInv, NextIInv, PTL DEF Spec

(***************************************************************************)
(* In every valid allocation, pending moves write phis and read            *)
(* instructions or the saved value, one move a phi and one at most that    *)
(* reads what BreakCycle saved.                                            *)
(***************************************************************************)
THEOREM PendingMovesInvariant == Spec => []PendingInv
BY InitPendingInv, NextPendingInv, PTL DEF Spec

(***************************************************************************)
(* Comparing instructions is enough for ResolvePhis where ConflictsAreSeen *)
(* in the allocation: then no move overwrites a value another pending move *)
(* still has to read.  The condition is needed, and not always met: TLC    *)
(* finds a value lost in valid allocations without it (phi_moves_shared).  *)
(***************************************************************************)
THEOREM NoValueIsLost == ConflictsAreSeen /\ Spec => []NothingLost
<1>1. IInv => NothingLost
    BY DEF IInv
<1> QED
    BY <1>1, InductiveInvariant, PTL

(***************************************************************************)
(* Where ConflictsAreSeen, the sequence of moves ResolvePhis emits on an   *)
(* edge is the parallel copy of the phi functions of the successor.        *)
(***************************************************************************)
THEOREM MovesAreAParallelCopy == ConflictsAreSeen /\ Spec => []ParallelCopy
<1>1. IInv => ParallelCopy
    BY DEF IInv, NothingLost, ParallelCopy
<1> QED
    BY <1>1, InductiveInvariant, PTL

(***************************************************************************)
(* The one register that ResolvePhis reserves is enough for any number of  *)
(* cycles, in every valid allocation: it is written only when no pending   *)
(* move reads it.                                                          *)
(***************************************************************************)
THEOREM OneTempIsEnough == Spec => OneSavedValue
<1> DEFINE Step == contents'[Reserved] # contents[Reserved] =>
                        \A m \in pending : m.from # TempMove
<1>1. ASSUME PendingInv, [Next]_vars
      PROVE  [Step]_vars
    <2>1. CASE EmitMove
        <3>1. PICK m \in pending :
                contents' = [contents EXCEPT ![location[m.to]] = contents[SourceOf(m)]]
            BY <2>1 DEF EmitMove
        <3>2. location[m.to] # Reserved
            BY <1>1, LocationsAssumption DEF PendingInv, TypeOK, Locations, Instructions
        <3> QED
            BY <1>1, <3>1, <3>2 DEF PendingInv, TypeOK, Places
    <2>2. CASE BreakCycle
        BY <1>1, <2>2, StuckReadsNoTemp DEF PendingInv, BreakCycle, Stuck
    <2>3. CASE UNCHANGED vars
        BY <2>3
    <2> QED
        BY <1>1, <2>1, <2>2, <2>3 DEF Next, Done
<1> QED
    BY <1>1, PendingMovesInvariant, PTL DEF Spec, OneSavedValue

-----------------------------------------------------------------------------
(* SpillFill. *)

AllPlaces == Places \cup {Reserved2}

\* Where an instruction finds an input before its reloads are put in.
HomeOf(x) == IF x = TempMove THEN Reserved ELSE location[x]

(***************************************************************************)
(* Once a move reads the saved value, the pending moves are the rest of    *)
(* cycles: each other one reads a phi that lives in a register.            *)
(***************************************************************************)
BrokenCyclesNeedNoReload ==
    (\E t \in pending : t.from = TempMove) => \A m \in pending : ~IsSpilled(m.from)

\* The moves write the places of phis that need them, and nothing else.
OnlyPhisAreWritten ==
    \A l \in Locations : contents[l] = l \/ \E p \in Phis : NeedsMove(p) /\ location[p] = l

FillTypeOK ==
    /\ machine \in [AllPlaces -> AllPlaces]
    /\ tail \in Seq(Instructions)
    /\ outcome \in {"none", "filled", "thrown"}
    /\ outcome # "none" => pending = {}

FillInv ==
    /\ IInv
    /\ FillTypeOK
    /\ BrokenCyclesNeedNoReload
    /\ OnlyPhisAreWritten
    /\ ReloadsAreInvisible
    /\ TerminatorReadsItsInputs

-----------------------------------------------------------------------------

LEMMA AtMostTwo ==
    ASSUME NEW S, IsFiniteSet(S), Cardinality(S) <= 2
    PROVE  \E i, j : S \subseteq {i, j}
<1>1. CASE S = {}
    BY <1>1
<1>2. CASE S # {}
    <2>1. PICK i : i \in S
        BY <1>2
    <2>2. /\ IsFiniteSet(S \ {i})
          /\ Cardinality(S \ {i}) = Cardinality(S) - 1
          /\ Cardinality(S) \in Nat /\ Cardinality(S \ {i}) \in Nat
        BY <2>1, FS_RemoveElement, FS_CardinalityType
    <2>3. CASE S \ {i} = {}
        BY <2>3
    <2>4. CASE S \ {i} # {}
        <3>1. Cardinality(S \ {i}) # 0
            BY <2>2, <2>4, FS_EmptySet
        <3>2. Cardinality(S \ {i}) = 1
            BY <2>2, <3>1
        <3>3. PICK j : S \ {i} = {j}
            BY <2>2, <3>2, FS_Singleton
        <3> QED
            BY <3>3
    <2> QED
        BY <2>3, <2>4
<1> QED
    BY <1>1, <1>2

\* An operand list may name the move that saves a value as well as instructions.
Operands == Seq(Instructions \cup {TempMove})

(***************************************************************************)
(* With no more than two spilled positions, different spilled inputs are   *)
(* loaded into different reserved registers.                               *)
(***************************************************************************)
LEMMA ReloadsAreApart ==
    ASSUME NEW inputs \in Operands, Cardinality(SpilledPositions(inputs)) <= 2
    PROVE  /\ Reloads(inputs) \in [Spilled(inputs) -> {Reserved, Reserved2}]
           /\ \A x, y \in Spilled(inputs) : Reloads(inputs)[x] = Reloads(inputs)[y] => x = y
<1> DEFINE Pos == SpilledPositions(inputs)
           Ahead(x) == {y \in Spilled(inputs) : MetBefore(y, x, inputs)}
<1>1. /\ DOMAIN inputs = 1 .. Len(inputs) /\ Len(inputs) \in Nat
      /\ Pos \subseteq DOMAIN inputs
    BY DEF Operands, SpilledPositions
<1>2. IsFiniteSet(Pos)
    <2>1. IsFiniteSet(1 .. Len(inputs))
        BY <1>1, FS_Interval
    <2> QED
        BY <1>1, <2>1, FS_Subset
<1>3. PICK i, j : Pos \subseteq {i, j}
    BY <1>2, AtMostTwo
<1>4. \A x \in Spilled(inputs) : x \notin Ahead(x)
    BY <1>1 DEF MetBefore
<1>5. \A x \in Spilled(inputs) : Ahead(x) = {} \/ \E y \in Spilled(inputs) : Ahead(x) = {y}
    BY <1>3, <1>4 DEF Spilled
<1>6. \A x \in Spilled(inputs) : Cardinality(Ahead(x)) = IF Ahead(x) = {} THEN 0 ELSE 1
    BY <1>5, FS_EmptySet, FS_Singleton
<1>7. \A x, y \in Spilled(inputs) : x # y => (Ahead(x) = {} /\ Ahead(y) # {}) \/ (Ahead(y) = {} /\ Ahead(x) # {})
    <2> SUFFICES ASSUME NEW x \in Spilled(inputs), NEW y \in Spilled(inputs), x # y
                 PROVE  (Ahead(x) = {} /\ Ahead(y) # {}) \/ (Ahead(y) = {} /\ Ahead(x) # {})
        OBVIOUS
    <2>1. PICK k \in Pos, l \in Pos : inputs[k] = x /\ inputs[l] = y
        BY DEF Spilled
    <2>2. /\ k # l /\ k \in Int /\ l \in Int
          /\ Pos = {k, l}
          /\ Spilled(inputs) = {x, y}
        BY <1>1, <1>3, <2>1 DEF Spilled
    <2>3. \A n \in DOMAIN inputs : (inputs[n] = x => n = k) /\ (inputs[n] = y => n = l)
        BY <1>1, <2>1, <2>2 DEF SpilledPositions
    <2>4. MetBefore(x, y, inputs) <=> k < l
        BY <1>1, <2>1, <2>2, <2>3 DEF MetBefore
    <2>5. MetBefore(y, x, inputs) <=> l < k
        BY <1>1, <2>1, <2>2, <2>3 DEF MetBefore
    <2>6. /\ Ahead(y) = IF k < l THEN {x} ELSE {}
          /\ Ahead(x) = IF l < k THEN {y} ELSE {}
        BY <1>4, <2>2, <2>4, <2>5
    <2> QED
        BY <2>2, <2>6
<1>8. \A x \in Spilled(inputs) : Reloads(inputs)[x] = IF Ahead(x) = {} THEN Reserved ELSE Reserved2
    BY <1>6 DEF Reloads, ReservedRegisters
<1>9. DOMAIN Reloads(inputs) = Spilled(inputs) /\ Reloads(inputs) = [x \in Spilled(inputs) |-> Reloads(inputs)[x]]
    BY DEF Reloads
<1>10. Reserved # Reserved2
    BY FillAssumption DEF Places
<1> HIDE DEF Ahead
<1> QED
    BY <1>7, <1>8, <1>9, <1>10

(***************************************************************************)
(* The loads in front of an instruction write reserved registers only, and *)
(* with them it finds each input's value, wherever that value lives.       *)
(***************************************************************************)
LEMMA LoadsCarryTheInputs ==
    ASSUME IInv, FillTypeOK,
           NEW inputs \in Operands, Cardinality(SpilledPositions(inputs)) <= 2,
           TempMove \in {inputs[k] : k \in DOMAIN inputs} => SpilledPositions(inputs) = {}
    PROVE  /\ Load(inputs) \in [AllPlaces -> AllPlaces]
           /\ \A l \in Locations : Load(inputs)[l] = machine[l]
           /\ SpilledPositions(inputs) = {} => Load(inputs) = machine
           /\ \A k \in DOMAIN inputs :
                Load(inputs)[PlaceOf(inputs[k], inputs)] = machine[HomeOf(inputs[k])]
<1> DEFINE into == Reloads(inputs)
<1>1. /\ into \in [Spilled(inputs) -> {Reserved, Reserved2}]
      /\ \A x, y \in Spilled(inputs) : into[x] = into[y] => x = y
    BY ReloadsAreApart
<1>2. /\ Reserved \notin Locations /\ Reserved2 \notin Locations
      /\ Reserved \in AllPlaces /\ Reserved2 \in AllPlaces
      /\ Locations \subseteq AllPlaces
    BY LocationsAssumption, FillAssumption DEF Places, Locations, AllPlaces
<1>3. \A x \in Spilled(inputs) : x \in Instructions /\ location[x] \in Locations
    BY DEF Spilled, SpilledPositions, IsSpilled, Locations
<1>4. Load(inputs) = [l \in AllPlaces |->
                        IF \E x \in Spilled(inputs) : into[x] = l
                        THEN machine[location[CHOOSE x \in Spilled(inputs) : into[x] = l]]
                        ELSE machine[l]]
    <2>1. DOMAIN machine = AllPlaces /\ DOMAIN into = Spilled(inputs)
        BY <1>1 DEF FillTypeOK
    <2> QED
        BY <2>1 DEF Load
<1> HIDE DEF into
<1>5. Load(inputs) \in [AllPlaces -> AllPlaces]
    <2>1. ASSUME NEW l \in AllPlaces, \E x \in Spilled(inputs) : into[x] = l
          PROVE  machine[location[CHOOSE x \in Spilled(inputs) : into[x] = l]] \in AllPlaces
        BY <1>2, <1>3, <2>1 DEF FillTypeOK
    <2> QED
        BY <1>4, <2>1 DEF FillTypeOK
<1>6. \A l \in Locations : Load(inputs)[l] = machine[l]
    BY <1>1, <1>2, <1>4
<1>7. SpilledPositions(inputs) = {} => Load(inputs) = machine
    BY <1>4 DEF Spilled, FillTypeOK
<1>8. \A x \in Spilled(inputs) : Load(inputs)[into[x]] = machine[location[x]]
    BY <1>1, <1>2, <1>4
<1>9. ASSUME NEW k \in DOMAIN inputs
      PROVE  Load(inputs)[PlaceOf(inputs[k], inputs)] = machine[HomeOf(inputs[k])]
    <2>1. inputs[k] \in Instructions \cup {TempMove}
        BY DEF Operands
    <2>2. CASE inputs[k] = TempMove
        BY <1>7, <2>2 DEF PlaceOf, HomeOf
    <2>3. CASE inputs[k] # TempMove /\ IsSpilled(inputs[k])
        <3>1. inputs[k] \in Spilled(inputs)
            BY <2>3 DEF Spilled, SpilledPositions
        <3> QED
            BY <1>8, <2>3, <3>1 DEF PlaceOf, HomeOf, into
    <2>4. CASE inputs[k] # TempMove /\ ~IsSpilled(inputs[k])
        <3>1. location[inputs[k]] \in Locations
            BY <2>1, <2>4 DEF IInv, TypeOK
        <3> QED
            BY <1>6, <2>4, <3>1 DEF PlaceOf, HomeOf
    <2> QED
        BY <2>2, <2>3, <2>4
<1> QED
    BY <1>5, <1>6, <1>7, <1>9

-----------------------------------------------------------------------------

(***************************************************************************)
(* When no move is ready, each pending move reads a phi in a register:     *)
(* there is a reader for every one of the n pending phis, which are in     *)
(* registers since only those wait, and there are n moves, so no move is   *)
(* left that reads anything else.                                          *)
(***************************************************************************)
LEMMA StuckReadsRegisters ==
    ASSUME TypeOK, MovesAreTheirPhis, Stuck
    PROVE  \A m \in pending : m.from \in Phis /\ location[m.from] \in Registers
<1> DEFINE to == [m \in pending |-> m.to]
           reader == [m \in pending |-> CHOOSE o \in pending : o.from = m.to]
<1>1. IsFiniteSet(pending)
    <2>1. to \in Injection(pending, Phis)
        BY DEF MovesAreTheirPhis, Injection, IsInjective, TypeOK
    <2> QED
        BY <2>1, LocationsAssumption, FS_Injection
<1>2. \A m \in pending : \E o \in pending : o.from = m.to
    BY DEF Stuck, IsSource
<1>3. /\ reader \in [pending -> pending]
      /\ \A m \in pending : reader[m].from = m.to
    BY <1>2
<1> HIDE DEF reader
<1>4. reader \in Injection(pending, pending)
    BY <1>3 DEF Injection, IsInjective, MovesAreTheirPhis
<1>5. reader \in Surjection(pending, pending)
    BY <1>1, <1>4, FS_Injection
<1>6. \A m \in pending : \E o \in pending : reader[o] = m
    BY <1>5 DEF Surjection
<1>7. \A m \in pending : m.to \in Phis /\ location[m.to] \in Registers
    BY DEF TypeOK, Stuck, IsSource
<1> QED
    BY <1>3, <1>6, <1>7

\* The operands of a move: one position, spilled or not.
LEMMA OperandOfMove ==
    ASSUME IInv, NEW m \in pending
    PROVE  /\ <<m.from>> \in Operands
           /\ Cardinality(SpilledPositions(<<m.from>>)) <= 2
           /\ SpilledPositions(<<m.from>>) # {} => IsSpilled(m.from)
           /\ m.from = TempMove => SpilledPositions(<<m.from>>) = {}
<1>1. m.from \in Instructions \cup {TempMove}
    BY DEF IInv, TypeOK
<1>2. SpilledPositions(<<m.from>>) = IF IsSpilled(m.from) THEN {1} ELSE {}
    BY DEF SpilledPositions
<1>3. TempMove \notin Instructions
    BY LocationsAssumption DEF Instructions
<1>4. Cardinality(SpilledPositions(<<m.from>>)) <= 2
    <2>1. Cardinality({}) = 0 /\ Cardinality({1}) = 1
        BY FS_EmptySet, FS_Singleton
    <2> QED
        BY <1>2, <2>1
<1>5. <<m.from>> \in Operands
    BY <1>1 DEF Operands
<1> QED
    BY <1>2, <1>3, <1>4, <1>5 DEF IsSpilled

(***************************************************************************)
(* A move of the final code carries what its source holds; the loads in    *)
(* front of it change reserved registers only, and none when its source    *)
(* is not on the stack.                                                    *)
(***************************************************************************)
LEMMA MoveCarriesItsSource ==
    ASSUME IInv, FillTypeOK, NEW m \in pending, NEW to \in AllPlaces, Move(to, m.from)
    PROVE  /\ machine' \in [AllPlaces -> AllPlaces]
           /\ machine'[to] = machine[SourceOf(m)]
           /\ \A l \in Locations \ {to} : machine'[l] = machine[l]
           /\ ~IsSpilled(m.from) => \A l \in AllPlaces \ {to} : machine'[l] = machine[l]
<1> DEFINE inputs == <<m.from>>
<1>1. /\ inputs \in Operands
      /\ Cardinality(SpilledPositions(inputs)) <= 2
      /\ SpilledPositions(inputs) # {} => IsSpilled(m.from)
      /\ m.from = TempMove => SpilledPositions(inputs) = {}
    BY OperandOfMove
<1>2. /\ DOMAIN inputs = {1} /\ inputs[1] = m.from
      /\ TempMove \in {inputs[k] : k \in DOMAIN inputs} => SpilledPositions(inputs) = {}
    BY <1>1
<1> HIDE DEF inputs
<1>3. /\ Load(inputs) \in [AllPlaces -> AllPlaces]
      /\ \A l \in Locations : Load(inputs)[l] = machine[l]
      /\ SpilledPositions(inputs) = {} => Load(inputs) = machine
      /\ \A k \in DOMAIN inputs :
            Load(inputs)[PlaceOf(inputs[k], inputs)] = machine[HomeOf(inputs[k])]
    BY <1>1, <1>2, LoadsCarryTheInputs
<1>4. Load(inputs)[PlaceOf(m.from, inputs)] = machine[SourceOf(m)]
    BY <1>2, <1>3 DEF HomeOf, SourceOf
<1>5. machine' = [Load(inputs) EXCEPT ![to] = machine[SourceOf(m)]]
    BY <1>4 DEF Move, inputs
<1>6. SourceOf(m) \in AllPlaces
    BY DEF SourceOf, IInv, TypeOK, AllPlaces, Places
<1>7. Locations \subseteq AllPlaces
    BY DEF AllPlaces, Places
<1> QED
    BY <1>1, <1>3, <1>5, <1>6, <1>7 DEF FillTypeOK

LEMMA InitFillInv == FillInit /\ ConflictsAreSeen => FillInv
<1> SUFFICES ASSUME FillInit, ConflictsAreSeen
             PROVE  FillInv
    OBVIOUS
<1>1. IInv
    BY InitIInv DEF FillInit
<1>2. FillTypeOK
    BY DEF FillInit, FillTypeOK, AllPlaces
<1>3. BrokenCyclesNeedNoReload
    BY LocationsAssumption DEF FillInit, Init, BrokenCyclesNeedNoReload, Instructions
<1>4. OnlyPhisAreWritten /\ ReloadsAreInvisible
    BY DEF FillInit, Init, OnlyPhisAreWritten, ReloadsAreInvisible, Places
<1>5. TerminatorReadsItsInputs
    BY DEF FillInit, TerminatorReadsItsInputs
<1> QED
    BY <1>1, <1>2, <1>3, <1>4, <1>5 DEF FillInv

\* What a pending move is to read is what the moves alone leave there.
LEMMA SourcesAgree ==
    ASSUME FillInv, NEW m \in pending
    PROVE  machine[SourceOf(m)] = contents[SourceOf(m)]
<1>1. CASE m.from = TempMove
    BY <1>1 DEF FillInv, ReloadsAreInvisible, SourceOf
<1>2. CASE m.from # TempMove
    <2>1. SourceOf(m) \in Locations
        BY <1>2 DEF FillInv, IInv, TypeOK, SourceOf
    <2> QED
        BY <2>1, LocationsAssumption DEF FillInv, ReloadsAreInvisible, Locations
<1> QED
    BY <1>1, <1>2

LEMMA FilledMoveFillInv == FillInv /\ FilledMove => FillInv'
<1> SUFFICES ASSUME FillInv, FilledMove
             PROVE  FillInv'
    OBVIOUS
<1>1. PICK m \in pending :
        /\ ~IsSource(m)
        /\ contents' = [contents EXCEPT ![location[m.to]] = contents[SourceOf(m)]]
        /\ pending' = pending \ {m}
    BY DEF FilledMove, EmitMove
<1>2. /\ UNCHANGED <<location, incoming>>
      /\ UNCHANGED <<tail, read, outcome>>
      /\ Move(location[m.to], m.from)
    BY <1>1 DEF FilledMove, EmitMove
<1>3. /\ m.to \in Phis
      /\ location[m.to] \in Locations /\ location[m.to] \in AllPlaces
      /\ Reserved \notin Locations /\ Reserved \in AllPlaces /\ Reserved \in Places
    <2>1. m.to \in Phis /\ location[m.to] \in Locations
        BY DEF FillInv, IInv, TypeOK, Instructions
    <2> QED
        BY <2>1, LocationsAssumption DEF Locations, AllPlaces, Places
<1>4. IInv'
    BY EmitMoveIInv DEF FillInv, FilledMove
<1>5. /\ machine' \in [AllPlaces -> AllPlaces]
      /\ machine'[location[m.to]] = contents[SourceOf(m)]
      /\ \A l \in Locations \ {location[m.to]} : machine'[l] = machine[l]
      /\ ~IsSpilled(m.from) => \A l \in AllPlaces \ {location[m.to]} : machine'[l] = machine[l]
    BY <1>2, <1>3, MoveCarriesItsSource, SourcesAgree DEF FillInv
<1>6. FillTypeOK'
    BY <1>1, <1>2, <1>5 DEF FillInv, FillTypeOK
<1>7. BrokenCyclesNeedNoReload'
    BY <1>1, <1>2 DEF FillInv, BrokenCyclesNeedNoReload, IsSpilled
<1>8. /\ contents'[location[m.to]] = contents[SourceOf(m)]
      /\ \A l \in Places \ {location[m.to]} : contents'[l] = contents[l]
    BY <1>1, <1>3, <1>4 DEF FillInv, IInv, TypeOK, Places
<1>9. OnlyPhisAreWritten'
    <2>1. NeedsMove(m.to)' /\ \A p \in Phis : NeedsMove(p)' <=> NeedsMove(p)
        BY <1>2 DEF FillInv, IInv, MovesAreTheirPhis, NeedsMove
    <2> QED
        BY <1>2, <1>3, <1>8, <2>1 DEF FillInv, OnlyPhisAreWritten, Places
<1>10. ReloadsAreInvisible'
    <2>1. ASSUME NEW l \in Locations
          PROVE  machine'[l] = contents'[l]
        <3>1. machine[l] = contents[l]
            BY <1>3 DEF FillInv, ReloadsAreInvisible
        <3> QED
            BY <1>5, <1>8, <3>1 DEF Places
    <2>2. ASSUME NEW t \in pending', t.from = TempMove
          PROVE  machine'[Reserved] = contents'[Reserved]
        <3>1. ~IsSpilled(m.from)
            BY <1>1, <2>2 DEF FillInv, BrokenCyclesNeedNoReload
        <3>2. machine[Reserved] = contents[Reserved]
            BY <1>1, <2>2 DEF FillInv, ReloadsAreInvisible
        <3> QED
            BY <1>3, <1>5, <1>8, <3>1, <3>2
    <2> QED
        BY <2>1, <2>2 DEF ReloadsAreInvisible
<1>11. TerminatorReadsItsInputs'
    BY <1>1, <1>2 DEF FillInv, FillTypeOK, TerminatorReadsItsInputs
<1> QED
    BY <1>4, <1>6, <1>7, <1>9, <1>10, <1>11 DEF FillInv

LEMMA FilledBreakFillInv == FillInv /\ FilledBreak => FillInv'
<1> SUFFICES ASSUME FillInv, FilledBreak
             PROVE  FillInv'
    OBVIOUS
<1>1. PICK m \in pending :
        /\ contents' = [contents EXCEPT ![Reserved] = contents[SourceOf(m)]]
        /\ pending' = (pending \ {m}) \cup {[to |-> m.to, from |-> TempMove]}
    BY DEF FilledBreak, BreakCycle
<1>2. \A o \in pending : o.from \in Phis /\ location[o.from] \in Registers
    BY StuckReadsRegisters DEF FillInv, IInv, FilledBreak, BreakCycle, Stuck
<1>3. TempMove \notin Instructions /\ TempMove \notin Phis
    BY LocationsAssumption DEF Instructions
<1>4. /\ UNCHANGED <<location, incoming>>
      /\ UNCHANGED <<tail, read, outcome>>
      /\ Move(Reserved, m.from)
    BY <1>1, <1>2, <1>3 DEF FilledBreak, BreakCycle
<1>5. Reserved \notin Locations /\ Reserved \in AllPlaces /\ Reserved \in Places
    BY LocationsAssumption DEF Locations, AllPlaces, Places
<1>6. IInv'
    BY BreakCycleIInv DEF FillInv, FilledBreak
<1>7. \A o \in pending : ~IsSpilled(o.from)
    BY <1>2, LocationsAssumption DEF IsSpilled
<1>8. /\ machine' \in [AllPlaces -> AllPlaces]
      /\ machine'[Reserved] = contents[SourceOf(m)]
      /\ \A l \in Locations : machine'[l] = machine[l]
    BY <1>4, <1>5, MoveCarriesItsSource, SourcesAgree DEF FillInv
<1>9. /\ contents'[Reserved] = contents[SourceOf(m)]
      /\ \A l \in Locations : contents'[l] = contents[l]
    BY <1>1, <1>5 DEF FillInv, IInv, TypeOK, Places
<1>10. FillTypeOK'
    BY <1>1, <1>4, <1>8 DEF FillInv, FillTypeOK
<1>11. BrokenCyclesNeedNoReload'
    BY <1>1, <1>3, <1>4, <1>7 DEF BrokenCyclesNeedNoReload, IsSpilled
<1>12. OnlyPhisAreWritten'
    BY <1>4, <1>9 DEF FillInv, OnlyPhisAreWritten, NeedsMove
<1>13. ReloadsAreInvisible'
    BY <1>5, <1>8, <1>9 DEF FillInv, ReloadsAreInvisible
<1>14. TerminatorReadsItsInputs'
    BY <1>1, <1>4 DEF FillInv, FillTypeOK, TerminatorReadsItsInputs
<1> QED
    BY <1>6, <1>10, <1>11, <1>12, <1>13, <1>14 DEF FillInv

LEMMA FillTerminatorFillInv == FillInv /\ FillTerminator => FillInv'
<1> SUFFICES ASSUME FillInv, FillTerminator
             PROVE  FillInv'
    OBVIOUS
<1>1. /\ pending = {} /\ outcome = "none" /\ tail' \in Tails
      /\ UNCHANGED <<location, incoming, pending, contents>>
    BY DEF FillTerminator, vars
<1>2. tail' \in Seq(Instructions) /\ tail' \in Operands
    BY <1>1, FillAssumption DEF Operands
<1>3. IInv' /\ BrokenCyclesNeedNoReload' /\ OnlyPhisAreWritten'
    BY <1>1 DEF FillInv, IInv, TypeOK, AllocationIsValid, ConflictsAreSeen, Outgoing,
                MovesAreTheirPhis, NeedsMove, OneTempMove, NothingLost, SourceOf, Wanted,
                BrokenCyclesNeedNoReload, OnlyPhisAreWritten
<1>4. CASE Cardinality(SpilledPositions(tail')) > Len(ReservedRegisters)
    <2>1. outcome' = "thrown" /\ UNCHANGED <<machine, read>>
        BY <1>4 DEF FillTerminator
    <2> QED
        BY <1>1, <1>2, <1>3, <2>1
           DEF FillInv, FillTypeOK, ReloadsAreInvisible, TerminatorReadsItsInputs
<1>5. CASE ~(Cardinality(SpilledPositions(tail')) > Len(ReservedRegisters))
    <2>1. /\ outcome' = "filled"
          /\ machine' = Load(tail')
          /\ read' = [k \in DOMAIN tail' |-> Load(tail')[PlaceOf(tail'[k], tail')]]
        BY <1>5 DEF FillTerminator
    <2>2. \A k \in DOMAIN tail' : tail'[k] \in Instructions /\ tail'[k] # TempMove
        BY <1>2, LocationsAssumption DEF Instructions
    <2>3. Cardinality(SpilledPositions(tail')) <= 2
        <3>1. SpilledPositions(tail') \subseteq 1 .. Len(tail') /\ Len(tail') \in Nat
            BY <1>2 DEF SpilledPositions
        <3>2. Cardinality(SpilledPositions(tail')) \in Nat
            <4>1. IsFiniteSet(1 .. Len(tail'))
                BY <3>1, FS_Interval
            <4>2. IsFiniteSet(SpilledPositions(tail'))
                BY <3>1, <4>1, FS_Subset
            <4> QED
                BY <4>2, FS_CardinalityType
        <3> QED
            BY <1>5, <3>2 DEF ReservedRegisters
    <2>4. /\ Load(tail') \in [AllPlaces -> AllPlaces]
          /\ \A l \in Locations : Load(tail')[l] = machine[l]
          /\ \A k \in DOMAIN tail' :
                Load(tail')[PlaceOf(tail'[k], tail')] = machine[HomeOf(tail'[k])]
        BY <1>2, <2>2, <2>3, LoadsCarryTheInputs DEF FillInv
    <2>5. FillTypeOK'
        BY <1>1, <1>2, <2>1, <2>4 DEF FillTypeOK
    <2>6. ReloadsAreInvisible'
        BY <1>1, <2>1, <2>4, LocationsAssumption DEF FillInv, ReloadsAreInvisible, Locations
    <2>7. ASSUME NEW k \in DOMAIN tail'
          PROVE  LET moved == {p \in Phis : NeedsMove(p) /\ location[p] = location[tail'[k]]}
                 IN  IF moved = {} THEN read'[k] = location[tail'[k]]
                     ELSE \A p \in moved : read'[k] = Wanted(p)
        <3>1. location[tail'[k]] \in Locations
            BY <2>2 DEF FillInv, IInv, TypeOK
        <3>2. read'[k] = machine[location[tail'[k]]]
            BY <2>1, <2>2, <2>4 DEF HomeOf
        <3>3. machine[location[tail'[k]]] = contents[location[tail'[k]]]
            BY <3>1, LocationsAssumption DEF FillInv, ReloadsAreInvisible, Locations
        <3>4. \A p \in Phis : contents[location[p]] = Wanted(p)
            BY <1>1 DEF FillInv, IInv, NothingLost
        <3> QED
            BY <3>1, <3>2, <3>3, <3>4 DEF FillInv, OnlyPhisAreWritten
    <2>8. TerminatorReadsItsInputs'
        BY <1>1, <2>7 DEF TerminatorReadsItsInputs, NeedsMove, Wanted
    <2> QED
        BY <1>3, <2>5, <2>6, <2>8 DEF FillInv
<1> QED
    BY <1>4, <1>5

LEMMA NextFillInv == FillInv /\ [FillNext]_<<vars, fillVars>> => FillInv'
<1> SUFFICES ASSUME FillInv, [FillNext]_<<vars, fillVars>>
             PROVE  FillInv'
    OBVIOUS
<1>1. CASE FilledMove
    BY <1>1, FilledMoveFillInv
<1>2. CASE FilledBreak
    BY <1>2, FilledBreakFillInv
<1>3. CASE FillTerminator
    BY <1>3, FillTerminatorFillInv
<1>4. CASE UNCHANGED <<vars, fillVars>>
    BY <1>4 DEF vars, fillVars, FillInv, IInv, TypeOK, AllocationIsValid, ConflictsAreSeen,
                Outgoing, MovesAreTheirPhis, NeedsMove, OneTempMove, NothingLost, SourceOf, Wanted,
                FillTypeOK, BrokenCyclesNeedNoReload, IsSpilled, OnlyPhisAreWritten,
                ReloadsAreInvisible, TerminatorReadsItsInputs
<1> QED
    BY <1>1, <1>2, <1>3, <1>4 DEF FillNext, FillDone

-----------------------------------------------------------------------------

(***************************************************************************)
(* The inductive invariant of the final code where ConflictsAreSeen: from  *)
(* the break of the first cycle on, only registers are read, so no reload  *)
(* writes the one in which RewriteAndInsertSpillFill saves a value.        *)
(***************************************************************************)
THEOREM FillInductiveInvariant == ConflictsAreSeen /\ FillSpec => []FillInv
BY InitFillInv, NextFillInv, PTL DEF FillSpec

(***************************************************************************)
(* Where ConflictsAreSeen, the loads that SpillFillForInstruction puts in  *)
(* front of the moves change nothing that ResolvePhis relies on.           *)
(***************************************************************************)
THEOREM ReloadsCannotBeSeen == ConflictsAreSeen /\ FillSpec => []ReloadsAreInvisible
<1>1. FillInv => ReloadsAreInvisible
    BY DEF FillInv
<1> QED
    BY <1>1, FillInductiveInvariant, PTL

(***************************************************************************)
(* What a terminator reads that SpillFillForInstruction does not refuse,   *)
(* where ConflictsAreSeen, however many inputs it has and wherever they    *)
(* live: their values, but for an input in the place of a phi that is      *)
(* moved on the edge.  For that one it reads the phi's new value, because  *)
(* the moves are put before it: ResolvePhis does not keep such inputs.     *)
(***************************************************************************)
THEOREM TerminatorReadsInputsOrMovedPhis == ConflictsAreSeen /\ FillSpec => []TerminatorReadsItsInputs
<1>1. FillInv => TerminatorReadsItsInputs
    BY DEF FillInv
<1> QED
    BY <1>1, FillInductiveInvariant, PTL

(***************************************************************************)
(* Where ConflictsAreSeen, the final code of an edge, reloads and          *)
(* terminator included, makes the parallel copy of the phi functions of    *)
(* the successor: the reloads add no case to those in which it does not.   *)
(***************************************************************************)
THEOREM FinalCodeIsAParallelCopy ==
    ConflictsAreSeen /\ FillSpec => [](pending = {} => \A p \in Phis : machine[location[p]] = Wanted(p))
<1> DEFINE Copied == pending = {} => \A p \in Phis : machine[location[p]] = Wanted(p)
<1>1. ASSUME FillInv
      PROVE  Copied
    <2> SUFFICES ASSUME pending = {}, NEW p \in Phis
                 PROVE  machine[location[p]] = Wanted(p)
        OBVIOUS
    <2>1. location[p] \in Locations
        BY <1>1 DEF FillInv, IInv, TypeOK, Instructions
    <2>2. contents[location[p]] = Wanted(p)
        BY <1>1 DEF FillInv, IInv, NothingLost
    <2> QED
        BY <1>1, <2>1, <2>2, LocationsAssumption DEF FillInv, ReloadsAreInvisible, Locations
<1> QED
    BY <1>1, FillInductiveInvariant, PTL

(***************************************************************************)
(* Seen without its reloads and its terminator, the final code emits the   *)
(* moves of ResolvePhis: each step of it is a step of PhiMoves or none.    *)
(***************************************************************************)
THEOREM FinalCodeEmitsTheMoves == FillSpec => Init /\ [][Next]_vars
<1>1. FillInit => Init
    BY DEF FillInit
<1>2. [FillNext]_<<vars, fillVars>> => [Next]_vars
    BY DEF FillNext, FilledMove, FilledBreak, FillTerminator, FillDone, Next
<1> QED
    BY <1>1, <1>2, PTL DEF FillSpec

=============================================================================
