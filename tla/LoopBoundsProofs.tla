--------------------------- MODULE LoopBoundsProofs ---------------------------
(***************************************************************************)
(* What LoopBounds promises of the checks that go, for words of any width, *)
(* any loop and any run of it.                                             *)
(***************************************************************************)
EXTENDS LoopBounds, TLAPS

TypeOK ==
    /\ loop \in LoopProgram
    /\ pc \in {"header", "latch", "exit"}
    /\ i \in Word /\ j \in Word /\ limit \in Word /\ len \in Word
    /\ wrapped \in BOOLEAN

\* The two are one instruction, read in one iteration.
OneLimit == loop.limitIsLen => limit = len

TestPassed == loop.branch = "header" /\ pc = "latch" => Stays

NotBelowInit == CountsUp => Signed(i) >= Signed(loop.init)

Inv == TypeOK /\ OneLimit /\ TestPassed /\ NotBelowInit

-----------------------------------------------------------------------------

LEMMA SignedIsInt == \A v \in Word : v \in Nat /\ Signed(v) \in Int
BY SignBitAssumption DEF Word, NumWords, Signed

LEMMA WordsWrap == \A v, w \in Word : (v + w) % NumWords \in Word
BY SignBitAssumption DEF Word, NumWords

LEMMA InitInv == Init => Inv
<1> SUFFICES ASSUME Init
             PROVE  Inv
    OBVIOUS
<1>1. TypeOK
    BY DEF Init, TypeOK, LoopProgram
<1>2. Signed(i) >= Signed(loop.init)
    BY <1>1, SignedIsInt DEF Init, TypeOK
<1> QED
    BY <1>1, <1>2 DEF Init, Inv, OneLimit, TestPassed, NotBelowInit

LEMMA RunHeaderInv == Inv /\ RunHeader => Inv'
<1> SUFFICES ASSUME Inv, RunHeader
             PROVE  Inv'
    OBVIOUS
<1>1. TypeOK' /\ OneLimit'
    BY DEF Inv, TypeOK, OneLimit, RunHeader
<1>2. TestPassed'
    BY DEF RunHeader, TestPassed, Stays
<1>3. NotBelowInit'
    BY DEF Inv, RunHeader, NotBelowInit, CountsUp
<1> QED
    BY <1>1, <1>2, <1>3 DEF Inv

LEMMA RepeatInv == Inv /\ Repeat => Inv'
<1> SUFFICES ASSUME Inv, Repeat
             PROVE  Inv'
    OBVIOUS
<1>1. TypeOK
    BY DEF Inv
<1>2. TypeOK'
    <2>1. loop.step \in Word /\ loop.otherStep \in Word
        BY <1>1 DEF TypeOK, LoopProgram
    <2>2. i' \in Word /\ j' \in Word
        BY <1>1, <2>1, WordsWrap DEF TypeOK, Repeat
    <2>3. len' \in Word /\ limit' \in Word /\ wrapped' \in BOOLEAN
        BY <1>1 DEF TypeOK, Repeat
    <2> QED
        BY <1>1, <2>2, <2>3 DEF TypeOK, Repeat
<1>3. NotBelowInit'
    <2> SUFFICES ASSUME Signed(loop.step) > 0, ~wrapped'
                 PROVE  Signed(i)' >= Signed(loop.init)
        BY DEF NotBelowInit, CountsUp, Repeat, Signed
    <2>1. ~wrapped /\ Signed(i') = Signed(i) + Signed(loop.step)
        BY DEF Repeat
    <2>2. Signed(i) >= Signed(loop.init)
        BY <2>1 DEF Inv, NotBelowInit, CountsUp
    <2>3. loop.init \in Word /\ loop.step \in Word
        BY <1>1 DEF TypeOK, LoopProgram
    <2>4. Signed(i') = Signed(i)'
        BY DEF Signed
    <2> QED
        BY <1>1, <2>1, <2>2, <2>3, <2>4, SignedIsInt DEF TypeOK
<1> QED
    BY <1>2, <1>3 DEF Repeat, Inv, OneLimit, TestPassed

LEMMA NextInv == Inv /\ [Next]_vars => Inv'
<1> SUFFICES ASSUME Inv, [Next]_vars
             PROVE  Inv'
    OBVIOUS
<1>1. CASE Leave
    BY <1>1 DEF Leave, Inv, TypeOK, OneLimit, TestPassed, NotBelowInit, CountsUp, Signed
<1>2. CASE Exited \/ UNCHANGED vars
    BY <1>2 DEF Exited, vars, Inv, TypeOK, OneLimit, TestPassed, Stays, NotBelowInit, CountsUp, Signed
<1> QED
    BY <1>1, <1>2, RunHeaderInv, RepeatInv DEF Next

-----------------------------------------------------------------------------
(* The condition codes. *)

LEMMA HoldsIsComparison ==
    ASSUME NEW l \in Word, NEW r \in Word
    PROVE  /\ Holds("EQ", l, r) <=> l = r
           /\ Holds("NE", l, r) <=> l # r
           /\ Holds("LT", l, r) <=> Signed(l) < Signed(r)
           /\ Holds("GT", l, r) <=> Signed(l) > Signed(r)
           /\ Holds("LE", l, r) <=> Signed(l) <= Signed(r)
           /\ Holds("GE", l, r) <=> Signed(l) >= Signed(r)
           /\ Holds("UGT", l, r) <=> l > r
           /\ Holds("ULE", l, r) <=> l <= r
BY DEF Holds

LEMMA SignIsOrder ==
    ASSUME NEW l \in Word, NEW r \in Word
    PROVE  /\ l = r <=> Signed(l) = Signed(r)
           /\ Signed(l) >= 0 /\ l < r /\ Signed(r) >= 0 => Signed(l) < Signed(r)
           /\ Signed(l) >= 0 => Signed(l) = l
           /\ Signed(l) <= l
BY SignBitAssumption DEF Word, NumWords, Signed

LEMMA InversionNegates ==
    ASSUME NEW cc \in ConditionCode, NEW l \in Word, NEW r \in Word
    PROVE  /\ InvertConditionCode[cc] \in ConditionCode
           /\ Holds(InvertConditionCode[cc], l, r) <=> ~Holds(cc, l, r)
<1>1. l \in Nat /\ r \in Nat /\ Signed(l) \in Int /\ Signed(r) \in Int
    BY SignedIsInt
<1> QED
    BY <1>1, HoldsIsComparison DEF ConditionCode, InvertConditionCode

LEMMA SwapMirrors ==
    ASSUME NEW cc \in ConditionCode \ {"UGT", "ULE"}, NEW l \in Word, NEW r \in Word
    PROVE  Holds(SwapConditionCode[cc], r, l) <=> Holds(cc, l, r)
<1>1. l \in Nat /\ r \in Nat /\ Signed(l) \in Int /\ Signed(r) \in Int
    BY SignedIsInt
<1> QED
    BY <1>1, HoldsIsComparison DEF ConditionCode, SwapConditionCode

(***************************************************************************)
(* Where the comparison goes to its true side, or does not go there and    *)
(* the code is inverted, the recorded condition holds: swapping mirrors a  *)
(* code, and an unsigned one gives LT where the phi is below the limit.    *)
(***************************************************************************)
LEMMA RecordedConditionHolds ==
    ASSUME TypeOK, NEW cc \in ConditionCode,
           cc = loop.cc \/ cc = InvertConditionCode[loop.cc],
           BoundsCC = IF loop.swapped THEN SwapConditionCode[cc] ELSE cc
    PROVE  RecordedHolds <=>
             Holds(cc, IF loop.swapped THEN limit ELSE i, IF loop.swapped THEN i ELSE limit)
<1>1. loop.cc \in ConditionCode /\ loop.swapped \in BOOLEAN /\ i \in Word /\ limit \in Word
    BY DEF TypeOK, LoopProgram
<1>2. loop.cc \in {"UGT", "ULE"} <=> cc \in {"UGT", "ULE"}
    BY <1>1 DEF ConditionCode, InvertConditionCode
<1>3. CASE MirroredUnsigned
    <2>1. /\ cc \in {"UGT", "ULE"} /\ loop.swapped
          /\ BoundsCC = IF cc = "UGT" THEN "LT" ELSE "GE"
        BY <1>2, <1>3 DEF MirroredUnsigned, SwapConditionCode, ConditionCode
    <2> QED
        BY <1>1, <1>3, <2>1, HoldsIsComparison, SignedIsInt DEF RecordedHolds
<1>4. CASE ~MirroredUnsigned
    <2>1. loop.swapped => cc \in ConditionCode \ {"UGT", "ULE"}
        BY <1>2, <1>4 DEF MirroredUnsigned
    <2> QED
        BY <1>1, <1>4, <2>1, SwapMirrors DEF RecordedHolds
<1> QED
    BY <1>3, <1>4

LEMMA BodyKeepsRecorded ==
    ASSUME Inv, loop.branch = "header", pc = "latch"
    PROVE  RecordedHolds
<1> DEFINE cc == IF loop.trueOutside THEN InvertConditionCode[loop.cc] ELSE loop.cc
           l == IF loop.swapped THEN limit ELSE i
           r == IF loop.swapped THEN i ELSE limit
<1>1. /\ loop.cc \in ConditionCode /\ loop.swapped \in BOOLEAN /\ loop.trueOutside \in BOOLEAN
      /\ i \in Word /\ limit \in Word
    BY DEF Inv, TypeOK, LoopProgram
<1>2. Holds(loop.cc, l, r) <=> ~loop.trueOutside
    BY DEF Inv, TestPassed, Stays
<1>3. l \in Word /\ r \in Word
    BY <1>1
<1>4. cc \in ConditionCode /\ Holds(cc, l, r)
    <2>1. CASE loop.trueOutside
        BY <1>1, <1>2, <1>3, <2>1, InversionNegates
    <2>2. CASE ~loop.trueOutside
        BY <1>1, <1>2, <2>2
    <2> QED
        BY <1>1, <2>1, <2>2
<1>5. BoundsCC = IF loop.swapped THEN SwapConditionCode[cc] ELSE cc
    BY DEF BoundsCC
<1>6. cc = loop.cc \/ cc = InvertConditionCode[loop.cc]
    BY <1>1
<1> HIDE DEF cc
<1> QED
    BY <1>4, <1>5, <1>6, RecordedConditionHolds DEF Inv

LEMMA LatchRecordsTrueSide ==
    ASSUME Inv, loop.branch = "latch"
    PROVE  RecordedHolds <=> (Stays <=> ~loop.trueOutside)
<1>1. loop.cc \in ConditionCode /\ loop.trueOutside \in BOOLEAN
    BY DEF Inv, TypeOK, LoopProgram
<1>2. BoundsCC = IF loop.swapped THEN SwapConditionCode[loop.cc] ELSE loop.cc
    BY DEF BoundsCC
<1>3. RecordedHolds <=>
        Holds(loop.cc, IF loop.swapped THEN limit ELSE i, IF loop.swapped THEN i ELSE limit)
    BY <1>1, <1>2, RecordedConditionHolds DEF Inv
<1> QED
    BY <1>1, <1>3 DEF Stays

-----------------------------------------------------------------------------

(***************************************************************************)
(* The inductive invariant of the run of a loop.                           *)
(***************************************************************************)
THEOREM InductiveInvariant == Spec => []Inv
BY InitInv, NextInv, PTL DEF Spec

(***************************************************************************)
(* What the condition that AnalyzeLoop records has to do with the test,    *)
(* for words of any width: it holds whenever the body of a loop tested in  *)
(* its header runs, of the unsigned words where an unsigned code was       *)
(* mirrored to a signed one; of a loop tested in its latch it holds where  *)
(* the branch goes to its true side, be that in the loop or outside.       *)
(***************************************************************************)
THEOREM RecordedBoundsDescribe == Spec => []BoundsDescribeTest
<1>1. Inv => BoundsDescribeTest
    BY BodyKeepsRecorded, LatchRecordsTrueSide DEF BoundsDescribeTest
<1> QED
    BY <1>1, InductiveInvariant, PTL

(***************************************************************************)
(* A check of the tested phi that EliminateRedundantBoundsChecks removes   *)
(* from the body of a loop tested in its header, for words of any width,   *)
(* any first value, step, limit and length: the index is below the length, *)
(* and it is not below zero unless the phi has counted down or wrapped.    *)
(* Where it has, the removed check could fail, and did in the runs.        *)
(***************************************************************************)
THEOREM RemovedChecksHold == Spec => []RemovedFromBodyHolds
<1>1. ASSUME Inv, AlwaysInBounds, InBody, ~loop.checksOther, CheckFails
      PROVE  Signed(i) < 0 /\ ~CountsUp
    <2>1. /\ loop.branch = "header" /\ pc = "latch"
          /\ i \in Word /\ limit \in Word /\ len \in Word
          /\ loop.init \in Word
        BY <1>1 DEF InBody, Inv, TypeOK, LoopProgram
    <2>2. CountsUp => Signed(i) >= 0
        BY <1>1, <2>1, SignedIsInt DEF AlwaysInBounds, Inv, NotBelowInit
    <2>3. \/ BoundsCC = "LT" /\ limit <= len
          \/ BoundsCC = "LE" /\ limit < len
        BY <1>1, <2>1, SignedIsInt DEF AlwaysInBounds, BelowLength, Inv, OneLimit
    <2>4. RecordedHolds
        BY <1>1, <2>1, BodyKeepsRecorded
    <2>5. Signed(i) >= 0 => i < len
        <3>1. CASE MirroredUnsigned
            BY <2>1, <2>3, <2>4, <3>1, SignedIsInt DEF RecordedHolds
        <3>2. CASE ~MirroredUnsigned
            <4>1. Holds(BoundsCC, i, limit)
                BY <2>4, <3>2 DEF RecordedHolds
            <4> QED
                BY <2>1, <2>3, <4>1, HoldsIsComparison, SignIsOrder, SignedIsInt
        <3> QED
            BY <3>1, <3>2
    <2>6. Signed(i) < 0
        BY <1>1, <2>1, <2>5, SignedIsInt DEF CheckFails, IndexFails
    <2> QED
        BY <2>1, <2>2, <2>6, SignedIsInt
<1> QED
    BY <1>1, InductiveInvariant, PTL DEF RemovedFromBodyHolds

=============================================================================
