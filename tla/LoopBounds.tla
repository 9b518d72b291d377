----------------------------- MODULE LoopBounds -----------------------------
(***************************************************************************)
(* BoundsAnalysis::AnalyzeLoop (analysis/bounds_analysis.cpp) and what     *)
(* ChecksElimination::EliminateRedundantBoundsChecks makes of it           *)
(* (opt/checks_elimination.cpp): from the bounds of a counting loop they   *)
(* decide that a bounds check of its index can go.  The loop is then run,  *)
(* on words of some width, to see whether the check would have failed.     *)
(*                                                                         *)
(* The loop has a header and a latch.  Its test compares the phi of the    *)
(* header with a limit, in the header or in the latch.  What makes the     *)
(* analysis give up (no comparison, no phi of the header, an update that   *)
(* does not add a constant, a first value that is no constant) leads to no *)
(* removal and is left out.                                                *)
(***************************************************************************)
EXTENDS Integers

CONSTANT SignBit    \* the weight of a word's highest bit, 2^63 in the program

ASSUME SignBitAssumption == SignBit \in Nat \ {0}

VARIABLES
    loop,       \* the program: a record, below
    pc,         \* "header", "latch", "exit": the block that runs next
    i,          \* the phi of the header that is tested
    j,          \* another phi of the header
    limit,      \* what the test compares it with
    len,        \* the length the check compares it with
    wrapped     \* whether an addition has left the signed range

vars == <<loop, pc, i, j, limit, len, wrapped>>

NumWords == 2 * SignBit

Word == 0 .. (NumWords - 1)

Signed(v) == IF v < SignBit THEN v ELSE v - NumWords

ConditionCode == {"EQ", "NE", "LT", "GT", "LE", "GE", "UGT", "ULE"}

LoopProgram == [
    branch : {"header", "inner", "latch"},
        \* the branch that compares: of the header, leaving the loop; of the header,
        \* to two blocks of the loop; of the latch, leaving the loop
    cc : ConditionCode,
    swapped : BOOLEAN,          \* the phi is on the right
    trueOutside : BOOLEAN,      \* the branch leaves when the comparison holds
    init : Word, step : Word,
    limitIsLen : BOOLEAN,       \* the same instruction
    limitIsConst : BOOLEAN, lenIsConst : BOOLEAN,
    checkAt : {"header", "latch"},
    checksOther : BOOLEAN,      \* the check is of j
    otherInit : Word, otherStep : Word]

-----------------------------------------------------------------------------
(* What the instructions mean. *)

Holds(cc, l, r) == [
    EQ |-> l = r, NE |-> l # r,
    LT |-> Signed(l) < Signed(r), GT |-> Signed(l) > Signed(r),
    LE |-> Signed(l) <= Signed(r), GE |-> Signed(l) >= Signed(r),
    UGT |-> l > r, ULE |-> l <= r][cc]

IndexFails(index, length) == Signed(index) < 0 \/ index >= length

CheckFails == IndexFails(IF loop.checksOther THEN j ELSE i, len)

\* The branch does not leave the loop.
Stays ==
    Holds(loop.cc, IF loop.swapped THEN limit ELSE i, IF loop.swapped THEN i ELSE limit)
        <=> ~loop.trueOutside

-----------------------------------------------------------------------------
(* AnalyzeLoop *)

\* The codes are swapped where they should be inverted.
InvertAsSwap == [
    EQ |-> "NE", NE |-> "EQ", LT |-> "GT", GT |-> "LT",
    LE |-> "GE", GE |-> "LE", UGT |-> "ULE", ULE |-> "UGT"]

InvertConditionCode == [
    EQ |-> "NE", NE |-> "EQ", LT |-> "GE", GT |-> "LE",
    LE |-> "GT", GE |-> "LT", UGT |-> "ULE", ULE |-> "UGT"]

SwapConditionCode == [
    EQ |-> "EQ", NE |-> "NE", LT |-> "GT", GT |-> "LT",
    LE |-> "GE", GE |-> "LE", UGT |-> "LT", ULE |-> "GE"]

\* bounds.cc.  Only a branch of the header is asked where it goes.
BoundsCC ==
    LET cc == IF loop.branch = "header" /\ loop.trueOutside
              THEN InvertConditionCode[loop.cc] ELSE loop.cc
    IN  IF loop.swapped THEN SwapConditionCode[cc] ELSE cc

(* EliminateRedundantBoundsChecks *)

\* A limit equal to the length is taken for one below it.
BelowLengthOrEqual ==
    \/ BoundsCC = "LT" /\ (loop.limitIsLen \/ limit <= len)
    \/ BoundsCC = "LE" /\ limit <= len

BelowLength ==
    LET bothConst == loop.limitIsConst /\ loop.lenIsConst
    IN  \/ BoundsCC = "LT" /\ (loop.limitIsLen \/ (bothConst /\ limit <= len))
        \/ BoundsCC = "LE" /\ bothConst /\ limit < len

\* always_in_bounds: the check goes.  On unsigned words but for the sign of the first
\* value.  The index may be any phi of the header: checksOther is not asked.
AlwaysInBounds ==
    /\ loop.step > 0
    /\ Signed(loop.init) >= 0
    /\ BelowLength

-----------------------------------------------------------------------------
(* The run of the loop. *)

Init ==
    /\ loop \in LoopProgram
    /\ pc = "header"
    /\ i = loop.init
    /\ j = loop.otherInit
    /\ limit \in Word
    /\ len \in Word
    /\ loop.limitIsLen => limit = len /\ loop.limitIsConst = loop.lenIsConst
    /\ wrapped = FALSE

RunHeader ==
    /\ pc = "header"
    /\ pc' = IF loop.branch = "header" /\ ~Stays THEN "exit" ELSE "latch"
    /\ UNCHANGED <<loop, i, j, limit, len, wrapped>>

Leave ==
    /\ pc = "latch"
    /\ loop.branch = "inner" \/ (loop.branch = "latch" /\ ~Stays)
    /\ pc' = "exit"
    /\ UNCHANGED <<loop, i, j, limit, len, wrapped>>

\* The next iteration.  A limit or a length that is no constant may be another one.
Repeat ==
    /\ pc = "latch"
    /\ loop.branch = "latch" => Stays
    /\ pc' = "header"
    /\ i' = (i + loop.step) % NumWords
    /\ j' = (j + loop.otherStep) % NumWords
    /\ wrapped' = (wrapped \/ Signed(i') # Signed(i) + Signed(loop.step))
    /\ len' \in IF loop.lenIsConst THEN {len} ELSE Word
    /\ limit' \in IF loop.limitIsConst THEN {limit} ELSE Word
    /\ loop.limitIsLen => limit' = len'
    /\ UNCHANGED loop

Exited == pc = "exit" /\ UNCHANGED vars

Next == RunHeader \/ Leave \/ Repeat \/ Exited

Spec == Init /\ [][Next]_vars

-----------------------------------------------------------------------------

\* The check is passed in the body of a loop that leaves from its header.
InBody == loop.branch = "header" /\ pc = "latch" /\ loop.checkAt = "latch"

\* The step is positive as a signed word, and no addition has left the signed range.
CountsUp == Signed(loop.step) > 0 /\ ~wrapped

\* A comparison of unsigned words that AnalyzeLoop mirrors to a signed one.
MirroredUnsigned == loop.swapped /\ loop.cc \in {"UGT", "ULE"}

\* The recorded condition on phi and limit, on unsigned words where the comparison was.
RecordedHolds ==
    IF MirroredUnsigned
    THEN (BoundsCC = "LT" /\ i < limit) \/ (BoundsCC = "GE" /\ i >= limit)
    ELSE Holds(BoundsCC, i, limit)

(***************************************************************************)
(* What AnalyzeLoop records is the test: the body of a loop that is tested *)
(* in its header, whichever way round, runs only while it holds.  Of a     *)
(* test in the latch it is the branch to the true side, so the loop goes   *)
(* on while it fails where that side is outside.  A mirrored unsigned code *)
(* bounds the words, and not the numbers that the signed code speaks of.   *)
(***************************************************************************)
BoundsDescribeTest == pc = "latch" =>
    /\ loop.branch = "header" => RecordedHolds
    /\ loop.branch = "latch" => (RecordedHolds <=> (Stays <=> ~loop.trueOutside))

(***************************************************************************)
(* A check of the tested phi that is removed from the body of a loop       *)
(* tested in its header could have failed in one way only: with an index   *)
(* below zero, and that after the phi has counted down or wrapped, since   *)
(* "step > 0" is asked of an unsigned word.  It never fails above, for any *)
(* step, limit, and length that changes between iterations.                *)
(***************************************************************************)
RemovedFromBodyHolds ==
    AlwaysInBounds /\ InBody /\ ~loop.checksOther /\ CheckFails => Signed(i) < 0 /\ ~CountsUp

(***************************************************************************)
(* What the tests call redundant, of any check that is removed in such a   *)
(* loop: the code does not ask whether it stands in the header, before the *)
(* test, nor whether it is of the phi that is tested, nor whether that phi *)
(* counts up.                                                              *)
(***************************************************************************)
RemovedIsRedundant ==
    AlwaysInBounds /\ loop.branch = "header" /\ pc = loop.checkAt => ~CheckFails

=============================================================================
