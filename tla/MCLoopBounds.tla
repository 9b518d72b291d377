---------------------------- MODULE MCLoopBounds ----------------------------
(***************************************************************************)
(* LoopBounds on words of three bits: a first value of zero, above or      *)
(* below, a step of one, of three (which wraps) or below zero, every limit *)
(* and every length.  Another phi stands still or goes up by three.        *)
(***************************************************************************)
EXTENDS LoopBounds

FirstValues == {0, 1, 7}

Steps == {1, 3, 7}

\* Loops that do not leave from the header are run with two of the codes.
Tests == ({"header"} \X ConditionCode) \cup ({"inner", "latch"} \X {"LT", "GE"})

MCInit ==
    /\ loop \in {[branch |-> t[1], cc |-> t[2], swapped |-> w, trueOutside |-> o,
                  init |-> v, step |-> s, limitIsLen |-> e, limitIsConst |-> lc, lenIsConst |-> nc,
                  checkAt |-> at, checksOther |-> k > 0, otherInit |-> 0, otherStep |-> k] :
                    t \in Tests, w, o \in BOOLEAN, v \in FirstValues, s \in Steps,
                    e, lc, nc \in BOOLEAN, at \in {"header", "latch"}, k \in {0, 3}}
    /\ Init

MCSpec == MCInit /\ [][Next]_vars

=============================================================================
