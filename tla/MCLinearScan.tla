---------------------------- MODULE MCLinearScan ----------------------------
(***************************************************************************)
(* LinearScan over every set of five hulls with ends in 0 .. MaxPosition.  *)
(* The intervals are numbered so that their starts do not decrease: any    *)
(* other numbering renames the intervals and shows the same runs.          *)
(***************************************************************************)
EXTENDS LinearScan

CONSTANT MaxPosition

MCIntervals == 1 .. 5
MCPositions == 0 .. MaxPosition

Hulls == {h \in Positions \X Positions : h[1] < h[2]}

MCInit ==
    /\ \E h \in [Intervals -> Hulls] :
        /\ \A i \in Intervals : i + 1 \in Intervals => h[i][1] <= h[i + 1][1]
        /\ start = [i \in Intervals |-> h[i][1]]
        /\ end = [i \in Intervals |-> h[i][2]]
    /\ Init

MCSpec == MCInit /\ [][Next]_vars

=============================================================================
