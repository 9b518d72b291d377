--------------------------- MODULE MCGraphAnalyses ---------------------------
(***************************************************************************)
(* GraphAnalyses over every graph of four blocks with at most two          *)
(* successors each, which is what a terminator can have.  The blocks after *)
(* the first are interchangeable, so they are numbered by a measure of     *)
(* their edges: every graph is isomorphic to one numbered that way.        *)
(***************************************************************************)
EXTENDS GraphAnalyses

MCBlocks == 1 .. 4
MCStart == 1
MCLengths == 1 .. 2

\* Each about one pointer or one index, its instructions in the order of their blocks.
OnePointer == [at : 1 .. 4, op : {"NULL_CHECK", "LOAD", "STORE"}, len : {None}]
OneIndex == [at : 1 .. 4, op : {"BOUNDS_CHECK"}, len : {1, 2}]

MCPrograms ==
    UNION {{p \in [1 .. n -> U] :
                /\ \A i \in 1 .. n - 1 : p[i].at <= p[i + 1].at
                /\ p[1].len \in {None, 1}
                /\ \E i \in 1 .. n : p[i].op \in {"NULL_CHECK", "BOUNDS_CHECK"}} :
              n \in 2 .. 3, U \in {OnePointer, OneIndex}}

Measure(x) ==
    (IF x \in succs[Start] THEN 100 ELSE 0) + 10 * Cardinality(succs[x]) + Cardinality(Preds(x))

MCInit ==
    /\ succs \in [Blocks -> {S \in SUBSET Blocks : Cardinality(S) <= 2}]
    /\ \A x \in 2 .. 3 : Measure(x) <= Measure(x + 1)
    /\ AnalysesInit

MCSpec == MCInit /\ [][AnalysesNext]_allVars /\ WF_vars(Next)

=============================================================================
