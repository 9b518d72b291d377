----------------------------- MODULE LiveInterval -----------------------------
(***************************************************************************)
(* LiveInterval (analysis/live_interval.cpp): the ranges of positions of a *)
(* value, half open, kept sorted and apart by AddRange.                    *)
(***************************************************************************)
EXTENDS Integers, SequencesExt

LiveRange == [start : Nat, end : Nat]

\* Ranges that only touch stay two.
ReachesOverlapping(end, pos) == pos < end

\* What ends at pos or later merges with what starts at pos.
Reaches(end, pos) == pos <= end

\* std::lower_bound, by start.
LowerBound(ranges, start) == 1 + Cardinality({k \in DOMAIN ranges : ranges[k].start < start})

AddRange(ranges, start, end) ==
    LET it        == LowerBound(ranges, start)
        joined    == it > 1 /\ Reaches(ranges[it - 1].end, start)
        first     == IF joined THEN it - 1 ELSE it
        EndOver(k) == Max({end} \cup {ranges[j].end : j \in first .. k})    \* merged up to k
        stop      == CHOOSE k \in it .. (Len(ranges) + 1) :    \* the first that stays
                        /\ \A j \in it .. (k - 1) : Reaches(EndOver(j - 1), ranges[j].start)
                        /\ k <= Len(ranges) => ~Reaches(EndOver(k - 1), ranges[k].start)
        merged    == [start |-> IF joined THEN ranges[first].start ELSE start,
                      end   |-> EndOver(stop - 1)]
    IN  IF start >= end THEN ranges
        ELSE SubSeq(ranges, 1, first - 1) \o <<merged>> \o SubSeq(ranges, stop, Len(ranges))

SetStart(ranges, pos) ==
    IF ranges = <<>> THEN <<[start |-> pos, end |-> pos + 1]>>
    ELSE [ranges EXCEPT ![1].start = IF pos > @ THEN pos ELSE @]

IsLiveAt(ranges, point) ==
    \E k \in DOMAIN ranges : ranges[k].start <= point /\ point < ranges[k].end

-----------------------------------------------------------------------------

Apart(ranges) ==
    /\ \A k \in DOMAIN ranges : ranges[k].start < ranges[k].end
    /\ \A k \in DOMAIN ranges : \A j \in 1 .. (k - 1) : ranges[j].end < ranges[k].start

=============================================================================
