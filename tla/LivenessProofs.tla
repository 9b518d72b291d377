---------------------------- MODULE LivenessProofs ----------------------------
(***************************************************************************)
(* Proofs about Liveness for every reducible graph in a linear order and   *)
(* every value: AddRange and SetStart keep the ranges sorted and apart and *)
(* add and cut exactly the points they name, and the single backward pass  *)
(* leaves the interval that liveness by paths asks for, and no more.       *)
(***************************************************************************)
EXTENDS Liveness, FiniteSetTheorems, SequenceTheorems, WellFoundedInduction, TLAPS

LEMMA LeastNumber ==
    ASSUME NEW T \in SUBSET Nat, T # {}
    PROVE  \E n \in T : \A m \in T : n <= m
<1>1. PICK n \in T : \A m \in T : ~ <<m, n>> \in OpToRel(<, Nat)
    BY NatLessThanWellFounded, WFMin
<1>2. \A m \in T : ~ (m < n)
    BY <1>1 DEF OpToRel
<1> QED
    BY <1>2

-----------------------------------------------------------------------------
(* Intervals. *)

\* The ranges of an interval that AddRange keeps.
Sorted(rs) == rs \in Seq(LiveRange) /\ Apart(rs)

LEMMA RangesAreNumbers ==
    ASSUME NEW rs, Sorted(rs)
    PROVE  /\ Len(rs) \in Nat /\ DOMAIN rs = 1 .. Len(rs)
           /\ \A k \in 1 .. Len(rs) : /\ rs[k] \in LiveRange
                                      /\ rs[k].start \in Nat /\ rs[k].end \in Nat
                                      /\ rs[k].start < rs[k].end
           /\ \A j, k \in 1 .. Len(rs) : j < k => rs[j].end < rs[k].start
           /\ \A j, k \in 1 .. Len(rs) : j <= k => rs[j].start <= rs[k].start /\ rs[j].end <= rs[k].end
<1>1. /\ Len(rs) \in Nat /\ DOMAIN rs = 1 .. Len(rs)
      /\ \A k \in 1 .. Len(rs) : rs[k] \in LiveRange
    BY LenProperties, ElementOfSeq DEF Sorted
<1>2. \A k \in 1 .. Len(rs) : rs[k].start \in Nat /\ rs[k].end \in Nat /\ rs[k].start < rs[k].end
    BY <1>1 DEF LiveRange, Sorted, Apart
<1>3. \A j, k \in 1 .. Len(rs) : j < k => rs[j].end < rs[k].start
    <2> SUFFICES ASSUME NEW j \in 1 .. Len(rs), NEW k \in 1 .. Len(rs), j < k
                 PROVE  rs[j].end < rs[k].start
        OBVIOUS
    <2>1. j \in 1 .. (k - 1)
        BY <1>1
    <2> QED
        BY <1>1, <2>1 DEF Sorted, Apart
<1>4. ASSUME NEW j \in 1 .. Len(rs), NEW k \in 1 .. Len(rs), j <= k
      PROVE  rs[j].start <= rs[k].start /\ rs[j].end <= rs[k].end
    <2>1. CASE j = k
        BY <1>2, <2>1
    <2>2. CASE j < k
        <3>1. rs[j].end < rs[k].start
            BY <1>3, <2>2
        <3> QED
            BY <1>2, <3>1
    <2> QED
        BY <1>4, <2>1, <2>2
<1> QED
    BY <1>1, <1>2, <1>3, <1>4

LEMMA LowerBoundSplits ==
    ASSUME NEW rs, Sorted(rs), NEW start \in Nat
    PROVE  /\ LowerBound(rs, start) \in 1 .. Len(rs) + 1
           /\ \A k \in 1 .. Len(rs) : k < LowerBound(rs, start) <=> rs[k].start < start
<1> DEFINE K == {k \in DOMAIN rs : rs[k].start < start}
           T == {k \in 1 .. Len(rs) + 1 : k \notin K}
<1>1. /\ Len(rs) \in Nat /\ DOMAIN rs = 1 .. Len(rs)
      /\ \A k \in 1 .. Len(rs) : rs[k].start \in Nat
      /\ \A j, k \in 1 .. Len(rs) : j <= k => rs[j].start <= rs[k].start
    BY RangesAreNumbers
<1>2. PICK p \in T : \A m \in T : p <= m
    <2>1. T \in SUBSET Nat /\ Len(rs) + 1 \in T
        BY <1>1
    <2> QED
        BY <2>1, LeastNumber
<1>3. K = 1 .. p - 1
    <2>1. \A k \in 1 .. p - 1 : k \in K
        BY <1>1, <1>2
    <2>2. \A k \in K : k < p
        <3> SUFFICES ASSUME NEW k \in K, p <= k
                     PROVE  FALSE
            BY <1>1, <1>2
        <3>1. p \in 1 .. Len(rs) /\ rs[p].start <= rs[k].start
            BY <1>1, <1>2
        <3> QED
            BY <1>1, <1>2, <3>1
    <2> QED
        BY <1>1, <1>2, <2>1, <2>2
<1>4. Cardinality(K) = p - 1
    <2>1. p \in Nat /\ p >= 1 /\ p - 1 \in Int
        BY <1>1, <1>2
    <2>2. Cardinality(1 .. p - 1) = IF 1 > p - 1 THEN 0 ELSE (p - 1) - 1 + 1
        BY <2>1, FS_Interval
    <2>3. (IF 1 > p - 1 THEN 0 ELSE (p - 1) - 1 + 1) = p - 1
        BY <2>1
    <2> HIDE DEF K
    <2> QED
        BY <1>3, <2>2, <2>3
<1>5. LowerBound(rs, start) = p
    BY <1>1, <1>2, <1>4 DEF LowerBound
<1> QED
    BY <1>1, <1>2, <1>3, <1>5

\* The running maximum of AddRange.
MergedOver(rs, end, first, k) == Max({end} \cup {rs[j].end : j \in first .. k})

\* Over sorted ranges it is the last one's.
LEMMA MergedEnd ==
    ASSUME NEW rs, Sorted(rs), NEW end \in Nat, NEW first \in Nat \ {0}, NEW k \in Nat, k <= Len(rs)
    PROVE  MergedOver(rs, end, first, k) = IF first <= k /\ end < rs[k].end THEN rs[k].end ELSE end
<1> DEFINE S == {end} \cup {rs[j].end : j \in first .. k}
           e == IF first <= k /\ end < rs[k].end THEN rs[k].end ELSE end
<1>1. \A j \in first .. k : j \in 1 .. Len(rs) /\ k \in 1 .. Len(rs) /\ j <= k /\ first <= k
    BY RangesAreNumbers
<1>2. \A j \in first .. k : rs[j].end \in Nat /\ rs[j].end <= rs[k].end /\ rs[k].end \in Nat
    BY <1>1, RangesAreNumbers
<1>3. e \in S /\ e \in Nat
    <2>1. CASE first <= k /\ end < rs[k].end
        <3>1. k \in first .. k
            BY <2>1
        <3> QED
            BY <2>1, <3>1, <1>2
    <2>2. CASE ~(first <= k /\ end < rs[k].end)
        BY <2>2
    <2> QED
        BY <2>1, <2>2
<1>4. \A x \in S : x \in Nat /\ e >= x
    <2>1. \A j \in first .. k : e >= rs[j].end
        BY <1>1, <1>2
    <2> QED
        BY <1>2, <2>1
<1> HIDE DEF S, e
<1>5. \A x \in S : (\A y \in S : x >= y) => x = e
    BY <1>3, <1>4
<1>6. Max(S) \in S /\ \A y \in S : Max(S) >= y
    BY <1>3, <1>4 DEF Max
<1>7. Max(S) = e
    BY <1>5, <1>6
<1> QED
    BY <1>7 DEF S, e, MergedOver

LEMMA PartOfRanges ==
    ASSUME NEW rs \in Seq(LiveRange), NEW m \in Nat \ {0}, NEW n \in Nat, m <= n + 1, n <= Len(rs)
    PROVE  /\ SubSeq(rs, m, n) \in Seq(LiveRange) /\ Len(SubSeq(rs, m, n)) = n - m + 1
           /\ \A k \in 1 .. n - m + 1 : SubSeq(rs, m, n)[k] = rs[m + k - 1]
<1>1. \A k \in m .. n : rs[k] \in LiveRange
    BY LenProperties, ElementOfSeq
<1>2. m \in Int /\ n \in Int /\ (m <= n \/ n - m + 1 = 0)
    OBVIOUS
<1>3. /\ SubSeq(rs, m, n) \in Seq(LiveRange)
      /\ Len(SubSeq(rs, m, n)) = IF m <= n THEN n - m + 1 ELSE 0
      /\ \A k \in 1 .. n - m + 1 : SubSeq(rs, m, n)[k] = rs[m + k - 1]
    BY <1>1, <1>2, SubSeqProperties
<1>4. (IF m <= n THEN n - m + 1 ELSE 0) = n - m + 1
    BY <1>2
<1> QED
    BY <1>3, <1>4

LEMMA AddedRange ==
    ASSUME NEW rs, Sorted(rs), NEW start \in Nat, NEW end \in Nat, start < end
    PROVE  /\ Sorted(AddRange(rs, start, end))
           /\ \A p \in Nat : IsLiveAt(AddRange(rs, start, end), p)
                               <=> IsLiveAt(rs, p) \/ (start <= p /\ p < end)
<1> DEFINE it == LowerBound(rs, start)
           joined == it > 1 /\ Reaches(rs[it - 1].end, start)
           first == IF joined THEN it - 1 ELSE it
           EndOver(k) == Max({end} \cup {rs[j].end : j \in first .. k})
           Stays(k) == k <= Len(rs) => ~Reaches(EndOver(k - 1), rs[k].start)
           Passes(k) == \A j \in it .. (k - 1) : Reaches(EndOver(j - 1), rs[j].start)
           stop == CHOOSE k \in it .. (Len(rs) + 1) : Passes(k) /\ Stays(k)
           merged == [start |-> IF joined THEN rs[first].start ELSE start, end |-> EndOver(stop - 1)]
           out == SubSeq(rs, 1, first - 1) \o <<merged>> \o SubSeq(rs, stop, Len(rs))
<1>1. AddRange(rs, start, end) = out
    <2>1. ~(start >= end)
        OBVIOUS
    <2>2. AddRange(rs, start, end) = IF start >= end THEN rs ELSE out
        BY DEF AddRange
    <2> HIDE DEF out
    <2> QED
        BY <2>1, <2>2
<1>2. /\ Len(rs) \in Nat /\ DOMAIN rs = 1 .. Len(rs)
      /\ \A k \in 1 .. Len(rs) : /\ rs[k] \in LiveRange
                                 /\ rs[k].start \in Nat /\ rs[k].end \in Nat
                                 /\ rs[k].start < rs[k].end
      /\ \A j, k \in 1 .. Len(rs) : j < k => rs[j].end < rs[k].start
      /\ \A j, k \in 1 .. Len(rs) : j <= k => rs[j].start <= rs[k].start /\ rs[j].end <= rs[k].end
    BY RangesAreNumbers
<1>3. /\ it \in 1 .. Len(rs) + 1
      /\ \A k \in 1 .. Len(rs) : k < it <=> rs[k].start < start
    BY LowerBoundSplits
<1> HIDE DEF it
<1>4. /\ first \in 1 .. it /\ first \in Nat \ {0}
      /\ first < it => first = it - 1 /\ first \in 1 .. Len(rs) /\ rs[first].start < start /\ start <= rs[first].end
      /\ first = it /\ it > 1 => it - 1 \in 1 .. Len(rs) /\ rs[it - 1].end < start
    <2>1. it > 1 => it - 1 \in 1 .. Len(rs) /\ it - 1 < it
        BY <1>2, <1>3
    <2>2. CASE joined
        BY <1>2, <1>3, <2>1, <2>2 DEF Reaches
    <2>3. CASE ~joined
        <3>1. first = it
            BY <2>3
        <3>2. it > 1 => rs[it - 1].end < start
            BY <1>2, <2>1, <2>3 DEF Reaches
        <3> QED
            BY <1>3, <2>1, <3>1, <3>2
    <2> QED
        BY <2>2, <2>3
<1>5. joined <=> first < it
    BY <1>3
<1> HIDE DEF first
<1> DEFINE End(k) == IF first <= k /\ end < rs[k].end THEN rs[k].end ELSE end
<1>6. \A k \in Nat : k <= Len(rs) => EndOver(k) = End(k)
    <2> SUFFICES ASSUME NEW k \in Nat, k <= Len(rs)
                 PROVE  EndOver(k) = End(k)
        OBVIOUS
    <2>1. first \in Nat \ {0}
        BY <1>4
    <2>2. MergedOver(rs, end, first, k) = IF first <= k /\ end < rs[k].end THEN rs[k].end ELSE end
        BY <2>1, MergedEnd
    <2> QED
        BY <2>2 DEF MergedOver
<1> DEFINE T == {k \in it .. Len(rs) + 1 : Stays(k)}
<1>7. stop \in it .. Len(rs) + 1 /\ Passes(stop) /\ Stays(stop)
    <2>1. T \in SUBSET Nat /\ Len(rs) + 1 \in T
        BY <1>2, <1>3
    <2>2. PICK k \in T : \A m \in T : k <= m
        BY <2>1, LeastNumber
    <2>3. Passes(k)
        <3> SUFFICES ASSUME NEW j \in it .. (k - 1)
                     PROVE  Reaches(EndOver(j - 1), rs[j].start)
            OBVIOUS
        <3>1. j \in it .. Len(rs) + 1 /\ ~(k <= j)
            BY <1>2, <1>3, <2>2
        <3>2. ~Stays(j)
            BY <2>2, <3>1
        <3> QED
            BY <3>2
    <2> HIDE DEF EndOver
    <2>4. k \in it .. (Len(rs) + 1) /\ Passes(k) /\ Stays(k)
        BY <2>2, <2>3
    <2> QED
        BY <2>4
<1> HIDE DEF stop
<1>8. stop \in Nat /\ stop >= 1 /\ stop <= Len(rs) + 1 /\ stop >= it /\ it \in Nat
    BY <1>2, <1>3, <1>7
<1>9. \A k \in it .. (stop - 1) : k \in 1 .. Len(rs) /\ rs[k].start <= End(k - 1)
    <2> SUFFICES ASSUME NEW k \in it .. (stop - 1)
                 PROVE  k \in 1 .. Len(rs) /\ rs[k].start <= End(k - 1)
        OBVIOUS
    <2>1. k \in 1 .. Len(rs) /\ k - 1 \in Nat /\ k - 1 <= Len(rs)
        BY <1>2, <1>3, <1>8
    <2>2. EndOver(k - 1) = End(k - 1) /\ Reaches(EndOver(k - 1), rs[k].start)
        BY <1>6, <1>7, <2>1
    <2> HIDE DEF EndOver, End
    <2> QED
        BY <2>1, <2>2 DEF Reaches
<1> DEFINE e == End(stop - 1)
<1>10. EndOver(stop - 1) = e /\ e \in Nat /\ e >= end /\ (stop <= Len(rs) => e < rs[stop].start)
    <2>1. stop - 1 \in Nat /\ stop - 1 <= Len(rs)
        BY <1>2, <1>8
    <2>2. EndOver(stop - 1) = e
        BY <1>6, <2>1
    <2>3. e \in Nat /\ e >= end
        <3>1. first <= stop - 1 => stop - 1 \in 1 .. Len(rs)
            BY <1>4, <2>1
        <3> QED
            BY <1>2, <3>1
    <2>4. ASSUME stop <= Len(rs)
          PROVE  e < rs[stop].start
        <3>1. ~Reaches(EndOver(stop - 1), rs[stop].start)
            BY <1>7, <2>4
        <3>2. stop \in 1 .. Len(rs)
            BY <1>2, <1>8, <2>4
        <3> HIDE DEF EndOver, e
        <3> QED
            BY <1>2, <2>2, <2>3, <3>1, <3>2 DEF Reaches
    <2> QED
        BY <2>2, <2>3, <2>4
<1> DEFINE s == IF joined THEN rs[first].start ELSE start
<1>11. /\ s \in Nat /\ s <= start
       /\ \A k \in 1 .. Len(rs) : k < first => rs[k].end < s
       /\ \A k \in 1 .. Len(rs) : first <= k => s <= rs[k].start
       /\ \A p \in Nat : s <= p /\ p < start => first \in 1 .. Len(rs) /\ rs[first].start <= p /\ p < rs[first].end
    <2>1. CASE first < it
        <3>1. s = rs[first].start /\ first \in 1 .. Len(rs) /\ rs[first].start < start /\ start <= rs[first].end
            BY <1>4, <1>5, <2>1
        <3> HIDE DEF s
        <3> QED
            BY <1>2, <3>1
    <2>2. CASE first = it
        <3>1. s = start
            BY <1>3, <1>5, <2>2
        <3>2. \A k \in 1 .. Len(rs) : k < first => it > 1 /\ it - 1 \in 1 .. Len(rs) /\ k <= it - 1
            BY <1>3, <1>4, <2>2
        <3>3. \A k \in 1 .. Len(rs) : k < first => rs[k].end <= rs[it - 1].end /\ rs[it - 1].end < start
            BY <1>2, <1>4, <2>2, <3>2
        <3>4. \A k \in 1 .. Len(rs) : first <= k => start <= rs[k].start
            BY <1>2, <1>3, <2>2
        <3>5. \A k \in 1 .. Len(rs) : k < first => rs[k].end < start
            BY <1>2, <3>2, <3>3
        <3> HIDE DEF s
        <3> QED
            BY <3>1, <3>4, <3>5
    <2> QED
        BY <1>3, <1>4, <2>1, <2>2
<1>12. merged = [start |-> s, end |-> e] /\ merged \in LiveRange
    BY <1>10, <1>11 DEF LiveRange
<1> HIDE DEF EndOver, merged, s, e
\* The three parts of the result.
<1>13. /\ out \in Seq(LiveRange)
       /\ Len(out) = first + Len(rs) - stop + 1
       /\ \A k \in 1 .. Len(out) : out[k] = IF k < first THEN rs[k]
                                            ELSE IF k = first THEN merged ELSE rs[k - first + stop - 1]
    <2> DEFINE head == SubSeq(rs, 1, first - 1)
               tail == SubSeq(rs, stop, Len(rs))
    <2>1. /\ head \in Seq(LiveRange) /\ Len(head) = first - 1
          /\ \A k \in 1 .. first - 1 : head[k] = rs[k]
        <3>1. /\ 1 \in Nat \ {0} /\ first - 1 \in Nat /\ 1 <= first - 1 + 1 /\ first - 1 <= Len(rs)
              /\ first - 1 - 1 + 1 = first - 1
            BY <1>2, <1>3, <1>4
        <3>2. \A k \in 1 .. first - 1 : 1 + k - 1 = k
            OBVIOUS
        <3> HIDE DEF stop, EndOver, End
        <3>3. /\ head \in Seq(LiveRange) /\ Len(head) = first - 1 - 1 + 1
              /\ \A k \in 1 .. first - 1 - 1 + 1 : head[k] = rs[1 + k - 1]
            BY <3>1, PartOfRanges DEF Sorted
        <3> HIDE DEF head
        <3> QED
            BY <3>1, <3>2, <3>3
    <2>2. /\ tail \in Seq(LiveRange) /\ Len(tail) = Len(rs) - stop + 1
          /\ \A k \in 1 .. Len(rs) - stop + 1 : tail[k] = rs[stop + k - 1]
        <3>1. stop \in Nat \ {0} /\ Len(rs) \in Nat /\ stop <= Len(rs) + 1 /\ Len(rs) <= Len(rs)
            BY <1>2, <1>8
        <3> HIDE DEF stop, EndOver, End
        <3> QED
            BY <3>1, PartOfRanges DEF Sorted
    <2>3. <<merged>> \in Seq(LiveRange) /\ Len(<<merged>>) = 1 /\ <<merged>>[1] = merged
        BY <1>12
    <2> DEFINE front == head \o <<merged>>
    <2> HIDE DEF head, tail
    <2>4. /\ front \in Seq(LiveRange) /\ Len(front) = first
          /\ \A k \in 1 .. first : front[k] = IF k < first THEN rs[k] ELSE merged
        <3>1. /\ front \in Seq(LiveRange) /\ Len(front) = Len(head) + Len(<<merged>>)
              /\ \A k \in 1 .. Len(head) + Len(<<merged>>) :
                    front[k] = IF k <= Len(head) THEN head[k] ELSE <<merged>>[k - Len(head)]
            BY <2>1, <2>3, ConcatProperties
        <3> HIDE DEF front
        <3>2. Len(front) = first
            BY <1>4, <2>1, <2>3, <3>1
        <3>3. ASSUME NEW k \in 1 .. first
              PROVE  front[k] = IF k < first THEN rs[k] ELSE merged
            <4>1. front[k] = IF k <= first - 1 THEN head[k] ELSE <<merged>>[k - (first - 1)]
                BY <1>4, <2>1, <2>3, <3>1
            <4>2. CASE k < first
                BY <1>4, <2>1, <4>1, <4>2
            <4>3. CASE k = first
                BY <1>4, <2>3, <4>1, <4>3
            <4> QED
                BY <1>4, <4>2, <4>3
        <3> QED
            BY <3>1, <3>2, <3>3
    <2> HIDE DEF front
    <2>5. /\ front \o tail \in Seq(LiveRange) /\ Len(front \o tail) = first + (Len(rs) - stop + 1)
          /\ \A k \in 1 .. first + (Len(rs) - stop + 1) :
                (front \o tail)[k] = IF k <= first THEN front[k] ELSE tail[k - first]
        <3>1. /\ front \o tail \in Seq(LiveRange) /\ Len(front \o tail) = Len(front) + Len(tail)
              /\ \A k \in 1 .. Len(front) + Len(tail) :
                    (front \o tail)[k] = IF k <= Len(front) THEN front[k] ELSE tail[k - Len(front)]
            BY <2>2, <2>4, ConcatProperties
        <3>2. Len(front) = first /\ Len(tail) = Len(rs) - stop + 1
            BY <2>2, <2>4
        <3> QED
            BY <3>1, <3>2
    <2>6. out = front \o tail
        BY DEF front, head, tail
    <2> HIDE DEF out
    <2>7. Len(out) = first + Len(rs) - stop + 1
        BY <1>2, <1>4, <1>8, <2>5, <2>6
    <2>8. ASSUME NEW k \in 1 .. Len(out)
          PROVE  out[k] = IF k < first THEN rs[k]
                          ELSE IF k = first THEN merged ELSE rs[k - first + stop - 1]
        <3>1. k \in 1 .. first + (Len(rs) - stop + 1)
            BY <2>5, <2>6
        <3>2. CASE k <= first
            BY <1>4, <2>4, <2>5, <2>6, <3>1, <3>2
        <3>3. CASE k > first
            <4>1. k - first \in 1 .. Len(rs) - stop + 1 /\ stop + (k - first) - 1 = k - first + stop - 1
                BY <1>2, <1>4, <1>8, <3>1, <3>3
            <4>2. out[k] = tail[k - first]
                BY <1>4, <2>5, <2>6, <3>1, <3>3
            <4>3. tail[k - first] = rs[stop + (k - first) - 1]
                BY <2>2, <4>1
            <4> QED
                BY <1>4, <3>3, <4>1, <4>2, <4>3
        <3> QED
            BY <1>4, <3>2, <3>3
    <2> QED
        BY <2>5, <2>6, <2>7, <2>8
<1> HIDE DEF out
<1>14. /\ DOMAIN out = 1 .. Len(out) /\ Len(out) \in Nat
       /\ \A k \in 1 .. Len(out) : k < first => k \in 1 .. Len(rs) /\ out[k] = rs[k]
       /\ first \in 1 .. Len(out) /\ out[first].start = s /\ out[first].end = e
       /\ \A k \in 1 .. Len(out) : first < k =>
             /\ k - first + stop - 1 \in stop .. Len(rs) /\ k - first + stop - 1 \in 1 .. Len(rs)
             /\ out[k] = rs[k - first + stop - 1]
    <2>1. DOMAIN out = 1 .. Len(out) /\ Len(out) \in Nat
        BY <1>13, LenProperties
    <2>2. first \in 1 .. Len(out) /\ out[first] = merged
        BY <1>2, <1>4, <1>8, <1>13
    <2>3. out[first].start = s /\ out[first].end = e
        BY <1>12, <2>2
    <2>4. ASSUME NEW k \in 1 .. Len(out), first < k
          PROVE  /\ k - first + stop - 1 \in stop .. Len(rs) /\ k - first + stop - 1 \in 1 .. Len(rs)
                 /\ out[k] = rs[k - first + stop - 1]
        <3>1. k \in Nat /\ k <= first + Len(rs) - stop + 1 /\ first \in Nat
            BY <1>4, <1>13, <2>1
        <3>2. k - first + stop - 1 \in stop .. Len(rs) /\ k - first + stop - 1 \in 1 .. Len(rs)
            BY <1>2, <1>8, <2>4, <3>1
        <3>3. ~(k < first) /\ k # first
            BY <2>4, <3>1
        <3> QED
            BY <1>13, <3>2, <3>3
    <2>5. \A k \in 1 .. Len(out) : k < first => k \in 1 .. Len(rs) /\ out[k] = rs[k]
        BY <1>2, <1>3, <1>4, <1>13
    <2> QED
        BY <2>1, <2>2, <2>3, <2>4, <2>5
<1>15. s < e /\ s <= start /\ start < end /\ end <= e
    BY <1>10, <1>11
<1>16. \A k \in 1 .. Len(rs) : stop <= k => e < rs[k].start
    <2> SUFFICES ASSUME NEW k \in 1 .. Len(rs), stop <= k
                 PROVE  e < rs[k].start
        OBVIOUS
    <2>1. stop \in 1 .. Len(rs)
        BY <1>2, <1>8
    <2> QED
        BY <1>2, <1>10, <2>1
<1>17. Apart(out)
    <2>1. ASSUME NEW k \in 1 .. Len(out)
          PROVE  out[k].start < out[k].end
        <3>1. CASE k < first
            BY <1>2, <1>14, <3>1
        <3>2. CASE k = first
            BY <1>14, <1>15, <3>2
        <3>3. CASE first < k
            BY <1>2, <1>14, <3>3
        <3> QED
            BY <1>4, <3>1, <3>2, <3>3
    <2>2. ASSUME NEW k \in 1 .. Len(out), NEW j \in 1 .. (k - 1)
          PROVE  out[j].end < out[k].start
        <3>1. j \in 1 .. Len(out) /\ j < k
            BY <1>14
        <3>2. CASE k < first
            <4>1. j < first
                BY <1>4, <3>1, <3>2
            <4> QED
                BY <1>2, <1>14, <3>1, <3>2, <4>1
        <3>3. CASE k = first
            <4>1. j < first
                BY <1>4, <3>1, <3>3
            <4> QED
                BY <1>11, <1>14, <3>1, <3>3, <4>1
        <3>4. CASE first < k
            <4> DEFINE m == k - first + stop - 1
            <4>1. m \in 1 .. Len(rs) /\ stop <= m /\ out[k] = rs[m]
                BY <1>8, <1>14, <3>4
            <4> HIDE DEF m
            <4>2. e < rs[m].start
                BY <1>16, <4>1
            <4>3. CASE j < first
                <5>1. j \in 1 .. Len(rs) /\ out[j] = rs[j] /\ rs[j].end < s
                    BY <1>11, <1>14, <3>1, <4>3
                <5> QED
                    BY <1>2, <1>10, <1>11, <1>15, <4>1, <4>2, <5>1
            <4>4. CASE j = first
                BY <1>14, <4>1, <4>2, <4>4
            <4>5. CASE first < j
                <5>1. j - first + stop - 1 \in 1 .. Len(rs) /\ out[j] = rs[j - first + stop - 1]
                    BY <1>14, <3>1, <4>5
                <5>2. j - first + stop - 1 < m
                    BY <1>4, <1>8, <3>1 DEF m
                <5> QED
                    BY <1>2, <4>1, <5>1, <5>2
            <4> QED
                BY <1>4, <4>3, <4>4, <4>5
        <3> QED
            BY <1>4, <3>2, <3>3, <3>4
    <2> QED
        BY <1>14, <2>1, <2>2 DEF Apart
<1>18. Sorted(out)
    BY <1>13, <1>17 DEF Sorted
\* What the merged range holds.
<1>19. \A k \in 1 .. Len(rs) : first <= k /\ k < stop => s <= rs[k].start /\ rs[k].end <= e
    <2> SUFFICES ASSUME NEW k \in 1 .. Len(rs), first <= k, k < stop
                 PROVE  s <= rs[k].start /\ rs[k].end <= e
        OBVIOUS
    <2>1. stop - 1 \in 1 .. Len(rs) /\ k <= stop - 1 /\ first <= stop - 1
        BY <1>2, <1>4, <1>8
    <2>2. rs[k].end <= rs[stop - 1].end /\ rs[stop - 1].end \in Nat /\ rs[k].end \in Nat
        BY <1>2, <2>1
    <2>3. rs[k].end <= e
        BY <2>1, <2>2 DEF e
    <2> QED
        BY <1>11, <2>3
<1>20. ASSUME NEW p \in Nat, s <= p, p < e
       PROVE  (start <= p /\ p < end) \/ \E k \in 1 .. Len(rs) : rs[k].start <= p /\ p < rs[k].end
    <2>1. CASE p < start
        BY <1>11, <1>20, <2>1
    <2>2. CASE p >= end
        <3> DEFINE U == {k \in first .. (stop - 1) : p < rs[k].end}
        <3>1. first <= stop - 1 /\ p < rs[stop - 1].end
            BY <1>20, <2>2 DEF e
        <3>2. U \in SUBSET Nat /\ stop - 1 \in U
            BY <1>4, <1>8, <3>1
        <3>3. PICK k \in U : \A m \in U : k <= m
            BY <3>2, LeastNumber
        <3>4. k \in 1 .. Len(rs) /\ first <= k /\ k < stop /\ p < rs[k].end
            BY <1>2, <1>4, <1>8, <3>3
        <3>5. CASE k < it
            <4>1. rs[k].start < start
                BY <1>3, <3>4, <3>5
            <4> QED
                BY <1>2, <2>2, <3>4, <4>1
        <3>6. CASE it <= k
            <4>1. k \in it .. (stop - 1) /\ rs[k].start <= End(k - 1)
                BY <1>8, <1>9, <3>4, <3>6
            <4>2. End(k - 1) <= p
                <5>1. CASE first <= k - 1
                    <6>1. k - 1 \in first .. (stop - 1) /\ ~(k <= k - 1) /\ k - 1 \in 1 .. Len(rs)
                        BY <1>4, <1>8, <3>4, <5>1
                    <6>2. ~(p < rs[k - 1].end)
                        BY <3>3, <6>1
                    <6> QED
                        BY <1>2, <2>2, <6>1, <6>2
                <5>2. CASE ~(first <= k - 1)
                    BY <2>2, <5>2
                <5> QED
                    BY <5>1, <5>2
            <4>3. End(k - 1) \in Nat
                <5>1. first <= k - 1 => k - 1 \in 1 .. Len(rs)
                    BY <1>4, <3>4
                <5> QED
                    BY <1>2, <5>1
            <4> HIDE DEF End
            <4>4. rs[k].start <= p
                BY <1>2, <3>4, <4>1, <4>2, <4>3
            <4> QED
                BY <3>4, <4>4
        <3> QED
            BY <1>8, <3>4, <3>5, <3>6
    <2> QED
        BY <2>1, <2>2
<1>21. ASSUME NEW p \in Nat
       PROVE  IsLiveAt(out, p) <=> IsLiveAt(rs, p) \/ (start <= p /\ p < end)
    <2>1. ASSUME NEW k \in 1 .. Len(out), out[k].start <= p, p < out[k].end
          PROVE  (\E j \in 1 .. Len(rs) : rs[j].start <= p /\ p < rs[j].end) \/ (start <= p /\ p < end)
        <3>1. CASE k < first
            BY <1>14, <2>1, <3>1
        <3>2. CASE k = first
            BY <1>14, <1>20, <2>1, <3>2
        <3>3. CASE first < k
            BY <1>14, <2>1, <3>3
        <3> QED
            BY <1>4, <3>1, <3>2, <3>3
    <2>2. ASSUME start <= p, p < end
          PROVE  out[first].start <= p /\ p < out[first].end
        BY <1>10, <1>11, <1>14, <1>15, <2>2
    <2>3. ASSUME NEW j \in 1 .. Len(rs), rs[j].start <= p, p < rs[j].end
          PROVE  \E k \in 1 .. Len(out) : out[k].start <= p /\ p < out[k].end
        <3>1. CASE j < first
            <4>1. j \in 1 .. Len(out) /\ out[j] = rs[j]
                BY <1>4, <1>14, <3>1
            <4> QED
                BY <2>3, <4>1
        <3>2. CASE first <= j /\ j < stop
            <4>1. s <= rs[j].start /\ rs[j].end <= e
                BY <1>19, <3>2
            <4> QED
                BY <1>2, <1>10, <1>11, <1>14, <2>3, <4>1
        <3>3. CASE stop <= j
            <4> DEFINE k == j - stop + 1 + first
            <4>1. k \in 1 .. Len(out) /\ first < k /\ k - first + stop - 1 = j
                <5>1. j \in Nat /\ j <= Len(rs) /\ stop \in Nat /\ first \in Nat /\ first >= 1 /\ Len(rs) \in Nat
                    BY <1>2, <1>4, <1>8
                <5>2. Len(out) = first + Len(rs) - stop + 1
                    BY <1>13
                <5> QED
                    BY <3>3, <5>1, <5>2
            <4> HIDE DEF k
            <4>2. out[k] = rs[j]
                BY <1>14, <4>1
            <4> QED
                BY <2>3, <4>1, <4>2
        <3> QED
            BY <1>4, <1>8, <3>1, <3>2, <3>3
    <2> QED
        BY <1>2, <1>14, <2>1, <2>2, <2>3 DEF IsLiveAt
<1> QED
    BY <1>1, <1>18, <1>21

\* A definition at pos, from which on the value is live, cuts off what lies before it.
LEMMA StartedInterval ==
    ASSUME NEW rs, Sorted(rs), NEW from \in Nat, NEW pos \in Nat, from <= pos,
           \A p \in Nat : IsLiveAt(rs, p) => from <= p,
           rs # <<>> => \A p \in from .. pos : IsLiveAt(rs, p)
    PROVE  /\ Sorted(SetStart(rs, pos))
           /\ \A p \in Nat : IsLiveAt(SetStart(rs, pos), p) <=> p = pos \/ (IsLiveAt(rs, p) /\ pos <= p)
<1>1. CASE rs = <<>>
    <2> DEFINE one == [start |-> pos, end |-> pos + 1]
    <2>1. one \in LiveRange /\ one.start = pos /\ one.end = pos + 1
        BY DEF LiveRange
    <2> HIDE DEF one
    <2>2. SetStart(rs, pos) = <<one>>
        BY <1>1 DEF SetStart, one
    <2>3. <<one>> \in Seq(LiveRange) /\ DOMAIN <<one>> = {1} /\ <<one>>[1] = one
        BY <2>1
    <2>4. Apart(<<one>>)
        BY <2>1, <2>3 DEF Apart
    <2>5. \A p \in Nat : IsLiveAt(<<one>>, p) <=> p = pos
        BY <2>1, <2>3 DEF IsLiveAt
    <2>6. DOMAIN rs = {}
        BY <1>1
    <2>7. \A p \in Nat : ~IsLiveAt(rs, p)
        BY <2>6 DEF IsLiveAt
    <2> QED
        BY <2>2, <2>3, <2>4, <2>5, <2>7 DEF Sorted
<1>2. CASE rs # <<>>
    <2>1. /\ Len(rs) \in Nat /\ DOMAIN rs = 1 .. Len(rs) /\ rs \in Seq(LiveRange)
          /\ \A k \in 1 .. Len(rs) : /\ rs[k] \in LiveRange
                                     /\ rs[k].start \in Nat /\ rs[k].end \in Nat
                                     /\ rs[k].start < rs[k].end
          /\ \A j, k \in 1 .. Len(rs) : j < k => rs[j].end < rs[k].start
          /\ \A j, k \in 1 .. Len(rs) : j <= k => rs[j].start <= rs[k].start /\ rs[j].end <= rs[k].end
        BY RangesAreNumbers DEF Sorted
    <2>2. 1 \in 1 .. Len(rs)
        BY <1>2, <2>1, EmptySeq
    <2>3. from <= rs[1].start
        <3>1. IsLiveAt(rs, rs[1].start)
            BY <2>1, <2>2 DEF IsLiveAt
        <3> QED
            BY <2>1, <2>2, <3>1
    <2>4. pos < rs[1].end
        <3> SUFFICES ASSUME rs[1].end <= pos
                     PROVE  FALSE
            BY <2>1, <2>2
        <3>1. rs[1].end \in from .. pos
            BY <2>1, <2>2, <2>3
        <3>2. PICK k \in 1 .. Len(rs) : rs[k].start <= rs[1].end /\ rs[1].end < rs[k].end
            BY <1>2, <2>1, <3>1 DEF IsLiveAt
        <3>3. k # 1
            BY <2>1, <2>2, <3>2
        <3>4. rs[1].end < rs[k].start
            BY <2>1, <2>2, <3>2, <3>3
        <3> QED
            BY <2>1, <2>2, <3>2, <3>4
    <2>5. rs[1].start <= pos
        <3>1. IsLiveAt(rs, pos)
            BY <1>2
        <3>2. PICK k \in 1 .. Len(rs) : rs[k].start <= pos
            BY <2>1, <3>1 DEF IsLiveAt
        <3>3. rs[1].start <= rs[k].start
            BY <2>1, <2>2, <3>2
        <3> QED
            BY <2>1, <2>2, <3>2, <3>3
    <2> DEFINE first == [rs[1] EXCEPT !.start = pos]
               out == SetStart(rs, pos)
    <2>6. out = [rs EXCEPT ![1] = first]
        <3>1. (IF pos > rs[1].start THEN pos ELSE rs[1].start) = pos
            BY <2>1, <2>2, <2>5
        <3>2. out = [rs EXCEPT ![1] = [rs[1] EXCEPT !.start = IF pos > rs[1].start THEN pos ELSE rs[1].start]]
            BY <1>2, <2>1, <2>2 DEF SetStart
        <3> QED
            BY <3>1, <3>2
    <2>7. first \in LiveRange /\ first.start = pos /\ first.end = rs[1].end
        BY <2>1, <2>2 DEF LiveRange
    <2> HIDE DEF first, out
    <2>8. /\ out \in Seq(LiveRange) /\ Len(out) = Len(rs)
          /\ \A k \in 1 .. Len(rs) : out[k] = IF k = 1 THEN first ELSE rs[k]
        BY <2>1, <2>2, <2>6, <2>7, ExceptSeq
    <2>9. DOMAIN out = 1 .. Len(rs)
        BY <2>8, LenProperties
    <2>10. Apart(out)
        <3>1. \A k \in 1 .. Len(rs) : out[k].start < out[k].end
            BY <2>1, <2>4, <2>7, <2>8
        <3>2. ASSUME NEW k \in 1 .. Len(rs), NEW j \in 1 .. (k - 1)
              PROVE  out[j].end < out[k].start
            <4>1. j \in 1 .. Len(rs) /\ j < k /\ k # 1
                BY <2>1
            <4>2. rs[j].end < rs[k].start
                BY <2>1, <4>1
            <4> QED
                BY <2>7, <2>8, <4>1, <4>2
        <3> QED
            BY <2>9, <3>1, <3>2 DEF Apart
    <2>11. ASSUME NEW p \in Nat
           PROVE  IsLiveAt(out, p) <=> p = pos \/ (IsLiveAt(rs, p) /\ pos <= p)
        <3>1. ASSUME NEW k \in 1 .. Len(rs), out[k].start <= p, p < out[k].end
              PROVE  pos <= p /\ \E j \in 1 .. Len(rs) : rs[j].start <= p /\ p < rs[j].end
            <4>1. CASE k = 1
                BY <2>1, <2>2, <2>5, <2>7, <2>8, <3>1, <4>1
            <4>2. CASE k # 1
                <5>1. out[k] = rs[k] /\ rs[1].end < rs[k].start
                    BY <2>1, <2>2, <2>8, <4>2
                <5> QED
                    BY <2>1, <2>2, <2>4, <3>1, <5>1
            <4> QED
                BY <4>1, <4>2
        <3>2. out[1].start <= pos /\ pos < out[1].end
            BY <2>2, <2>4, <2>7, <2>8
        <3>3. ASSUME NEW k \in 1 .. Len(rs), rs[k].start <= p, p < rs[k].end, pos <= p
              PROVE  out[k].start <= p /\ p < out[k].end
            BY <2>7, <2>8, <3>3
        <3> QED
            BY <2>1, <2>2, <2>9, <3>1, <3>2, <3>3 DEF IsLiveAt
    <2> QED
        BY <2>8, <2>10, <2>11 DEF Sorted, out
<1> QED
    BY <1>1, <1>2

LEMMA NoRanges == Sorted(<<>>) /\ \A p \in Nat : ~IsLiveAt(<<>>, p)
<1>1. DOMAIN <<>> = {} /\ <<>> \in Seq(LiveRange)
    OBVIOUS
<1> QED
    BY <1>1 DEF Sorted, Apart, IsLiveAt

\* An interval that is live nowhere has no ranges, and one that has some starts with the first.
LEMMA FirstRange ==
    ASSUME NEW rs, Sorted(rs)
    PROVE  rs # <<>> => /\ rs[1].start \in Nat /\ IsLiveAt(rs, rs[1].start)
                        /\ \A p \in Nat : IsLiveAt(rs, p) => rs[1].start <= p
<1> SUFFICES ASSUME rs # <<>>
             PROVE  /\ rs[1].start \in Nat /\ IsLiveAt(rs, rs[1].start)
                    /\ \A p \in Nat : IsLiveAt(rs, p) => rs[1].start <= p
    OBVIOUS
<1>1. /\ Len(rs) \in Nat /\ DOMAIN rs = 1 .. Len(rs) /\ rs \in Seq(LiveRange)
      /\ \A k \in 1 .. Len(rs) : /\ rs[k].start \in Nat /\ rs[k].end \in Nat
                                 /\ rs[k].start < rs[k].end
      /\ \A j, k \in 1 .. Len(rs) : j <= k => rs[j].start <= rs[k].start
    BY RangesAreNumbers DEF Sorted
<1>2. 1 \in 1 .. Len(rs)
    BY <1>1, EmptySeq
<1>3. IsLiveAt(rs, rs[1].start)
    BY <1>1, <1>2 DEF IsLiveAt
<1>4. ASSUME NEW p \in Nat, IsLiveAt(rs, p)
      PROVE  rs[1].start <= p
    <2>1. PICK k \in 1 .. Len(rs) : rs[k].start <= p
        BY <1>1, <1>4 DEF IsLiveAt
    <2>2. rs[1].start <= rs[k].start
        BY <1>1, <1>2, <2>1
    <2> QED
        BY <1>1, <1>2, <2>1, <2>2
<1> QED
    BY <1>1, <1>2, <1>3, <1>4

-----------------------------------------------------------------------------
(* The program. *)

GraphOK == succs \in [Blocks -> SUBSET Blocks] /\ LinearOrder

ProgramOK ==
    /\ GraphOK
    /\ def \in Slots
    /\ uses \in SUBSET Slots
    /\ phiUses \in SUBSET (Blocks \X Blocks)
    /\ StrictSSA

LEMMA Sizes ==
    /\ NumBlocks \in Nat /\ NumBlocks >= 1 /\ Blocks = 1 .. NumBlocks
    /\ \A x \in Blocks : /\ Phis(x) \in {0, 1} /\ Size(x) \in Nat /\ Phis(x) < Size(x)
                         /\ x \in Nat /\ x >= 1
BY LivenessAssumption DEF Blocks, Phis, Size

LEMMA SlotsOfBlocks ==
    ASSUME NEW i
    PROVE  i \in Slots => /\ i = <<i[1], i[2]>> /\ i[1] \in Blocks
                          /\ i[2] \in 1 .. Size(i[1]) /\ i[2] \in Nat
BY Sizes DEF Slots

LEMMA BlocksHaveSlots ==
    ASSUME NEW x \in Blocks, NEW k \in 1 .. Size(x)
    PROVE  <<x, k>> \in Slots
BY DEF Slots

-----------------------------------------------------------------------------
(* NumberInstructions. *)

IsNumbering(f, n) == f = [y \in 1 .. n |-> IF y = 1 THEN 0 ELSE f[y - 1] + 2 * Size(y - 1)]

LEMMA NumberingExists == \E f : IsNumbering(f, NumBlocks)
<1> DEFINE T == {n \in Blocks : \A f : ~IsNumbering(f, n)}
<1>1. SUFFICES ASSUME T # {}
               PROVE  FALSE
    <2>1. NumBlocks \in Blocks
        BY Sizes
    <2> QED
        BY <2>1
<1>2. PICK n \in T : \A m \in T : n <= m
    <2>1. T \in SUBSET Nat
        BY Sizes
    <2> QED
        BY <1>1, <2>1, LeastNumber
<1>3. n \in Nat /\ n >= 1 /\ n \in Blocks
    BY <1>2, Sizes
<1>4. CASE n = 1
    <2> DEFINE g == [y \in 1 .. 1 |-> 0]
    <2>1. \A y \in 1 .. 1 : y = 1
        OBVIOUS
    <2>2. g = [y \in 1 .. 1 |-> IF y = 1 THEN 0 ELSE g[y - 1] + 2 * Size(y - 1)]
        BY <2>1
    <2>3. IsNumbering(g, n)
        BY <1>4, <2>2 DEF IsNumbering
    <2> QED
        BY <1>2, <2>3
<1>5. CASE n # 1
    <2>1. n > 1 /\ n - 1 \in Blocks /\ n - 1 < n
        BY <1>3, <1>5, Sizes
    <2>2. PICK f : IsNumbering(f, n - 1)
        BY <1>2, <1>3, <2>1
    <2>3. \A y \in 1 .. n - 1 : f[y] = IF y = 1 THEN 0 ELSE f[y - 1] + 2 * Size(y - 1)
        BY <2>2 DEF IsNumbering
    <2> DEFINE g == [y \in 1 .. n |-> IF y = n THEN f[n - 1] + 2 * Size(n - 1) ELSE f[y]]
    <2>4. \A y \in 1 .. n : /\ y = n \/ y \in 1 .. n - 1
                            /\ y # 1 => y - 1 \in 1 .. n - 1 /\ y - 1 \in 1 .. n /\ y - 1 # n
        BY <1>3, <2>1
    <2>5. ASSUME NEW y \in 1 .. n
          PROVE  g[y] = IF y = 1 THEN 0 ELSE g[y - 1] + 2 * Size(y - 1)
        <3>1. y # 1 => g[y - 1] = f[y - 1]
            BY <2>4
        <3>2. CASE y = n
            BY <1>5, <3>1, <3>2
        <3>3. CASE y # n
            BY <2>3, <2>4, <3>1, <3>3
        <3> QED
            BY <3>2, <3>3
    <2>6. g = [y \in 1 .. n |-> g[y]]
        OBVIOUS
    <2> HIDE DEF g
    <2>7. IsNumbering(g, n)
        BY <2>5, <2>6 DEF IsNumbering
    <2> QED
        BY <1>2, <2>7
<1> QED
    BY <1>4, <1>5

LEMMA BlocksFollowEachOther ==
    /\ BlockStart(1) = 0
    /\ \A x \in Blocks \ {1} : BlockStart(x) = BlockStart(x - 1) + 2 * Size(x - 1)
<1> DEFINE f == CHOOSE g : g = [y \in Blocks |-> IF y = 1 THEN 0 ELSE g[y - 1] + 2 * Size(y - 1)]
<1>1. f = [y \in Blocks |-> IF y = 1 THEN 0 ELSE f[y - 1] + 2 * Size(y - 1)]
    BY NumberingExists, Sizes DEF IsNumbering
<1>2. \A x : BlockStart(x) = f[x]
    BY DEF BlockStart
<1> HIDE DEF f
<1>3. 1 \in Blocks /\ \A x \in Blocks \ {1} : x - 1 \in Blocks
    BY Sizes
<1> QED
    BY <1>1, <1>2, <1>3

LEMMA StartsAreNumbers == \A x \in Blocks : BlockStart(x) \in Nat
<1> DEFINE T == {x \in Blocks : BlockStart(x) \notin Nat}
<1> SUFFICES ASSUME T # {}
             PROVE  FALSE
    OBVIOUS
<1>1. PICK x \in T : \A y \in T : x <= y
    <2>1. T \in SUBSET Nat
        BY Sizes
    <2> QED
        BY <2>1, LeastNumber
<1>2. x # 1
    BY <1>1, BlocksFollowEachOther
<1>3. x - 1 \in Blocks /\ ~(x <= x - 1)
    BY <1>1, <1>2, Sizes
<1>4. BlockStart(x - 1) \in Nat /\ Size(x - 1) \in Nat
    BY <1>1, <1>3, Sizes
<1>5. BlockStart(x) = BlockStart(x - 1) + 2 * Size(x - 1)
    BY <1>1, <1>2, BlocksFollowEachOther
<1>6. BlockStart(x) \in Nat
    BY <1>4, <1>5
<1> QED
    BY <1>1, <1>6

LEMMA Numbers ==
    /\ BlockStart(1) = 0
    /\ \A x \in Blocks : /\ BlockStart(x) \in Nat /\ BlockEnd(x) \in Nat
                         /\ BlockEnd(x) = BlockStart(x) + 2 * Size(x) /\ BlockStart(x) < BlockEnd(x)
    /\ \A x, y \in Blocks : x < y => BlockEnd(x) <= BlockStart(y)
<1>1. \A x \in Blocks : /\ BlockStart(x) \in Nat /\ BlockEnd(x) \in Nat
                        /\ BlockEnd(x) = BlockStart(x) + 2 * Size(x) /\ BlockStart(x) < BlockEnd(x)
    <2> SUFFICES ASSUME NEW x \in Blocks
                 PROVE  /\ BlockStart(x) \in Nat /\ BlockEnd(x) \in Nat
                        /\ BlockEnd(x) = BlockStart(x) + 2 * Size(x) /\ BlockStart(x) < BlockEnd(x)
        OBVIOUS
    <2>1. BlockStart(x) \in Nat /\ Size(x) \in Nat /\ Size(x) > 0
        BY StartsAreNumbers, Sizes
    <2>2. BlockEnd(x) = BlockStart(x) + 2 * Size(x)
        BY DEF BlockEnd
    <2> QED
        BY <2>1, <2>2
<1>2. ASSUME NEW x \in Blocks
      PROVE  \A y \in Blocks : x < y => BlockEnd(x) <= BlockStart(y)
    <2> DEFINE T == {y \in Blocks : x < y /\ ~(BlockEnd(x) <= BlockStart(y))}
    <2> SUFFICES ASSUME T # {}
                 PROVE  FALSE
        OBVIOUS
    <2>1. PICK y \in T : \A z \in T : y <= z
        <3>1. T \in SUBSET Nat
            BY Sizes
        <3> QED
            BY <3>1, LeastNumber
    <2>2. y # 1 /\ y - 1 \in Blocks /\ ~(y <= y - 1) /\ (x = y - 1 \/ x < y - 1)
        BY <2>1, Sizes
    <2>3. BlockStart(y) = BlockEnd(y - 1)
        BY <2>1, <2>2, BlocksFollowEachOther DEF BlockEnd
    <2>4. CASE x = y - 1
        BY <1>1, <2>1, <2>3, <2>4
    <2>5. CASE x < y - 1
        <3>1. BlockEnd(x) <= BlockStart(y - 1)
            BY <2>1, <2>2, <2>5
        <3> QED
            BY <1>1, <2>1, <2>2, <2>3, <3>1
    <2> QED
        BY <2>2, <2>4, <2>5
<1> QED
    BY <1>1, <1>2, BlocksFollowEachOther

LEMMA StartsInOrder == \A x, y \in Blocks : x <= y => BlockStart(x) <= BlockStart(y) /\ BlockEnd(x) <= BlockEnd(y)
<1> SUFFICES ASSUME NEW x \in Blocks, NEW y \in Blocks, x <= y
             PROVE  BlockStart(x) <= BlockStart(y) /\ BlockEnd(x) <= BlockEnd(y)
    OBVIOUS
<1>1. CASE x = y
    BY <1>1, Numbers
<1>2. CASE x < y
    <2>1. BlockEnd(x) <= BlockStart(y)
        BY <1>2, Numbers
    <2> QED
        BY <2>1, Numbers
<1> QED
    BY <1>1, <1>2, Sizes

\* A point lies in one block only.
LEMMA OneBlock ==
    ASSUME NEW x \in Blocks, NEW y \in Blocks, NEW p \in Nat,
           BlockStart(x) <= p, p < BlockEnd(x), BlockStart(y) <= p, p < BlockEnd(y)
    PROVE  x = y
<1>1. ~(x < y) /\ ~(y < x)
    BY Numbers
<1> QED
    BY <1>1, Sizes

LEMMA Positions ==
    ASSUME NEW i, i \in Slots
    PROVE  /\ Position(i) \in Nat /\ Position(i) = BlockStart(i[1]) + 2 * (i[2] - 1)
           /\ BlockStart(i[1]) <= Position(i) /\ Position(i) + 1 < BlockEnd(i[1])
<1>1. /\ BlockStart(i[1]) \in Nat /\ i[2] \in Nat /\ i[2] >= 1 /\ i[2] <= Size(i[1]) /\ Size(i[1]) \in Nat
      /\ BlockEnd(i[1]) = BlockStart(i[1]) + 2 * Size(i[1])
    BY SlotsOfBlocks, Numbers, Sizes
<1>2. Position(i) = BlockStart(i[1]) + 2 * (i[2] - 1)
    BY DEF Position
<1> QED
    BY <1>1, <1>2

-----------------------------------------------------------------------------
(* The graph. *)

LEMMA ReachFromIsClosed ==
    ASSUME NEW G, NEW S, NEW Within
    PROVE  /\ S \subseteq ReachFrom(G, S, Within)
           /\ ReachFrom(G, S, Within) \subseteq S \cup Within
           /\ \A x \in ReachFrom(G, S, Within) : G[x] \cap Within \subseteq ReachFrom(G, S, Within)
<1>1. \A R \in ClosedSets(G, S, Within) : S \subseteq R /\ \A x \in R : G[x] \cap Within \subseteq R
    BY DEF ClosedSets
<1> QED
    BY <1>1 DEF ReachFrom

LEMMA ReachFromIsLeast ==
    ASSUME NEW G, NEW S, NEW Within, NEW R,
           S \subseteq R, \A x \in R : x \in S \cup Within => G[x] \cap Within \subseteq R
    PROVE  ReachFrom(G, S, Within) \subseteq R
<1> DEFINE T == (R \cap Within) \ S
<1>1. S \cup T = R \cap (S \cup Within)
    OBVIOUS
<1>2. S \cup T \in ClosedSets(G, S, Within)
    BY <1>1 DEF ClosedSets
<1> QED
    BY <1>1, <1>2 DEF ReachFrom

\* d dominates x.
Dom(d, x) == DominatesIn(succs, 1, d, x)

LEMMA Edges ==
    ASSUME GraphOK
    PROVE  /\ DOMAIN succs = Blocks /\ 1 \in Blocks
           /\ \A x \in Blocks : succs[x] \subseteq Blocks
           /\ \A x, p : p \in PredsIn(succs, x) <=> p \in Blocks /\ x \in succs[p]
           /\ \A x \in Blocks \ {1} : \E p \in Blocks : p < x /\ x \in succs[p]
<1>1. DOMAIN succs = Blocks /\ 1 \in Blocks /\ \A x \in Blocks : succs[x] \subseteq Blocks
    BY Sizes DEF GraphOK
<1>2. \A x, p : p \in PredsIn(succs, x) <=> p \in Blocks /\ x \in succs[p]
    BY <1>1 DEF PredsIn
<1>3. ASSUME NEW x \in Blocks \ {1}
      PROVE  \E p \in Blocks : p < x /\ x \in succs[p]
    <2>1. x \in 2 .. NumBlocks
        BY Sizes
    <2>2. PICK p \in 1 .. (x - 1) : x \in succs[p]
        BY <2>1 DEF GraphOK, LinearOrder
    <2> QED
        BY <2>1, <2>2, Sizes
<1> QED
    BY <1>1, <1>2, <1>3

LEMMA DominanceByEdges ==
    ASSUME GraphOK, NEW d \in Blocks
    PROVE  /\ Dom(d, d)
           /\ d # 1 => ~Dom(d, 1)
           /\ \A p, x \in Blocks : x \in succs[p] /\ x # d /\ Dom(d, x) => Dom(d, p)
<1> DEFINE S == {1} \ {d}
           W == Blocks \ {d}
           R == ReachFrom(succs, S, W)
<1>1. \A x : Dom(d, x) <=> x \notin R
    BY Edges DEF Dom, DominatesIn
<1> HIDE DEF S, W
<1>2. /\ S \subseteq R /\ R \subseteq S \cup W
      /\ \A x \in R : succs[x] \cap W \subseteq R
    BY ReachFromIsClosed
<1> HIDE DEF R
<1> USE DEF S, W
<1>3. ~(d \in R) /\ (d # 1 => 1 \in R)
    BY <1>2
<1>4. \A p, x \in Blocks : x \in succs[p] /\ x # d /\ ~(x \in R) => ~(p \in R)
    BY <1>2
<1> QED
    BY <1>1, <1>3, <1>4

\* What dominates a block comes no later in the order.
LEMMA DominatorsComeFirst ==
    ASSUME GraphOK, NEW d \in Blocks, NEW x \in Blocks, Dom(d, x)
    PROVE  d <= x
<1> DEFINE T == {y \in Blocks : Dom(d, y) /\ ~(d <= y)}
<1> SUFFICES ASSUME T # {}
             PROVE  FALSE
    OBVIOUS
<1>1. PICK y \in T : \A z \in T : y <= z
    <2>1. T \in SUBSET Nat
        BY Sizes
    <2> QED
        BY <2>1, LeastNumber
<1>2. y # 1
    BY <1>1, DominanceByEdges, Sizes
<1>3. PICK p \in Blocks : p < y /\ y \in succs[p]
    BY <1>1, <1>2, Edges
<1>4. y # d /\ Dom(d, p)
    <2>1. y # d
        BY <1>1, Sizes
    <2> QED
        BY <1>1, <1>3, <2>1, DominanceByEdges
<1>5. p \in T /\ ~(y <= p)
    BY <1>1, <1>3, <1>4, Sizes
<1> QED
    BY <1>1, <1>5

LEMMA AllReachable ==
    ASSUME GraphOK
    PROVE  ReachableIn(succs, 1) = Blocks
<1> DEFINE R == ReachableIn(succs, 1)
           T == Blocks \ R
<1>1. {1} \subseteq R /\ R \subseteq {1} \cup Blocks /\ \A x \in R : succs[x] \cap Blocks \subseteq R
    BY ReachFromIsClosed, Edges DEF ReachableIn
<1> HIDE DEF R
<1>2. ASSUME T # {}
      PROVE  FALSE
    <2>1. PICK y \in T : \A z \in T : y <= z
        <3>1. T \in SUBSET Nat
            BY Sizes
        <3> QED
            BY <1>2, <3>1, LeastNumber
    <2>2. PICK p \in Blocks : p < y /\ y \in succs[p]
        BY <1>1, <2>1, Edges
    <2>3. p \in R
        BY <2>1, <2>2, Sizes
    <2> QED
        BY <1>1, <2>1, <2>2, <2>3
<1> QED
    BY <1>1, <1>2, Edges DEF R

\* The blocks of the loop of h.
LoopOf(h) == NaturalLoop(succs, 1, h, Latches(h))

LEMMA LoopBlocks ==
    ASSUME GraphOK, NEW h \in Blocks
    PROVE  /\ h \in LoopOf(h) /\ LoopOf(h) \subseteq Blocks
           /\ \A p \in Blocks : h \in succs[p] /\ h <= p => p \in LoopOf(h) /\ IsLoopHeader(h)
           /\ \A p, y \in Blocks : y \in LoopOf(h) /\ y # h /\ y \in succs[p] => p \in LoopOf(h)
           /\ \A y \in LoopOf(h) : h <= y
<1> DEFINE B == [x \in DOMAIN succs |-> IF x = h THEN {} ELSE PredsIn(succs, x)]
           R == ReachFrom(B, Latches(h), Blocks)
<1>1. LoopOf(h) = {h} \cup R
    BY AllReachable DEF LoopOf, NaturalLoop
<1>2. /\ Latches(h) \subseteq R /\ R \subseteq Latches(h) \cup Blocks
      /\ \A x \in R : B[x] \cap Blocks \subseteq R
    BY ReachFromIsClosed
<1>3. Latches(h) \subseteq Blocks
    BY DEF Latches
<1>4. R \subseteq {y \in Blocks : Dom(h, y)}
    <2> DEFINE D == {y \in Blocks : Dom(h, y)}
    <2>1. Latches(h) \subseteq D
        BY <1>3 DEF Latches, NaturalBackEdges, Dom
    <2>2. ASSUME NEW y \in D
          PROVE  B[y] \cap Blocks \subseteq D
        <3>1. CASE y = h
            BY <3>1, Edges
        <3>2. CASE y # h
            <4>1. B[y] = PredsIn(succs, y)
                BY <3>2, Edges
            <4> QED
                BY <3>2, <4>1, Edges, DominanceByEdges
        <3> QED
            BY <3>1, <3>2
    <2> HIDE DEF D, B
    <2> QED
        BY <2>1, <2>2, ReachFromIsLeast DEF D
<1> HIDE DEF R
<1>5. ASSUME NEW p \in Blocks, h \in succs[p], h <= p
      PROVE  p \in LoopOf(h) /\ IsLoopHeader(h)
    <2>1. <<p, h>> \in NaturalBackEdges(succs, 1)
        BY <1>5 DEF GraphOK, LinearOrder
    <2>2. p \in Latches(h)
        BY <2>1 DEF Latches
    <2> QED
        BY <1>1, <1>2, <2>2 DEF IsLoopHeader
<1>6. ASSUME NEW p \in Blocks, NEW y \in Blocks, y \in LoopOf(h), y # h, y \in succs[p]
      PROVE  p \in LoopOf(h)
    <2>1. y \in R /\ p \in B[y]
        BY <1>1, <1>6, Edges
    <2> QED
        BY <1>1, <1>2, <2>1
<1>7. ASSUME NEW y \in LoopOf(h)
      PROVE  h <= y
    <2>1. CASE y = h
        BY <2>1, Sizes
    <2>2. CASE y # h
        BY <1>1, <1>4, <2>2, DominatorsComeFirst
    <2> QED
        BY <2>1, <2>2
<1> QED
    BY <1>1, <1>2, <1>3, <1>5, <1>6, <1>7

LEMMA LoopEnds ==
    ASSUME GraphOK, NEW h \in Blocks
    PROVE  /\ LoopEnd(h) \in Nat
           /\ \A y \in LoopOf(h) : BlockEnd(y) <= LoopEnd(h)
           /\ BlockStart(h) < LoopEnd(h)
<1> DEFINE L == LoopOf(h)
           T == {NumBlocks - y : y \in L}
           E == {BlockEnd(y) : y \in L}
<1>1. h \in L /\ L \subseteq Blocks
    BY LoopBlocks
<1> HIDE DEF L
<1>2. PICK n \in T : \A m \in T : n <= m
    <2>1. T \in SUBSET Nat /\ T # {}
        BY <1>1, Sizes
    <2> QED
        BY <2>1, LeastNumber
<1>3. PICK z \in L : n = NumBlocks - z
    BY <1>2
<1>4. \A y \in L : y <= z
    <2> SUFFICES ASSUME NEW y \in L
                 PROVE  y <= z
        OBVIOUS
    <2>1. NumBlocks - z <= NumBlocks - y
        BY <1>2, <1>3
    <2> QED
        BY <1>1, <2>1, Sizes
<1>5. \A y \in L : BlockEnd(y) <= BlockEnd(z) /\ BlockEnd(y) \in Nat
    BY <1>1, <1>4, StartsInOrder, Numbers
<1>6. BlockEnd(z) \in E /\ \A e \in E : BlockEnd(z) >= e /\ e \in Nat
    BY <1>5
<1> HIDE DEF E
<1>7. Max(E) \in E /\ \A e \in E : Max(E) >= e
    BY <1>6 DEF Max
<1>8. Max(E) \in Nat /\ \A y \in L : BlockEnd(y) <= Max(E)
    BY <1>6, <1>7 DEF E
<1>9. LoopEnd(h) = Max(E)
    BY DEF LoopEnd, E, L, LoopOf
<1> QED
    BY <1>1, <1>8, <1>9, Numbers DEF L

-----------------------------------------------------------------------------
(* The value: what holds of it at every point of the analysis. *)

DefPos == Position(def)

UsedAfter(x, j) == \E u \in uses : u[1] = x /\ u[2] > j

\* The value is needed beyond block x, as far as the blocks behind x in the order tell.
OutAt(x) ==
    \/ \E s \in succs[x] : s > x /\ liveIn[s]
    \/ \E e \in phiUses : e[1] = x

DefinedAfter(x, j) == x = DefBlock /\ def[2] > j

\* Whether it is live, and where, when block x is walked back to behind instruction j.
LiveAt(x, j) == ~DefinedAfter(x, j) /\ (OutAt(x) \/ UsedAfter(x, j))

HeldFrom(x, j, p) ==
    /\ BlockStart(x) <= p
    /\ \/ OutAt(x) /\ p < BlockEnd(x)
       \/ \E u \in uses : u[1] = x /\ u[2] > j /\ p < Position(u)

Part(x, j, p) ==
    IF DefinedAfter(x, j) THEN p = DefPos \/ (HeldFrom(x, j, p) /\ DefPos <= p)
    ELSE HeldFrom(x, j, p)

\* The points the loop of h adds.
HeldThrough(h, p) ==
    /\ IsLoopHeader(h) /\ (liveIn[h] \/ DefinedByPhi(h))
    /\ BlockStart(h) <= p /\ p < LoopEnd(h)

LiveInKnown == \A x \in Blocks : liveIn[x] <=> x > next /\ LiveAt(x, 0)

LiveBelowDefinition == \A x \in Blocks : liveIn[x] => x # DefBlock /\ Dom(DefBlock, x)

PointsKnown == \A p \in Nat :
    IsLiveAt(ranges, p) <=> \E x \in Blocks : x > next /\ (Part(x, 0, p) \/ HeldThrough(x, p))

IInv ==
    /\ ProgramOK
    /\ next \in 0 .. NumBlocks
    /\ liveIn \in [Blocks -> BOOLEAN]
    /\ LiveInKnown /\ LiveBelowDefinition
    /\ Sorted(ranges) /\ PointsKnown

-----------------------------------------------------------------------------

LEMMA Definition ==
    ASSUME ProgramOK
    PROVE  /\ def \in Slots /\ def = <<DefBlock, def[2]>> /\ DefBlock \in Blocks /\ def[2] \in Nat /\ def[2] >= 1
           /\ DefPos \in Nat /\ BlockStart(DefBlock) <= DefPos /\ DefPos + 1 < BlockEnd(DefBlock)
           /\ DefPos = BlockStart(DefBlock) + 2 * (def[2] - 1)
           /\ \A x \in Blocks : DefinedAfter(x, 0) <=> x = DefBlock
           /\ IsPhi(def) => def[2] = 1 /\ DefPos = BlockStart(DefBlock)
<1>1. def \in Slots
    BY DEF ProgramOK
<1>2. def = <<DefBlock, def[2]>> /\ DefBlock \in Blocks /\ def[2] \in Nat /\ def[2] >= 1
    BY <1>1, SlotsOfBlocks DEF DefBlock
<1>3. /\ DefPos \in Nat /\ BlockStart(DefBlock) <= DefPos /\ DefPos + 1 < BlockEnd(DefBlock)
      /\ DefPos = BlockStart(DefBlock) + 2 * (def[2] - 1)
    BY <1>1, Positions DEF DefBlock, DefPos
<1>4. IsPhi(def) => def[2] = 1
    BY <1>2, Sizes DEF IsPhi, DefBlock
<1>5. IsPhi(def) => DefPos = BlockStart(DefBlock)
    BY <1>2, <1>3, <1>4, Numbers
<1> QED
    BY <1>1, <1>2, <1>3, <1>4, <1>5 DEF DefinedAfter

LEMMA UsesOfValue ==
    ASSUME ProgramOK, NEW u \in uses
    PROVE  /\ u \in Slots /\ u = <<u[1], u[2]>> /\ u[1] \in Blocks /\ u[2] \in Nat /\ u[2] > Phis(u[1])
           /\ Position(u) \in Nat /\ Position(u) = BlockStart(u[1]) + 2 * (u[2] - 1)
           /\ BlockStart(u[1]) <= Position(u) /\ Position(u) < BlockEnd(u[1])
           /\ u[1] = DefBlock => u[2] > def[2] /\ DefPos < Position(u)
           /\ Dom(DefBlock, u[1])
<1>1. u \in Slots
    BY DEF ProgramOK
<1>2. u = <<u[1], u[2]>> /\ u[1] \in Blocks /\ u[2] \in Nat
    BY <1>1, SlotsOfBlocks
<1>3. ~(u[2] <= Phis(u[1])) /\ IF u[1] = DefBlock THEN u[2] > def[2] ELSE Dom(DefBlock, u[1])
    BY DEF ProgramOK, StrictSSA, IsPhi, Dom
<1>4. /\ Position(u) \in Nat /\ Position(u) = BlockStart(u[1]) + 2 * (u[2] - 1)
      /\ BlockStart(u[1]) <= Position(u) /\ Position(u) + 1 < BlockEnd(u[1])
    BY <1>1, Positions
<1>5. Position(u) < BlockEnd(u[1])
    BY <1>2, <1>4, Numbers
<1>6. u[1] = DefBlock => DefPos < Position(u)
    BY <1>2, <1>3, <1>4, Definition, Numbers
<1>7. u[1] = DefBlock => Dom(DefBlock, u[1])
    BY <1>2, DominanceByEdges DEF ProgramOK
<1>8. u[2] > Phis(u[1])
    BY <1>2, <1>3, Sizes
<1> QED
    BY <1>1, <1>2, <1>3, <1>4, <1>5, <1>6, <1>7, <1>8

\* Blocks that need the value lie below its definition.
LEMMA NeededBelowDefinition ==
    ASSUME ProgramOK, LiveBelowDefinition, NEW x \in Blocks, OutAt(x) \/ UsedAfter(x, 0)
    PROVE  Dom(DefBlock, x) /\ DefBlock <= x
<1>1. DefBlock \in Blocks /\ GraphOK
    BY Definition DEF ProgramOK
<1>2. Dom(DefBlock, x)
    <2>1. CASE UsedAfter(x, 0)
        BY <2>1, UsesOfValue DEF UsedAfter
    <2>2. CASE \E e \in phiUses : e[1] = x
        BY <2>2 DEF ProgramOK, StrictSSA, Dom
    <2>3. CASE \E s \in succs[x] : s > x /\ liveIn[s]
        <3>1. PICK s \in succs[x] : s > x /\ liveIn[s]
            BY <2>3
        <3>2. s \in Blocks /\ s # DefBlock /\ Dom(DefBlock, s)
            BY <1>1, <3>1, Edges DEF LiveBelowDefinition
        <3> QED
            BY <1>1, <3>1, <3>2, DominanceByEdges
    <2> QED
        BY <2>1, <2>2, <2>3 DEF OutAt
<1> QED
    BY <1>1, <1>2, DominatorsComeFirst

LEMMA AddedPoints ==
    ASSUME NEW rs, Sorted(rs), NEW start \in Nat, NEW end \in Nat
    PROVE  /\ Sorted(AddRange(rs, start, end))
           /\ \A p \in Nat : IsLiveAt(AddRange(rs, start, end), p)
                               <=> IsLiveAt(rs, p) \/ (start <= p /\ p < end)
<1>1. CASE start < end
    BY <1>1, AddedRange
<1>2. CASE ~(start < end)
    <2>1. AddRange(rs, start, end) = rs
        BY <1>2 DEF AddRange
    <2>2. \A p \in Nat : ~(start <= p /\ p < end)
        BY <1>2
    <2> QED
        BY <2>1, <2>2
<1> QED
    BY <1>1, <1>2

\* The block at hand.
LEMMA BlockAtHand ==
    ASSUME IInv, NEW x \in Blocks, x = next
    PROVE  /\ LiveOut(x) <=> OutAt(x)
           /\ OutAt(x) \/ UsedAfter(x, 0) => DefBlock <= x
           /\ \A p \in Nat : IsLiveAt(ranges, p) => BlockEnd(x) <= p
           /\ x = DefBlock /\ ranges # <<>> => OutAt(x)
<1>1. GraphOK /\ ProgramOK /\ DefBlock \in Blocks
    BY Definition DEF IInv, ProgramOK
<1>2. LiveOut(x) <=> OutAt(x)
    <2>1. \A s \in succs[x] : s \in Blocks /\ (liveIn[s] => s > x)
        BY <1>1, Edges DEF IInv, LiveInKnown
    <2> QED
        BY <2>1 DEF LiveOut, OutAt
<1>3. OutAt(x) \/ UsedAfter(x, 0) => DefBlock <= x
    BY <1>1, NeededBelowDefinition DEF IInv
<1>4. \A p \in Nat : IsLiveAt(ranges, p) => BlockEnd(x) <= p
    <2> SUFFICES ASSUME NEW p \in Nat, IsLiveAt(ranges, p)
                 PROVE  BlockEnd(x) <= p
        OBVIOUS
    <2>1. PICK y \in Blocks : y > next /\ (Part(y, 0, p) \/ HeldThrough(y, p))
        BY DEF IInv, PointsKnown
    <2>2. BlockEnd(x) <= BlockStart(y)
        BY <2>1, Numbers, Sizes
    <2>3. BlockStart(y) <= p
        <3>1. CASE HeldFrom(y, 0, p) \/ HeldThrough(y, p)
            BY <3>1 DEF HeldFrom, HeldThrough
        <3>2. CASE DefinedAfter(y, 0) /\ p = DefPos
            BY <1>1, <3>2, Definition
        <3> QED
            BY <2>1, <3>1, <3>2 DEF Part
    <2> QED
        BY <2>1, <2>2, <2>3, Numbers
<1>5. ASSUME x = DefBlock, ranges # <<>>
      PROVE  OutAt(x)
    <2>1. PICK p \in Nat : IsLiveAt(ranges, p)
        BY <1>5, FirstRange DEF IInv
    <2>2. PICK y \in Blocks : y > next /\ (Part(y, 0, p) \/ HeldThrough(y, p))
        BY <2>1 DEF IInv, PointsKnown
    <2>3. y # x /\ ~DefinedAfter(y, 0) /\ ~DefinedByPhi(y)
        BY <1>1, <1>5, <2>2, Sizes, Definition DEF DefinedByPhi
    <2>4. liveIn[y]
        <3>1. CASE HeldThrough(y, p)
            BY <2>3, <3>1 DEF HeldThrough
        <3>2. CASE HeldFrom(y, 0, p)
            BY <2>2, <2>3, <3>2 DEF HeldFrom, UsedAfter, LiveAt, IInv, LiveInKnown
        <3> QED
            BY <2>2, <2>3, <3>1, <3>2 DEF Part
    <2> DEFINE T == {z \in Blocks : z > x /\ liveIn[z]}
    <2>5. PICK z \in T : \A w \in T : z <= w
        <3>1. T \in SUBSET Nat /\ y \in T
            BY <2>2, <2>4, Sizes
        <3> QED
            BY <3>1, LeastNumber
    <2>6. z \in Blocks /\ z > x /\ liveIn[z] /\ z # 1 /\ z # DefBlock /\ Dom(DefBlock, z)
        BY <1>5, <2>5, Sizes DEF IInv, LiveBelowDefinition
    <2>7. PICK q \in Blocks : q < z /\ z \in succs[q]
        BY <1>1, <2>6, Edges
    <2>8. DefBlock <= q
        BY <1>1, <2>6, <2>7, DominanceByEdges, DominatorsComeFirst
    <2>9. OutAt(q)
        BY <2>6, <2>7, Sizes DEF OutAt
    <2>10. CASE q = x
        BY <2>9, <2>10
    <2>11. CASE q # x
        <3>1. q > next /\ q > x /\ ~DefinedAfter(q, 0)
            BY <1>5, <2>8, <2>11, Sizes DEF DefinedAfter
        <3>2. liveIn[q]
            BY <2>9, <3>1 DEF IInv, LiveInKnown, LiveAt
        <3>3. q \in T /\ ~(z <= q)
            BY <2>6, <2>7, <3>1, <3>2, Sizes
        <3> QED
            BY <2>5, <3>3
    <2> QED
        BY <2>10, <2>11
<1> QED
    BY <1>2, <1>3, <1>4, <1>5

\* The definition, on the way back through its block.
LEMMA DefinitionCuts ==
    ASSUME IInv, DefBlock = next, NEW j \in Nat, NEW rs, Sorted(rs),
           \A p \in Nat : IsLiveAt(rs, p) <=> IsLiveAt(ranges, p) \/ HeldFrom(DefBlock, j, p)
    PROVE  /\ Sorted(SetStart(rs, DefPos))
           /\ \A p \in Nat : IsLiveAt(SetStart(rs, DefPos), p)
                 <=> \/ IsLiveAt(ranges, p)
                     \/ p = DefPos \/ (HeldFrom(DefBlock, j, p) /\ DefPos <= p)
<1> DEFINE from == BlockStart(DefBlock)
<1>1. /\ ProgramOK /\ DefBlock \in Blocks /\ DefPos \in Nat
      /\ from \in Nat /\ BlockEnd(DefBlock) \in Nat /\ from < BlockEnd(DefBlock)
      /\ from <= DefPos /\ DefPos < BlockEnd(DefBlock)
    BY Definition, Numbers DEF IInv
<1>2. /\ \A p \in Nat : IsLiveAt(ranges, p) => BlockEnd(DefBlock) <= p
      /\ ranges # <<>> => OutAt(DefBlock)
    BY <1>1, BlockAtHand
<1>3. \A p \in Nat : IsLiveAt(rs, p) => from <= p
    BY <1>1, <1>2 DEF HeldFrom
<1>4. rs # <<>> => \A p \in from .. DefPos : IsLiveAt(rs, p)
    <2> SUFFICES ASSUME rs # <<>>, NEW p \in from .. DefPos
                 PROVE  HeldFrom(DefBlock, j, p)
        BY <1>1
    <2>1. p \in Nat /\ p < BlockEnd(DefBlock)
        BY <1>1
    <2>2. PICK q \in Nat : IsLiveAt(rs, q)
        BY FirstRange
    <2>3. CASE OutAt(DefBlock)
        BY <2>1, <2>3 DEF HeldFrom
    <2>4. CASE ~OutAt(DefBlock)
        <3>1. ranges = <<>>
            BY <1>2, <2>4
        <3>2. HeldFrom(DefBlock, j, q)
            BY <2>2, <3>1, NoRanges
        <3>3. PICK u \in uses : u[1] = DefBlock /\ u[2] > j
            BY <2>4, <3>2 DEF HeldFrom
        <3>4. p < Position(u)
            BY <1>1, <3>3, UsesOfValue
        <3> QED
            BY <3>3, <3>4 DEF HeldFrom
    <2> QED
        BY <2>3, <2>4
<1> HIDE DEF from
<1>5. /\ Sorted(SetStart(rs, DefPos))
      /\ \A p \in Nat : IsLiveAt(SetStart(rs, DefPos), p) <=> p = DefPos \/ (IsLiveAt(rs, p) /\ DefPos <= p)
    BY <1>1, <1>3, <1>4, StartedInterval
<1>6. \A p \in Nat : IsLiveAt(ranges, p) => DefPos <= p
    BY <1>1, <1>2
<1> QED
    BY <1>5, <1>6

\* The state of the walk through block x, back to behind instruction j.
WalkedTo(x, j, state) ==
    /\ state \in [live : BOOLEAN, ranges : Seq(LiveRange)]
    /\ state.live <=> LiveAt(x, j)
    /\ Sorted(state.ranges)
    /\ \A p \in Nat : IsLiveAt(state.ranges, p) <=> IsLiveAt(ranges, p) \/ Part(x, j, p)

LEMMA VisitStep ==
    ASSUME IInv, NEW x \in Blocks, x = next, NEW m \in Nat, m > Phis(x), m <= Size(x),
           NEW state, WalkedTo(x, m, state)
    PROVE  WalkedTo(x, m - 1, Visit(state, <<x, m>>))
<1> DEFINE i == <<x, m>>
<1>1. /\ ProgramOK /\ DefBlock \in Blocks /\ def = <<DefBlock, def[2]>> /\ def[2] \in Nat
      /\ m >= 1 /\ m - 1 \in Nat /\ x \in Nat
    <2>1. ProgramOK
        BY DEF IInv
    <2>2. m >= 1 /\ m - 1 \in Nat /\ x \in Nat
        BY Sizes
    <2> QED
        BY <2>1, <2>2, Definition
<1>2. /\ i \in Slots /\ i[1] = x /\ i[2] = m
      /\ Position(i) \in Nat /\ BlockStart(x) \in Nat /\ BlockStart(x) <= Position(i) /\ Position(i) < BlockEnd(x)
    <2>1. i \in Slots /\ i[1] = x /\ i[2] = m
        BY <1>1, Sizes DEF Slots
    <2> HIDE DEF i
    <2>2. /\ Position(i) \in Nat /\ BlockStart(x) <= Position(i) /\ Position(i) + 1 < BlockEnd(x)
        BY <2>1, Positions
    <2> QED
        BY <2>1, <2>2, Numbers
<1>3. i = def <=> x = DefBlock /\ m = def[2]
    BY <1>1
<1>4. \A u \in uses : u[1] = x /\ u[2] = m <=> u = i
    BY <1>2, UsesOfValue, <1>1
<1>5. \A u \in uses : u[2] \in Nat /\ (u[2] > m - 1 <=> u[2] > m \/ u[2] = m)
    BY <1>1, UsesOfValue
<1>6. i = def => i \notin uses
    BY <1>1, <1>2, <1>3, UsesOfValue
<1> HIDE DEF i
<1>7. /\ UsedAfter(x, m - 1) <=> UsedAfter(x, m) \/ i \in uses
      /\ \A p : HeldFrom(x, m - 1, p) <=>
                 HeldFrom(x, m, p) \/ (i \in uses /\ BlockStart(x) <= p /\ p < Position(i))
    BY <1>2, <1>4, <1>5 DEF UsedAfter, HeldFrom
<1>8. i # def => (DefinedAfter(x, m - 1) <=> DefinedAfter(x, m))
    BY <1>1, <1>3 DEF DefinedAfter
<1>9. i = def => DefinedAfter(x, m - 1) /\ ~DefinedAfter(x, m)
    BY <1>1, <1>3 DEF DefinedAfter
<1>10. i \in uses => ~DefinedAfter(x, m)
    BY <1>1, <1>2, UsesOfValue DEF DefinedAfter
<1> DEFINE st == Visit(state, i)
<1>11. state = [live |-> state.live, ranges |-> state.ranges] /\ state.live \in BOOLEAN /\ state.ranges \in Seq(LiveRange)
    BY DEF WalkedTo
<1>12. CASE i = def
    <2>1. st.live = FALSE /\ st.ranges = SetStart(state.ranges, DefPos)
          /\ st = [live |-> FALSE, ranges |-> SetStart(state.ranges, DefPos)]
        BY <1>6, <1>11, <1>12 DEF Visit, DefPos
    <2>2. \A p \in Nat : IsLiveAt(state.ranges, p) <=> IsLiveAt(ranges, p) \/ HeldFrom(x, m, p)
        BY <1>9, <1>12 DEF WalkedTo, Part
    <2>3. x = DefBlock /\ Sorted(state.ranges)
        BY <1>3, <1>12 DEF WalkedTo
    <2>4. /\ Sorted(SetStart(state.ranges, DefPos))
          /\ \A p \in Nat : IsLiveAt(SetStart(state.ranges, DefPos), p)
                <=> IsLiveAt(ranges, p) \/ p = DefPos \/ (HeldFrom(x, m, p) /\ DefPos <= p)
        BY <2>2, <2>3, DefinitionCuts
    <2>5. \A p \in Nat : Part(x, m - 1, p) <=> p = DefPos \/ (HeldFrom(x, m, p) /\ DefPos <= p)
        BY <1>6, <1>7, <1>9, <1>12 DEF Part
    <2>6. ~LiveAt(x, m - 1)
        BY <1>9, <1>12 DEF LiveAt
    <2>7. st \in [live : BOOLEAN, ranges : Seq(LiveRange)]
        BY <2>1, <2>4 DEF Sorted
    <2> HIDE DEF st
    <2> QED
        BY <2>1, <2>4, <2>5, <2>6, <2>7 DEF WalkedTo, st, i
<1>13. CASE i # def /\ i \in uses
    <2>1. st = [live |-> TRUE, ranges |-> AddRange(state.ranges, BlockStart(x), Position(i))]
        BY <1>2, <1>13 DEF Visit
    <2>2. /\ Sorted(AddRange(state.ranges, BlockStart(x), Position(i)))
          /\ \A p \in Nat : IsLiveAt(AddRange(state.ranges, BlockStart(x), Position(i)), p)
                <=> IsLiveAt(state.ranges, p) \/ (BlockStart(x) <= p /\ p < Position(i))
        BY <1>2, AddedPoints DEF WalkedTo
    <2>3. \A p \in Nat : /\ Part(x, m, p) <=> HeldFrom(x, m, p)
                         /\ Part(x, m - 1, p) <=> HeldFrom(x, m - 1, p)
        BY <1>8, <1>10, <1>13 DEF Part
    <2>4. LiveAt(x, m - 1)
        BY <1>7, <1>8, <1>10, <1>13 DEF LiveAt
    <2>5. st.live = TRUE /\ st.ranges = AddRange(state.ranges, BlockStart(x), Position(i))
        BY <2>1
    <2>6. st \in [live : BOOLEAN, ranges : Seq(LiveRange)]
        BY <2>1, <2>2 DEF Sorted
    <2>7. \A p \in Nat : IsLiveAt(state.ranges, p) <=> IsLiveAt(ranges, p) \/ Part(x, m, p)
        BY DEF WalkedTo
    <2>8. \A p \in Nat : IsLiveAt(st.ranges, p) <=> IsLiveAt(ranges, p) \/ Part(x, m - 1, p)
        BY <1>7, <1>13, <2>2, <2>3, <2>5, <2>7
    <2> HIDE DEF st
    <2> QED
        BY <2>2, <2>4, <2>5, <2>6, <2>8 DEF WalkedTo, st, i
<1>14. CASE i # def /\ i \notin uses
    <2>1. st = state
        BY <1>14 DEF Visit
    <2>2. \A p \in Nat : Part(x, m, p) <=> Part(x, m - 1, p)
        BY <1>7, <1>8, <1>14 DEF Part
    <2>3. LiveAt(x, m) <=> LiveAt(x, m - 1)
        BY <1>7, <1>8, <1>14 DEF LiveAt
    <2> HIDE DEF st
    <2> QED
        BY <2>1, <2>2, <2>3 DEF WalkedTo, st, i
<1> QED
    BY <1>12, <1>13, <1>14

IsWalk(f, x, state, n) ==
    f = [k \in 0 .. n |-> IF k = 0 THEN state ELSE Visit(f[k - 1], <<x, Size(x) - k + 1>>)]

LEMMA WalkExists ==
    ASSUME NEW x, NEW state, NEW last \in Nat
    PROVE  \E f : IsWalk(f, x, state, last)
<1> DEFINE T == {n \in 0 .. last : \A f : ~IsWalk(f, x, state, n)}
<1>1. SUFFICES ASSUME T # {}
               PROVE  FALSE
    OBVIOUS
<1>2. PICK n \in T : \A m \in T : n <= m
    <2>1. T \in SUBSET Nat
        OBVIOUS
    <2> QED
        BY <1>1, <2>1, LeastNumber
<1>3. CASE n = 0
    <2> DEFINE g == [k \in 0 .. 0 |-> state]
    <2>1. \A k \in 0 .. 0 : k = 0
        OBVIOUS
    <2>2. g = [k \in 0 .. 0 |-> IF k = 0 THEN state ELSE Visit(g[k - 1], <<x, Size(x) - k + 1>>)]
        BY <2>1
    <2>3. IsWalk(g, x, state, n)
        BY <1>3, <2>2 DEF IsWalk
    <2> QED
        BY <1>2, <2>3
<1>4. CASE n # 0
    <2>1. n \in Nat /\ n > 0 /\ n - 1 \in 0 .. last /\ n - 1 < n
        BY <1>2, <1>4
    <2>2. PICK f : IsWalk(f, x, state, n - 1)
        BY <1>2, <2>1
    <2>3. \A k \in 0 .. n - 1 : f[k] = IF k = 0 THEN state ELSE Visit(f[k - 1], <<x, Size(x) - k + 1>>)
        BY <2>2 DEF IsWalk
    <2> DEFINE g == [k \in 0 .. n |-> IF k = n THEN Visit(f[n - 1], <<x, Size(x) - n + 1>>) ELSE f[k]]
    <2>4. \A k \in 0 .. n : /\ k = n \/ k \in 0 .. n - 1
                            /\ k # 0 => k - 1 \in 0 .. n - 1 /\ k - 1 \in 0 .. n /\ k - 1 # n
        BY <2>1
    <2>5. ASSUME NEW k \in 0 .. n
          PROVE  g[k] = IF k = 0 THEN state ELSE Visit(g[k - 1], <<x, Size(x) - k + 1>>)
        <3>1. k # 0 => g[k - 1] = f[k - 1]
            BY <2>4
        <3>2. CASE k = n
            BY <1>4, <3>1, <3>2
        <3>3. CASE k # n
            BY <2>3, <2>4, <3>1, <3>3
        <3> QED
            BY <3>2, <3>3
    <2>6. g = [k \in 0 .. n |-> g[k]]
        OBVIOUS
    <2> HIDE DEF g
    <2>7. IsWalk(g, x, state, n)
        BY <2>5, <2>6 DEF IsWalk
    <2> QED
        BY <1>2, <2>7
<1> QED
    BY <1>3, <1>4

LEMMA WalkedBack ==
    ASSUME IInv, NEW x \in Blocks, x = next, NEW state, WalkedTo(x, Size(x), state)
    PROVE  WalkedTo(x, Phis(x), WalkBack(x, state))
<1> DEFINE last == Size(x) - Phis(x)
           f == CHOOSE g : g = [k \in 0 .. last |-> IF k = 0 THEN state
                                                    ELSE Visit(g[k - 1], <<x, Size(x) - k + 1>>)]
<1>1. Size(x) \in Nat /\ Phis(x) \in Nat /\ last \in Nat
    BY Sizes
<1>2. f = [k \in 0 .. last |-> IF k = 0 THEN state ELSE Visit(f[k - 1], <<x, Size(x) - k + 1>>)]
    <2> HIDE DEF last
    <2>1. \E g : g = [k \in 0 .. last |-> IF k = 0 THEN state
                                          ELSE Visit(g[k - 1], <<x, Size(x) - k + 1>>)]
        <3>1. \E g : IsWalk(g, x, state, last)
            BY <1>1, WalkExists
        <3> QED
            BY <3>1 DEF IsWalk
    <2> QED
        BY <2>1
<1>3. WalkBack(x, state) = f[last]
    BY DEF WalkBack
<1> HIDE DEF f
<1> DEFINE T == {k \in 0 .. last : ~WalkedTo(x, Size(x) - k, f[k])}
<1>4. ASSUME T # {}
      PROVE  FALSE
    <2>1. PICK k \in T : \A n \in T : k <= n
        <3>1. T \in SUBSET Nat
            BY <1>1
        <3> QED
            BY <1>4, <3>1, LeastNumber
    <2>2. k # 0
        BY <1>1, <1>2, <2>1
    <2>3. k \in Nat /\ k - 1 \in 0 .. last /\ ~(k <= k - 1)
        BY <1>1, <2>1, <2>2
    <2>4. WalkedTo(x, Size(x) - (k - 1), f[k - 1])
        BY <2>1, <2>3
    <2> DEFINE m == Size(x) - k + 1
    <2>5. m \in Nat /\ m > Phis(x) /\ m <= Size(x) /\ Size(x) - (k - 1) = m /\ m - 1 = Size(x) - k
        BY <1>1, <2>1, <2>2
    <2>6. f[k] = Visit(f[k - 1], <<x, m>>)
        BY <1>2, <2>1, <2>2
    <2> HIDE DEF m
    <2>7. WalkedTo(x, m - 1, f[k])
        BY <2>4, <2>5, <2>6, VisitStep
    <2> QED
        BY <2>1, <2>5, <2>7
<1>5. last \in 0 .. last /\ Size(x) - last = Phis(x)
    BY <1>1
<1> HIDE DEF last
<1>6. WalkedTo(x, Size(x) - last, f[last])
    BY <1>4, <1>5
<1> QED
    BY <1>3, <1>5, <1>6

-----------------------------------------------------------------------------
(* ProcessBlock. *)

OutState(x) ==
    [live |-> LiveOut(x),
     ranges |-> IF LiveOut(x) THEN AddRange(ranges, BlockStart(x), BlockEnd(x)) ELSE ranges]

InState(x) == ExtendOverLoop(x, VisitPhi(x, WalkBack(x, OutState(x))))

LEMMA AtTheEnd ==
    ASSUME IInv, NEW x \in Blocks, x = next
    PROVE  WalkedTo(x, Size(x), OutState(x))
<1> DEFINE st == OutState(x)
<1>1. /\ ProgramOK
      /\ LiveOut(x) <=> OutAt(x)
      /\ BlockStart(x) \in Nat /\ BlockEnd(x) \in Nat /\ Size(x) \in Nat /\ Sorted(ranges)
    BY BlockAtHand, Numbers, Sizes DEF IInv
<1>2. ~UsedAfter(x, Size(x)) /\ \A u \in uses : ~(u[1] = x /\ u[2] > Size(x))
    <2>1. ASSUME NEW u \in uses, u[1] = x
          PROVE  u[2] \in 1 .. Size(x)
        <3>1. u \in Slots
            BY <1>1, UsesOfValue
        <3> QED
            BY <2>1, <3>1, SlotsOfBlocks
    <2> QED
        BY <1>1, <2>1 DEF UsedAfter
<1>3. ~DefinedAfter(x, Size(x))
    <2>1. def[2] \in 1 .. Size(def[1])
        <3>1. def \in Slots
            BY <1>1, Definition
        <3> QED
            BY <3>1, SlotsOfBlocks
    <2> QED
        BY <1>1, <2>1 DEF DefinedAfter, DefBlock
<1>4. \A p \in Nat : Part(x, Size(x), p) <=> BlockStart(x) <= p /\ OutAt(x) /\ p < BlockEnd(x)
    BY <1>2, <1>3 DEF Part, HeldFrom
<1>5. LiveAt(x, Size(x)) <=> OutAt(x)
    BY <1>2, <1>3 DEF LiveAt
<1>6. CASE OutAt(x)
    <2>1. st = [live |-> LiveOut(x), ranges |-> AddRange(ranges, BlockStart(x), BlockEnd(x))]
        BY <1>1, <1>6 DEF OutState
    <2>2. LiveOut(x) = TRUE
        BY <1>1, <1>6 DEF LiveOut
    <2>3. /\ Sorted(AddRange(ranges, BlockStart(x), BlockEnd(x)))
          /\ \A p \in Nat : IsLiveAt(AddRange(ranges, BlockStart(x), BlockEnd(x)), p)
                <=> IsLiveAt(ranges, p) \/ (BlockStart(x) <= p /\ p < BlockEnd(x))
        BY <1>1, AddedPoints
    <2>4. st.live = TRUE /\ st.ranges = AddRange(ranges, BlockStart(x), BlockEnd(x))
          /\ st \in [live : BOOLEAN, ranges : Seq(LiveRange)]
        BY <2>1, <2>2, <2>3 DEF Sorted
    <2> HIDE DEF st
    <2> QED
        BY <1>4, <1>5, <1>6, <2>3, <2>4 DEF WalkedTo, st
<1>7. CASE ~OutAt(x)
    <2>1. st = [live |-> LiveOut(x), ranges |-> ranges]
        BY <1>1, <1>7 DEF OutState
    <2>2. LiveOut(x) = FALSE
        BY <1>1, <1>7 DEF LiveOut
    <2>3. st = [live |-> FALSE, ranges |-> ranges]
        BY <2>1, <2>2
    <2>4. st.live = FALSE /\ st.ranges = ranges /\ st \in [live : BOOLEAN, ranges : Seq(LiveRange)]
        <3> HIDE DEF st
        <3>1. st.live = FALSE /\ st.ranges = ranges
            BY <2>3
        <3>2. ranges \in Seq(LiveRange)
            BY <1>1 DEF Sorted
        <3> QED
            BY <2>3, <3>1, <3>2
    <2> HIDE DEF st
    <2> QED
        BY <1>1, <1>4, <1>5, <1>7, <2>4 DEF WalkedTo, st
<1> QED
    BY <1>6, <1>7

LEMMA PhiStep ==
    ASSUME IInv, NEW x \in Blocks, x = next, NEW state, WalkedTo(x, Phis(x), state)
    PROVE  WalkedTo(x, 0, VisitPhi(x, state))
<1> DEFINE st == VisitPhi(x, state)
<1>1. /\ ProgramOK /\ DefBlock \in Blocks /\ def = <<DefBlock, def[2]>> /\ def[2] \in Nat /\ def[2] >= 1
      /\ Phis(x) \in Nat /\ Phis(x) >= 0
    <2>1. ProgramOK
        BY DEF IInv
    <2>2. Phis(x) \in Nat /\ Phis(x) >= 0
        BY Sizes
    <2> QED
        BY <2>1, <2>2, Definition
<1>2. \A u \in uses : u[1] = x => (u[2] > 0 <=> u[2] > Phis(x))
    BY <1>1, UsesOfValue
<1>3. /\ UsedAfter(x, 0) <=> UsedAfter(x, Phis(x))
      /\ \A p : HeldFrom(x, 0, p) <=> HeldFrom(x, Phis(x), p)
    BY <1>2 DEF UsedAfter, HeldFrom
<1>4. DefinedAfter(x, 0) <=> x = DefBlock
    BY <1>1, Definition
<1>5. CASE DefinedByPhi(x)
    <2>1. x = DefBlock /\ IsPhi(def) /\ def[2] <= Phis(x) /\ ~DefinedAfter(x, Phis(x)) /\ DefPos = BlockStart(x)
        BY <1>1, <1>5, Definition DEF DefinedByPhi, IsPhi, DefBlock, DefinedAfter
    <2>2. st = [live |-> FALSE, ranges |-> SetStart(state.ranges, DefPos)]
        BY <1>5, <2>1 DEF VisitPhi
    <2>3. \A p \in Nat : IsLiveAt(state.ranges, p) <=> IsLiveAt(ranges, p) \/ HeldFrom(x, Phis(x), p)
        BY <2>1 DEF WalkedTo, Part
    <2>4. Sorted(state.ranges)
        BY DEF WalkedTo
    <2>5. /\ Sorted(SetStart(state.ranges, DefPos))
          /\ \A p \in Nat : IsLiveAt(SetStart(state.ranges, DefPos), p)
                <=> IsLiveAt(ranges, p) \/ p = DefPos \/ (HeldFrom(x, Phis(x), p) /\ DefPos <= p)
        BY <1>1, <2>1, <2>3, <2>4, DefinitionCuts
    <2>6. \A p \in Nat : Part(x, 0, p) <=> p = DefPos \/ (HeldFrom(x, Phis(x), p) /\ DefPos <= p)
        BY <1>3, <1>4, <2>1 DEF Part
    <2>7. ~LiveAt(x, 0)
        BY <1>4, <2>1 DEF LiveAt
    <2>8. /\ st.live = FALSE /\ st.ranges = SetStart(state.ranges, DefPos)
          /\ st \in [live : BOOLEAN, ranges : Seq(LiveRange)]
        BY <2>2, <2>5 DEF Sorted
    <2> HIDE DEF st
    <2> QED
        BY <2>5, <2>6, <2>7, <2>8 DEF WalkedTo, st
<1>6. CASE ~DefinedByPhi(x)
    <2>1. st = state
        BY <1>6 DEF VisitPhi
    <2>2. DefinedAfter(x, 0) <=> DefinedAfter(x, Phis(x))
        BY <1>1, <1>4, <1>6 DEF DefinedByPhi, IsPhi, DefBlock, DefinedAfter
    <2>3. \A p \in Nat : Part(x, 0, p) <=> Part(x, Phis(x), p)
        BY <1>3, <2>2 DEF Part
    <2>4. LiveAt(x, 0) <=> LiveAt(x, Phis(x))
        BY <1>3, <2>2 DEF LiveAt
    <2> HIDE DEF st
    <2> QED
        BY <2>1, <2>3, <2>4 DEF WalkedTo, st
<1> QED
    BY <1>5, <1>6

LEMMA BlockProcessed ==
    ASSUME IInv, NEW x \in Blocks, x = next
    PROVE  /\ InState(x).live \in BOOLEAN /\ (InState(x).live <=> LiveAt(x, 0))
           /\ Sorted(InState(x).ranges)
           /\ \A p \in Nat : IsLiveAt(InState(x).ranges, p)
                 <=> \/ IsLiveAt(ranges, p) \/ Part(x, 0, p)
                     \/ /\ IsLoopHeader(x) /\ (LiveAt(x, 0) \/ DefinedByPhi(x))
                        /\ BlockStart(x) <= p /\ p < LoopEnd(x)
<1> DEFINE state == VisitPhi(x, WalkBack(x, OutState(x)))
           st == InState(x)
<1>1. WalkedTo(x, 0, state)
    BY AtTheEnd, WalkedBack, PhiStep
<1>2. st = ExtendOverLoop(x, state)
    BY DEF InState
<1> HIDE DEF state, st
<1>3. /\ state \in [live : BOOLEAN, ranges : Seq(LiveRange)]
      /\ state.live <=> LiveAt(x, 0)
      /\ Sorted(state.ranges)
      /\ \A p \in Nat : IsLiveAt(state.ranges, p) <=> IsLiveAt(ranges, p) \/ Part(x, 0, p)
    BY <1>1 DEF WalkedTo
<1>4. BlockStart(x) \in Nat /\ LoopEnd(x) \in Nat
    BY Numbers, LoopEnds DEF IInv, ProgramOK
<1>5. CASE IsLoopHeader(x) /\ (LiveAt(x, 0) \/ DefinedByPhi(x))
    <2>1. st = [state EXCEPT !.ranges = AddRange(state.ranges, BlockStart(x), LoopEnd(x))]
        BY <1>2, <1>3, <1>5 DEF ExtendOverLoop
    <2>2. st.live = state.live /\ st.ranges = AddRange(state.ranges, BlockStart(x), LoopEnd(x))
        BY <1>3, <2>1
    <2>3. /\ Sorted(AddRange(state.ranges, BlockStart(x), LoopEnd(x)))
          /\ \A p \in Nat : IsLiveAt(AddRange(state.ranges, BlockStart(x), LoopEnd(x)), p)
                <=> IsLiveAt(state.ranges, p) \/ (BlockStart(x) <= p /\ p < LoopEnd(x))
        BY <1>3, <1>4, AddedPoints
    <2>4. state.live \in BOOLEAN
        BY <1>3
    <2>5. \A p \in Nat : IsLiveAt(st.ranges, p)
                <=> IsLiveAt(ranges, p) \/ Part(x, 0, p) \/ (BlockStart(x) <= p /\ p < LoopEnd(x))
        BY <1>3, <2>2, <2>3
    <2> QED
        BY <1>3, <1>5, <2>2, <2>3, <2>4, <2>5 DEF st
<1>6. CASE ~(IsLoopHeader(x) /\ (LiveAt(x, 0) \/ DefinedByPhi(x)))
    <2>1. st = state
        BY <1>2, <1>3, <1>6 DEF ExtendOverLoop
    <2>2. state.live \in BOOLEAN
        BY <1>3
    <2> QED
        BY <1>3, <1>6, <2>1, <2>2 DEF st
<1> QED
    BY <1>5, <1>6

-----------------------------------------------------------------------------
(* The invariant is inductive.  A step leaves the program alone, and with  *)
(* it the positions and the loops.                                         *)

LEMMA SameBlocks ==
    ASSUME UNCHANGED program
    PROVE  /\ succs' = succs /\ def' = def /\ uses' = uses /\ phiUses' = phiUses
           /\ \A x : Phis(x)' = Phis(x) /\ Size(x)' = Size(x)
           /\ DefBlock' = DefBlock
           /\ IsPhi(def)' = IsPhi(def)
           /\ \A x : DefinedByPhi(x)' = DefinedByPhi(x)
           /\ \A d, x : Dom(d, x)' = Dom(d, x)
           /\ \A x : LoopOf(x)' = LoopOf(x) /\ IsLoopHeader(x)' = IsLoopHeader(x)
<1>1. succs' = succs /\ def' = def /\ uses' = uses /\ phiUses' = phiUses
    BY DEF program
<1>2. \A x : Phis(x)' = Phis(x)
    BY <1>1 DEF Phis
<1>3. \A x : Size(x)' = Size(x)
    BY <1>2 DEF Size
<1>4. DefBlock' = DefBlock /\ IsPhi(def)' = IsPhi(def)
    BY <1>1, <1>2 DEF DefBlock, IsPhi
<1>5. \A x : DefinedByPhi(x)' = DefinedByPhi(x)
    BY <1>1, <1>2, <1>4 DEF DefinedByPhi, IsPhi
<1>6. \A d, x : Dom(d, x)' = Dom(d, x)
    BY <1>1 DEF Dom
<1>7. \A x : Latches(x)' = Latches(x)
    BY <1>1 DEF Latches
<1>8. \A x : LoopOf(x)' = LoopOf(x) /\ IsLoopHeader(x)' = IsLoopHeader(x)
    BY <1>1, <1>7 DEF LoopOf, IsLoopHeader
<1> QED
    BY <1>1, <1>2, <1>3, <1>4, <1>5, <1>6, <1>8

LEMMA NumbersNext ==
    /\ BlockStart(1)' = 0
    /\ \A x \in Blocks \ {1} : BlockStart(x)' = BlockStart(x - 1)' + 2 * Size(x - 1)'
<1>1. /\ BlockStart(1) = 0
      /\ \A x \in Blocks \ {1} : BlockStart(x) = BlockStart(x - 1) + 2 * Size(x - 1)
    BY BlocksFollowEachOther
<1>2. (/\ BlockStart(1) = 0
       /\ \A x \in Blocks \ {1} : BlockStart(x) = BlockStart(x - 1) + 2 * Size(x - 1))'
    BY <1>1, PTL
<1> QED
    BY <1>2

LEMMA SamePositions ==
    ASSUME UNCHANGED program
    PROVE  /\ \A x \in Blocks : BlockStart(x)' = BlockStart(x) /\ BlockEnd(x)' = BlockEnd(x)
           /\ \A i : i[1] \in Blocks => Position(i)' = Position(i)
           /\ GraphOK => \A x \in Blocks : LoopEnd(x)' = LoopEnd(x)
<1> DEFINE T == {x \in Blocks : ~(BlockStart(x)' = BlockStart(x))}
<1>1. ASSUME T # {}
      PROVE  FALSE
    <2>1. PICK x \in T : \A y \in T : x <= y
        <3>1. T \in SUBSET Nat
            BY Sizes
        <3> QED
            BY <1>1, <3>1, LeastNumber
    <2>2. x # 1
        BY <2>1, NumbersNext, BlocksFollowEachOther
    <2>3. x - 1 \in Blocks /\ ~(x <= x - 1)
        BY <2>1, <2>2, Sizes
    <2>4. BlockStart(x - 1)' = BlockStart(x - 1) /\ Size(x - 1)' = Size(x - 1)
        BY <2>1, <2>3, SameBlocks
    <2>5. x \in Blocks \ {1}
        BY <2>1, <2>2
    <2>6. BlockStart(x)' = BlockStart(x - 1)' + 2 * Size(x - 1)'
        BY <2>5, NumbersNext
    <2>7. BlockStart(x) = BlockStart(x - 1) + 2 * Size(x - 1)
        BY <2>5, BlocksFollowEachOther
    <2> QED
        BY <2>1, <2>4, <2>6, <2>7
<1>2. \A x \in Blocks : BlockStart(x)' = BlockStart(x)
    BY <1>1
<1>3. \A x \in Blocks : BlockEnd(x)' = BlockEnd(x)
    BY <1>2, SameBlocks DEF BlockEnd
<1>4. \A i : i[1] \in Blocks => Position(i)' = Position(i)
    BY <1>2 DEF Position
<1>5. ASSUME GraphOK, NEW x \in Blocks
      PROVE  LoopEnd(x)' = LoopEnd(x)
    <2>1. LoopOf(x) \subseteq Blocks
        BY <1>5, LoopBlocks
    <2>2. LoopOf(x)' = LoopOf(x)
        BY SameBlocks
    <2>3. LoopEnd(x) = Max({BlockEnd(y) : y \in LoopOf(x)})
        BY DEF LoopEnd, LoopOf
    <2>4. LoopEnd(x)' = Max({BlockEnd(y)' : y \in LoopOf(x)'})
        BY DEF LoopEnd, LoopOf
    <2>5. {BlockEnd(y)' : y \in LoopOf(x)'} = {BlockEnd(y) : y \in LoopOf(x)}
        BY <1>3, <2>1, <2>2
    <2> QED
        BY <2>3, <2>4, <2>5
<1> QED
    BY <1>2, <1>3, <1>4, <1>5

LEMMA SameProgram ==
    ASSUME ProgramOK, UNCHANGED program
    PROVE  ProgramOK'
<1>1. /\ succs' = succs /\ def' = def /\ uses' = uses /\ phiUses' = phiUses
      /\ \A x : Phis(x)' = Phis(x) /\ Size(x)' = Size(x)
      /\ DefBlock' = DefBlock
      /\ \A d, x : Dom(d, x)' = Dom(d, x)
    BY SameBlocks
<1>2. GraphOK'
    BY <1>1 DEF ProgramOK, GraphOK, LinearOrder
<1>3. Slots' = Slots
    <2>1. \A x \in Blocks : {<<x, k>> : k \in 1 .. Size(x)}' = {<<x, k>> : k \in 1 .. Size(x)}
        BY <1>1
    <2> QED
        BY <2>1 DEF Slots
<1>4. StrictSSA'
    <2>1. StrictSSA
        BY DEF ProgramOK
    <2> QED
        BY <1>1, <2>1 DEF StrictSSA, IsTerminator, IsPhi
<1> QED
    BY <1>1, <1>2, <1>3, <1>4 DEF ProgramOK

LEMMA InitInv == Init => IInv
<1> SUFFICES ASSUME Init
             PROVE  IInv
    OBVIOUS
<1>1. ProgramOK
    BY DEF Init, ProgramOK, GraphOK
<1>2. next \in 0 .. NumBlocks /\ liveIn \in [Blocks -> BOOLEAN] /\ \A x \in Blocks : ~liveIn[x] /\ ~(x > next)
    BY Sizes DEF Init
<1>3. Sorted(ranges) /\ \A p \in Nat : ~IsLiveAt(ranges, p)
    BY NoRanges DEF Init
<1> QED
    BY <1>1, <1>2, <1>3 DEF IInv, LiveInKnown, LiveBelowDefinition, PointsKnown

LEMMA ProcessBlockKeepsInv == IInv /\ ProcessBlock => IInv'
<1> SUFFICES ASSUME IInv, ProcessBlock
             PROVE  IInv'
    OBVIOUS
<1>0. PICK x \in Blocks : x = next
    BY Sizes DEF IInv, ProcessBlock
<1>1. /\ x \in Blocks /\ x \in Nat /\ x >= 1 /\ UNCHANGED program
      /\ liveIn' = [liveIn EXCEPT ![x] = InState(x).live]
      /\ ranges' = InState(x).ranges
      /\ next' = x - 1
    BY <1>0, Sizes DEF IInv, ProcessBlock, InState, OutState
<1>2. /\ ProgramOK /\ GraphOK /\ liveIn \in [Blocks -> BOOLEAN] /\ LiveInKnown /\ LiveBelowDefinition /\ PointsKnown
      /\ x = next
    BY <1>0 DEF IInv, ProgramOK
<1>3. /\ InState(x).live \in BOOLEAN
      /\ InState(x).live <=> LiveAt(x, 0)
      /\ Sorted(InState(x).ranges)
      /\ \A p \in Nat : IsLiveAt(InState(x).ranges, p)
            <=> \/ IsLiveAt(ranges, p) \/ Part(x, 0, p)
                \/ /\ IsLoopHeader(x) /\ (LiveAt(x, 0) \/ DefinedByPhi(x))
                   /\ BlockStart(x) <= p /\ p < LoopEnd(x)
    BY <1>1, <1>2, BlockProcessed
<1>4. ProgramOK' /\ next' \in 0 .. NumBlocks
    BY <1>1, <1>2, SameProgram, Sizes
<1>5. /\ liveIn' \in [Blocks -> BOOLEAN]
      /\ liveIn'[x] <=> LiveAt(x, 0)
      /\ \A y \in Blocks : y # x => liveIn'[y] = liveIn[y]
    BY <1>1, <1>2, <1>3
<1>6. Sorted(ranges')
    BY <1>1, <1>3
<1>7. Sorted(ranges)'
    BY <1>6 DEF Sorted, Apart
\* What is known of the blocks behind x stays so.
<1>8. /\ succs' = succs /\ def' = def /\ uses' = uses /\ phiUses' = phiUses /\ DefBlock' = DefBlock
      /\ \A y : DefinedByPhi(y)' = DefinedByPhi(y) /\ IsLoopHeader(y)' = IsLoopHeader(y)
      /\ \A d, y : Dom(d, y)' = Dom(d, y)
      /\ \A y \in Blocks : /\ BlockStart(y)' = BlockStart(y) /\ BlockEnd(y)' = BlockEnd(y)
                           /\ LoopEnd(y)' = LoopEnd(y)
      /\ \A i : i[1] \in Blocks => Position(i)' = Position(i)
    BY <1>1, <1>2, SameBlocks, SamePositions
<1>9. DefPos' = DefPos
    <2>1. def[1] \in Blocks
        BY <1>2, Definition DEF DefBlock
    <2>2. Position(def)' = Position(def)
        BY <1>8, <2>1 DEF Position
    <2> QED
        BY <2>2 DEF DefPos
<1>10. ASSUME NEW y \in Blocks, y >= x
       PROVE  /\ OutAt(y)' <=> OutAt(y)
              /\ LiveAt(y, 0)' <=> LiveAt(y, 0)
              /\ \A p : Part(y, 0, p)' <=> Part(y, 0, p)
    <2>1. \A s \in succs[y] : s > y => s \in Blocks /\ s # x
        BY <1>1, <1>2, <1>10, Edges, Sizes
    <2>2. OutAt(y)' <=> OutAt(y)
        BY <1>5, <1>8, <2>1 DEF OutAt
    <2>3. UsedAfter(y, 0)' <=> UsedAfter(y, 0)
        BY <1>8 DEF UsedAfter
    <2>4. DefinedAfter(y, 0)' <=> DefinedAfter(y, 0)
        BY <1>8 DEF DefinedAfter
    <2>5. \A u \in uses : Position(u)' = Position(u)
        BY <1>2, <1>8, UsesOfValue
    <2>6. \A p : HeldFrom(y, 0, p)' <=> HeldFrom(y, 0, p)
        BY <1>8, <2>2, <2>5 DEF HeldFrom
    <2> QED
        BY <1>9, <2>2, <2>3, <2>4, <2>6 DEF LiveAt, Part
<1>11. \A y \in Blocks : /\ y > next' <=> y > x \/ y = x
                         /\ y >= x <=> y > x \/ y = x
                         /\ y > x => y # x
    BY <1>1, Sizes
<1>12. LiveInKnown'
    <2> SUFFICES ASSUME NEW y \in Blocks
                 PROVE  liveIn'[y] <=> y > next' /\ LiveAt(y, 0)'
        BY DEF LiveInKnown
    <2>1. CASE y = x
        BY <1>5, <1>10, <1>11, <2>1
    <2>2. CASE y # x
        <3>1. liveIn[y] <=> y > x /\ LiveAt(y, 0)
            BY <1>2 DEF LiveInKnown
        <3> QED
            BY <1>5, <1>10, <1>11, <2>2, <3>1
    <2> QED
        BY <2>1, <2>2
<1>13. LiveBelowDefinition'
    <2> SUFFICES ASSUME NEW y \in Blocks, liveIn'[y]
                 PROVE  y # DefBlock' /\ Dom(DefBlock, y)'
        BY DEF LiveBelowDefinition
    <2>1. y # DefBlock /\ Dom(DefBlock, y)
        <3>1. CASE y = x
            <4>1. ~DefinedAfter(y, 0) /\ (OutAt(y) \/ UsedAfter(y, 0))
                BY <1>5, <3>1 DEF LiveAt
            <4> QED
                BY <1>2, <4>1, NeededBelowDefinition, Definition
        <3>2. CASE y # x
            BY <1>2, <1>5, <3>2 DEF LiveBelowDefinition
        <3> QED
            BY <3>1, <3>2
    <2>2. Dom(DefBlock, y)' <=> Dom(DefBlock, y)
        BY <1>8 DEF Dom
    <2> QED
        BY <1>8, <2>1, <2>2
<1>14. \A y \in Blocks : y > x => \A p : HeldThrough(y, p)' <=> HeldThrough(y, p)
    BY <1>5, <1>8, <1>11 DEF HeldThrough
<1>15. \A p : HeldThrough(x, p)' <=> /\ IsLoopHeader(x) /\ (LiveAt(x, 0) \/ DefinedByPhi(x))
                                    /\ BlockStart(x) <= p /\ p < LoopEnd(x)
    BY <1>1, <1>5, <1>8 DEF HeldThrough
<1>16. PointsKnown'
    <2> SUFFICES ASSUME NEW p \in Nat
                 PROVE  IsLiveAt(ranges', p) <=>
                          \E y \in Blocks : y > next' /\ (Part(y, 0, p)' \/ HeldThrough(y, p)')
        BY DEF PointsKnown, IsLiveAt
    <2>1. IsLiveAt(ranges', p) <=> \/ IsLiveAt(ranges, p) \/ Part(x, 0, p)
                                   \/ /\ IsLoopHeader(x) /\ (LiveAt(x, 0) \/ DefinedByPhi(x))
                                      /\ BlockStart(x) <= p /\ p < LoopEnd(x)
        BY <1>1, <1>3
    <2>2. IsLiveAt(ranges', p) <=> IsLiveAt(ranges, p) \/ Part(x, 0, p)' \/ HeldThrough(x, p)'
        BY <1>1, <1>10, <1>11, <1>15, <2>1
    <2>3. IsLiveAt(ranges, p) <=> \E y \in Blocks : y > x /\ (Part(y, 0, p) \/ HeldThrough(y, p))
        BY <1>2 DEF PointsKnown
    <2>4. IsLiveAt(ranges, p) <=> \E y \in Blocks : y > x /\ (Part(y, 0, p)' \/ HeldThrough(y, p)')
        BY <1>10, <1>11, <1>14, <2>3
    <2> QED
        BY <1>1, <1>11, <2>2, <2>4
<1> QED
    BY <1>4, <1>5, <1>7, <1>12, <1>13, <1>16 DEF IInv

LEMMA NextInv == IInv /\ [Next]_vars => IInv'
<1> SUFFICES ASSUME IInv, [Next]_vars
             PROVE  IInv'
    OBVIOUS
<1>1. CASE ProcessBlock
    BY <1>1, ProcessBlockKeepsInv
<1>2. CASE UNCHANGED vars
    <2>1. UNCHANGED program /\ next' = next /\ liveIn' = liveIn /\ ranges' = ranges
        BY <1>2 DEF vars
    <2>2. /\ ProgramOK /\ GraphOK /\ LiveInKnown /\ LiveBelowDefinition /\ PointsKnown
        BY DEF IInv, ProgramOK
    <2>3. /\ succs' = succs /\ def' = def /\ uses' = uses /\ phiUses' = phiUses /\ DefBlock' = DefBlock
          /\ \A y : DefinedByPhi(y)' = DefinedByPhi(y) /\ IsLoopHeader(y)' = IsLoopHeader(y)
          /\ \A y \in Blocks : /\ BlockStart(y)' = BlockStart(y) /\ BlockEnd(y)' = BlockEnd(y)
                               /\ LoopEnd(y)' = LoopEnd(y)
          /\ \A u \in uses : Position(u)' = Position(u)
          /\ DefPos' = DefPos
        <3>1. def[1] \in Blocks /\ \A u \in uses : u[1] \in Blocks
            BY <2>2, Definition, UsesOfValue DEF DefBlock
        <3>2. \A i : i[1] \in Blocks => Position(i)' = Position(i)
            BY <2>1, <2>2, SamePositions
        <3>3. /\ succs' = succs /\ def' = def /\ uses' = uses /\ phiUses' = phiUses /\ DefBlock' = DefBlock
              /\ \A y : DefinedByPhi(y)' = DefinedByPhi(y) /\ IsLoopHeader(y)' = IsLoopHeader(y)
            BY <2>1, SameBlocks
        <3>4. \A u \in uses : Position(u)' = Position(u)
            BY <3>1, <3>2
        <3>5. DefPos' = DefPos
            BY <3>1, <3>2, <3>3 DEF DefPos, Position
        <3> QED
            BY <2>1, <2>2, <3>3, <3>4, <3>5, SamePositions
    <2>4. ProgramOK'
        BY <2>1, <2>2, SameProgram
    <2>5. \A y \in Blocks : /\ OutAt(y)' <=> OutAt(y)
                            /\ LiveAt(y, 0)' <=> LiveAt(y, 0)
                            /\ \A p : HeldThrough(y, p)' <=> HeldThrough(y, p)
        BY <2>1, <2>3 DEF OutAt, LiveAt, UsedAfter, DefinedAfter, HeldThrough
    <2>6. \A y \in Blocks : \A p : Part(y, 0, p)' <=> Part(y, 0, p)
        <3>1. \A y \in Blocks : \A p : HeldFrom(y, 0, p)' <=> HeldFrom(y, 0, p)
            BY <2>3, <2>5 DEF HeldFrom
        <3> QED
            BY <2>3, <3>1 DEF Part, DefinedAfter
    <2>7. LiveInKnown'
        BY <2>1, <2>2, <2>5 DEF LiveInKnown
    <2>8. LiveBelowDefinition'
        BY <2>1, <2>2, <2>3 DEF LiveBelowDefinition, Dom
    <2>9. PointsKnown'
        BY <2>1, <2>2, <2>5, <2>6 DEF PointsKnown, IsLiveAt
    <2>10. Sorted(ranges)'
        BY <2>1 DEF IInv, Sorted, Apart
    <2> QED
        BY <2>1, <2>4, <2>7, <2>8, <2>9, <2>10 DEF IInv
<1> QED
    BY <1>1, <1>2 DEF Next, Done

\* What is known of the ranges and of the live sets, whichever block is next.
THEOREM InductiveInvariant == Spec => []IInv
<1> QED
    BY InitInv, NextInv, PTL DEF Spec

(***************************************************************************)
(* However AddRange merges and SetStart cuts, the ranges of an interval    *)
(* stay in order, not empty and apart: IsLiveAt and the allocator, which   *)
(* looks at the first start and the last end, may rely on it.              *)
(***************************************************************************)
THEOREM RangesStayApart == Spec => []RangesApart
<1>1. IInv => RangesApart
    BY DEF IInv, Sorted, RangesApart
<1> QED
    BY <1>1, InductiveInvariant, PTL

-----------------------------------------------------------------------------
(* The pass against liveness by paths. *)

\* Block y needs the value on entry, or is in a loop the value is kept through.
Served(y) ==
    \/ liveIn[y]
    \/ \E h \in Blocks : IsLoopHeader(h) /\ liveIn[h] /\ y \in LoopOf(h)

LEMMA ReachesUseIsClosed ==
    ASSUME ProgramOK
    PROVE  /\ \A u \in uses : u[1] # DefBlock => u[1] \in ReachesUse
           /\ \A e \in phiUses : e[1] # DefBlock => e[1] \in ReachesUse
           /\ \A x, s \in Blocks : s \in ReachesUse /\ s \in succs[x] /\ x # DefBlock => x \in ReachesUse
           /\ ReachesUse \subseteq Blocks \ {DefBlock}
<1> DEFINE P == [x \in Blocks |-> PredsIn(succs, x)]
           E == ({u[1] : u \in uses} \cup {e[1] : e \in phiUses}) \ {DefBlock}
           W == Blocks \ {DefBlock}
           R == ReachFrom(P, E, W)
<1>1. R = ReachesUse
    BY DEF ReachesUse
<1>2. E \subseteq R /\ R \subseteq E \cup W /\ \A x \in R : P[x] \cap W \subseteq R
    <2> HIDE DEF P, E, W
    <2> QED
        BY ReachFromIsClosed
<1>3. E \subseteq W
    BY UsesOfValue DEF ProgramOK
<1> HIDE DEF R
<1>4. \A x, s \in Blocks : s \in succs[x] => x \in P[s]
    BY Edges DEF ProgramOK
<1>5. \A x, s \in Blocks : s \in R /\ s \in succs[x] /\ x # DefBlock => x \in R
    BY <1>2, <1>4
<1>6. R \subseteq W
    BY <1>2, <1>3
<1> QED
    BY <1>1, <1>2, <1>5, <1>6

LEMMA ReachesUseIsServed ==
    ASSUME IInv, next = 0
    PROVE  \A y \in ReachesUse : Served(y)
<1> DEFINE P == [x \in Blocks |-> PredsIn(succs, x)]
           E == ({u[1] : u \in uses} \cup {e[1] : e \in phiUses}) \ {DefBlock}
           W == Blocks \ {DefBlock}
           C == {y \in Blocks : Served(y)}
<1>1. ProgramOK /\ GraphOK
    BY DEF IInv, ProgramOK
<1>2. \A x \in Blocks : liveIn[x] <=> x # DefBlock /\ (OutAt(x) \/ UsedAfter(x, 0))
    BY <1>1, Sizes, Definition DEF IInv, LiveInKnown, LiveAt
<1>3. E \subseteq C
    <2>1. ASSUME NEW u \in uses, u[1] # DefBlock
          PROVE  u[1] \in C
        <3>1. u[1] \in Blocks /\ u[2] > 0
            BY <1>1, UsesOfValue, Sizes
        <3>2. UsedAfter(u[1], 0)
            BY <3>1 DEF UsedAfter
        <3> QED
            BY <1>2, <2>1, <3>1, <3>2 DEF Served
    <2>2. ASSUME NEW e \in phiUses, e[1] # DefBlock
          PROVE  e[1] \in C
        <3>1. e[1] \in Blocks
            BY <1>1 DEF ProgramOK
        <3>2. OutAt(e[1])
            BY DEF OutAt
        <3> QED
            BY <1>2, <2>2, <3>1, <3>2 DEF Served
    <2> QED
        BY <2>1, <2>2
<1>4. ASSUME NEW y \in Blocks, Served(y), NEW p \in Blocks, y \in succs[p], p # DefBlock
      PROVE  Served(p)
    <2>1. CASE liveIn[y] /\ y > p
        <3>1. OutAt(p)
            BY <1>4, <2>1 DEF OutAt
        <3> QED
            BY <1>2, <1>4, <3>1 DEF Served
    <2>2. CASE liveIn[y] /\ y <= p
        <3>1. p \in LoopOf(y) /\ IsLoopHeader(y)
            BY <1>1, <1>4, <2>2, LoopBlocks
        <3> QED
            BY <2>2, <3>1 DEF Served
    <2>3. CASE ~liveIn[y]
        <3>1. PICK h \in Blocks : IsLoopHeader(h) /\ liveIn[h] /\ y \in LoopOf(h)
            BY <1>4, <2>3 DEF Served
        <3>2. p \in LoopOf(h)
            BY <1>1, <1>4, <2>3, <3>1, LoopBlocks
        <3> QED
            BY <3>1, <3>2 DEF Served
    <2> QED
        BY <2>1, <2>2, <2>3, Sizes
<1>5. ASSUME NEW y \in C
      PROVE  P[y] \cap W \subseteq C
    <2>1. \A p \in P[y] : p \in Blocks /\ y \in succs[p]
        BY <1>1, Edges
    <2> HIDE DEF P
    <2> QED
        BY <1>4, <2>1
<1>6. ReachFrom(P, E, W) \subseteq C
    <2> HIDE DEF P, E, W, C
    <2> QED
        BY <1>3, <1>5, ReachFromIsLeast
<1>7. ReachesUse = ReachFrom(P, E, W)
    BY DEF ReachesUse
<1> QED
    BY <1>6, <1>7

LEMMA LiveInReachesUse ==
    ASSUME IInv
    PROVE  \A x \in Blocks : liveIn[x] => x \in ReachesUse
<1> DEFINE T == {NumBlocks - x : x \in {y \in Blocks : liveIn[y] /\ y \notin ReachesUse}}
<1> SUFFICES ASSUME T # {}
             PROVE  FALSE
    OBVIOUS
<1>1. PICK n \in T : \A m \in T : n <= m
    <2>1. T \in SUBSET Nat
        BY Sizes
    <2> QED
        BY <2>1, LeastNumber
<1>2. PICK x \in Blocks : n = NumBlocks - x /\ liveIn[x] /\ x \notin ReachesUse
    BY <1>1
<1>3. ProgramOK /\ GraphOK /\ x # DefBlock /\ (OutAt(x) \/ UsedAfter(x, 0))
    BY <1>2, Definition DEF IInv, ProgramOK, LiveInKnown, LiveAt
<1>4. ~UsedAfter(x, 0) /\ ~ \E e \in phiUses : e[1] = x
    BY <1>2, <1>3, ReachesUseIsClosed DEF UsedAfter
<1>5. PICK s \in succs[x] : s > x /\ liveIn[s]
    BY <1>3, <1>4 DEF OutAt
<1>6. s \in Blocks /\ s \notin ReachesUse
    BY <1>2, <1>3, <1>5, Edges, ReachesUseIsClosed
<1>7. NumBlocks - s \in T
    BY <1>5, <1>6
<1>8. n <= NumBlocks - s
    BY <1>1, <1>7
<1> QED
    BY <1>2, <1>5, <1>6, <1>8, Sizes

LEMMA PointsAtLast ==
    ASSUME IInv, next = 0, NEW p \in Nat
    PROVE  IsLiveAt(ranges, p) <=> \E x \in Blocks : Part(x, 0, p) \/ HeldThrough(x, p)
<1>1. \A x \in Blocks : x > next
    BY Sizes
<1>2. IsLiveAt(ranges, p) <=> \E x \in Blocks : x > next /\ (Part(x, 0, p) \/ HeldThrough(x, p))
    BY DEF IInv, PointsKnown
<1> QED
    BY <1>1, <1>2

LEMMA LiveAfterIsHeld ==
    ASSUME IInv, next = 0, NEW i \in LiveAfter, NEW q \in Nat, Position(i) <= q, q <= Position(i) + 1
    PROVE  IsLiveAt(ranges, q)
<1> DEFINE y == i[1]
<1>1. ProgramOK /\ GraphOK
    BY DEF IInv, ProgramOK
<1>2. /\ i \in Slots
      /\ y = DefBlock => i[2] >= def[2]
      /\ \/ \E u \in uses : u[1] = y /\ u[2] > i[2]
         \/ succs[y] \cap ReachesUse # {}
         \/ \E e \in phiUses : e[1] = y
    BY DEF LiveAfter
<1>3. /\ y \in Blocks /\ i[2] \in Nat
      /\ Position(i) \in Nat /\ Position(i) = BlockStart(y) + 2 * (i[2] - 1)
      /\ BlockStart(y) \in Nat /\ BlockEnd(y) \in Nat
      /\ BlockStart(y) <= Position(i) /\ Position(i) + 1 < BlockEnd(y)
    BY <1>2, SlotsOfBlocks, Positions, Numbers
<1> HIDE DEF y
<1>4. BlockStart(y) <= q /\ q < BlockEnd(y)
    BY <1>3
<1>5. y = DefBlock => DefPos <= q
    BY <1>1, <1>2, <1>3, Definition
<1>6. HeldFrom(y, 0, q) => IsLiveAt(ranges, q)
    <2>1. DefinedAfter(y, 0) => y = DefBlock
        BY DEF DefinedAfter
    <2>2. HeldFrom(y, 0, q) => Part(y, 0, q)
        BY <1>5, <2>1 DEF Part
    <2> QED
        BY <1>3, <2>2, PointsAtLast
<1>7. CASE \E u \in uses : u[1] = y /\ u[2] > i[2]
    <2>1. PICK u \in uses : u[1] = y /\ u[2] > i[2]
        BY <1>7
    <2>2. u[2] \in Nat /\ u[2] > 0 /\ Position(u) = BlockStart(y) + 2 * (u[2] - 1)
        BY <1>1, <1>3, <2>1, UsesOfValue
    <2>3. q < Position(u)
        BY <1>3, <2>1, <2>2
    <2> QED
        BY <1>4, <1>6, <2>1, <2>2, <2>3 DEF HeldFrom
<1>8. CASE \E e \in phiUses : e[1] = y
    BY <1>4, <1>6, <1>8 DEF HeldFrom, OutAt
<1>9. CASE succs[y] \cap ReachesUse # {}
    <2>1. PICK s \in succs[y] : s \in ReachesUse
        BY <1>9
    <2>2. s \in Blocks /\ Served(s)
        BY <1>1, <1>3, <2>1, Edges, ReachesUseIsServed
    <2>3. CASE liveIn[s] /\ s > y
        BY <1>4, <1>6, <2>1, <2>3 DEF HeldFrom, OutAt
    <2>4. ASSUME NEW h \in Blocks, IsLoopHeader(h), liveIn[h], y \in LoopOf(h)
          PROVE  IsLiveAt(ranges, q)
        <3>1. h <= y
            BY <1>1, <2>4, LoopBlocks
        <3>2. BlockStart(h) <= BlockStart(y)
            BY <1>3, <3>1, StartsInOrder
        <3>3. BlockEnd(y) <= LoopEnd(h) /\ LoopEnd(h) \in Nat /\ BlockStart(h) \in Nat
            BY <1>1, <2>4, LoopEnds, Numbers
        <3>4. HeldThrough(h, q)
            BY <1>3, <1>4, <2>4, <3>2, <3>3 DEF HeldThrough
        <3> QED
            BY <3>4, PointsAtLast
    <2>5. CASE liveIn[s] /\ s <= y
        <3>1. y \in LoopOf(s) /\ IsLoopHeader(s)
            BY <1>1, <1>3, <2>1, <2>2, <2>5, LoopBlocks
        <3> QED
            BY <2>2, <2>4, <2>5, <3>1
    <2>6. CASE ~liveIn[s]
        <3>1. PICK h \in Blocks : IsLoopHeader(h) /\ liveIn[h] /\ s \in LoopOf(h)
            BY <2>2, <2>6 DEF Served
        <3>2. y \in LoopOf(h)
            BY <1>1, <1>3, <2>1, <2>2, <2>6, <3>1, LoopBlocks
        <3> QED
            BY <2>4, <3>1, <3>2
    <2> QED
        BY <1>3, <2>2, <2>3, <2>5, <2>6, Sizes
<1> QED
    BY <1>2, <1>7, <1>8, <1>9

LEMMA DefinitionIsHeld ==
    ASSUME IInv, next = 0
    PROVE  IsLiveAt(ranges, DefPos)
<1>1. ProgramOK /\ DefBlock \in Blocks /\ DefPos \in Nat /\ DefinedAfter(DefBlock, 0)
    BY Definition DEF IInv
<1>2. Part(DefBlock, 0, DefPos)
    BY <1>1 DEF Part
<1> QED
    BY <1>1, <1>2, PointsAtLast

LEMMA DefinedAt ==
    ASSUME ProgramOK
    PROVE  (IF IsPhi(def) THEN BlockStart(DefBlock) ELSE Position(def)) = DefPos
BY Definition DEF DefPos

(***************************************************************************)
(* What ProcessBlock promises the allocator: after the single backward     *)
(* pass the interval holds both positions of every instruction beyond      *)
(* which the value is still needed on some path, around any loops, and     *)
(* that of the definition itself.                                          *)
(***************************************************************************)
THEOREM PassCoversLiveness == Spec => []CoversLiveness
<1>1. IInv => CoversLiveness
    <2> SUFFICES ASSUME IInv, next = 0
                 PROVE  /\ \A i \in LiveAfter : IsLiveAt(ranges, Position(i)) /\ IsLiveAt(ranges, Position(i) + 1)
                        /\ IsLiveAt(ranges, IF IsPhi(def) THEN BlockStart(DefBlock) ELSE Position(def))
        BY DEF CoversLiveness
    <2>1. ASSUME NEW i \in LiveAfter
          PROVE  IsLiveAt(ranges, Position(i)) /\ IsLiveAt(ranges, Position(i) + 1)
        <3>1. Position(i) \in Nat
            <4>1. i \in Slots
                BY DEF LiveAfter
            <4> QED
                BY <4>1, Positions
        <3>2. Position(i) + 1 \in Nat /\ Position(i) <= Position(i) /\ Position(i) <= Position(i) + 1
            BY <3>1
        <3> QED
            BY <3>1, <3>2, LiveAfterIsHeld
    <2>2. IsLiveAt(ranges, IF IsPhi(def) THEN BlockStart(DefBlock) ELSE Position(def))
        BY DefinedAt, DefinitionIsHeld DEF IInv
    <2> QED
        BY <2>1, <2>2
<1> QED
    BY <1>1, InductiveInvariant, PTL

\* A point the interval holds is the definition's, or one at which the value is needed.
LEMMA HeldIsNeeded ==
    ASSUME IInv, next = 0, NEW i \in Slots, NEW q \in Nat, Position(i) <= q, q <= Position(i) + 1,
           IsLiveAt(ranges, q)
    PROVE  \/ i = def /\ q = Position(i)
           \/ i \in LiveAfter
           \/ \E h \in KeptThrough : BlockStart(h) <= Position(i) /\ Position(i) < LoopEnd(h)
<1> DEFINE y == i[1]
<1>1. ProgramOK /\ GraphOK
    BY DEF IInv, ProgramOK
<1>2. /\ y \in Blocks /\ i[2] \in Nat /\ i[2] >= 1 /\ i = <<y, i[2]>>
      /\ Position(i) \in Nat /\ Position(i) = BlockStart(y) + 2 * (i[2] - 1)
      /\ BlockStart(y) \in Nat /\ BlockEnd(y) \in Nat
      /\ BlockStart(y) <= Position(i) /\ Position(i) + 1 < BlockEnd(y)
    BY SlotsOfBlocks, Positions, Numbers
<1>3. i \in LiveAfter <=>
        /\ y = DefBlock => i[2] >= def[2]
        /\ \/ \E u \in uses : u[1] = y /\ u[2] > i[2]
           \/ succs[y] \cap ReachesUse # {}
           \/ \E e \in phiUses : e[1] = y
    BY DEF LiveAfter
<1> HIDE DEF y
<1>4. BlockStart(y) <= q /\ q < BlockEnd(y)
    BY <1>2
<1>5. PICK x \in Blocks : Part(x, 0, q) \/ HeldThrough(x, q)
    BY PointsAtLast
<1>6. /\ DefBlock \in Blocks /\ def = <<DefBlock, def[2]>> /\ def[2] \in Nat /\ def[2] >= 1
      /\ DefPos \in Nat /\ DefPos = BlockStart(DefBlock) + 2 * (def[2] - 1)
      /\ BlockStart(DefBlock) <= DefPos /\ DefPos < BlockEnd(DefBlock)
      /\ DefinedAfter(x, 0) <=> x = DefBlock
    <2>1. BlockEnd(DefBlock) \in Nat
        BY <1>1, Definition, Numbers
    <2> QED
        BY <1>1, <2>1, Definition
<1>7. CASE HeldThrough(x, q)
    <2>1. x \in KeptThrough
        <3>1. liveIn[x] => x # DefBlock /\ x \in ReachesUse
            BY LiveInReachesUse DEF IInv, LiveBelowDefinition
        <3> QED
            BY <1>7, <3>1 DEF HeldThrough, KeptThrough
    <2>2. BlockStart(x) <= q /\ q < LoopEnd(x) /\ LoopEnd(x) \in Nat /\ BlockStart(x) \in Nat
        BY <1>1, <1>7, LoopEnds, Numbers DEF HeldThrough
    <2>3. BlockStart(x) <= BlockStart(y)
        <3>1. ~(y < x)
            BY <1>2, <1>4, <2>2, Numbers
        <3>2. x <= y
            BY <1>2, <3>1, Sizes
        <3> QED
            BY <1>2, <3>2, StartsInOrder
    <2> QED
        BY <1>2, <2>1, <2>2, <2>3
<1>8. CASE HeldFrom(x, 0, q) /\ (x = DefBlock => DefPos <= q)
    <2>1. x = y
        <3>1. BlockStart(x) <= q /\ q < BlockEnd(x)
            <4>1. \A u \in uses : u[1] = x /\ q < Position(u) => q < BlockEnd(x)
                BY <1>1, UsesOfValue, Numbers
            <4> QED
                BY <1>8, <4>1 DEF HeldFrom
        <3> QED
            BY <1>2, <1>4, <3>1, OneBlock
    <2>2. y = DefBlock => i[2] >= def[2]
        BY <1>2, <1>6, <1>8, <2>1
    <2>3. CASE \E u \in uses : u[1] = y /\ q < Position(u)
        <3>1. PICK u \in uses : u[1] = y /\ q < Position(u)
            BY <2>3
        <3>2. u[2] \in Nat /\ Position(u) = BlockStart(y) + 2 * (u[2] - 1)
            BY <1>1, <3>1, UsesOfValue
        <3>3. u[2] > i[2]
            BY <1>2, <3>1, <3>2
        <3> QED
            BY <1>3, <2>2, <3>1, <3>3
    <2>4. CASE OutAt(y)
        <3>1. CASE \E e \in phiUses : e[1] = y
            BY <1>3, <2>2, <3>1
        <3>2. CASE \E s \in succs[y] : liveIn[s]
            <4>1. PICK s \in succs[y] : liveIn[s]
                BY <3>2
            <4>2. s \in Blocks
                BY <1>1, <1>2, Edges
            <4>3. s \in ReachesUse
                BY <4>1, <4>2, LiveInReachesUse
            <4> QED
                BY <1>3, <2>2, <4>3
        <3> QED
            BY <2>4, <3>1, <3>2 DEF OutAt
    <2> QED
        BY <1>8, <2>1, <2>3, <2>4 DEF HeldFrom
<1>9. CASE x = DefBlock /\ q = DefPos
    <2>1. x = y
        BY <1>2, <1>4, <1>6, <1>9, OneBlock
    <2>2. i[2] = def[2] /\ q = Position(i)
        BY <1>2, <1>6, <1>9, <2>1
    <2> QED
        BY <1>2, <1>6, <1>9, <2>1, <2>2
<1> QED
    BY <1>5, <1>6, <1>7, <1>8, <1>9 DEF Part

(***************************************************************************)
(* The interval is no longer than it has to be: an instruction in it is    *)
(* the definition, or one beyond which the value is needed, or one of a    *)
(* loop through which the value is kept.                                   *)
(***************************************************************************)
THEOREM IntervalHoldsNothingElse == Spec => []HoldsNothingElse
<1>1. IInv => HoldsNothingElse
    <2> SUFFICES ASSUME IInv, next = 0
                 PROVE  HoldsNothingElse
        BY DEF HoldsNothingElse
    <2> DEFINE kept == {<<BlockStart(h), LoopEnd(h)>> : h \in KeptThrough}
               Needed(i) == i \in LiveAfter \/ \E k \in kept : k[1] <= Position(i) /\ Position(i) < k[2]
    <2>1. ASSUME NEW i \in Slots
          PROVE  (\E h \in KeptThrough : BlockStart(h) <= Position(i) /\ Position(i) < LoopEnd(h)) => Needed(i)
        <3> SUFFICES ASSUME NEW h \in KeptThrough, BlockStart(h) <= Position(i), Position(i) < LoopEnd(h)
                     PROVE  \E k \in kept : k[1] <= Position(i) /\ Position(i) < k[2]
            OBVIOUS
        <3>1. <<BlockStart(h), LoopEnd(h)>> \in kept
            OBVIOUS
        <3> QED
            BY <3>1
    <2>2. ASSUME NEW i \in Slots
          PROVE  /\ IsLiveAt(ranges, Position(i)) => i = def \/ Needed(i)
                 /\ IsLiveAt(ranges, Position(i) + 1) => Needed(i)
        <3>1. Position(i) \in Nat /\ Position(i) + 1 \in Nat /\ Position(i) + 1 # Position(i)
              /\ Position(i) <= Position(i) /\ Position(i) <= Position(i) + 1
            BY Positions
        <3>2. IsLiveAt(ranges, Position(i)) => i = def \/ Needed(i)
            <4> HIDE DEF Needed
            <4>1. i \in LiveAfter => Needed(i)
                BY DEF Needed
            <4> QED
                BY <2>1, <3>1, <4>1, HeldIsNeeded
        <3>3. IsLiveAt(ranges, Position(i) + 1) => Needed(i)
            <4> HIDE DEF Needed
            <4>1. i \in LiveAfter => Needed(i)
                BY DEF Needed
            <4> QED
                BY <2>1, <3>1, <4>1, HeldIsNeeded
        <3> QED
            BY <3>2, <3>3
    <2> QED
        BY <2>2 DEF HoldsNothingElse
<1> QED
    BY <1>1, InductiveInvariant, PTL

(***************************************************************************)
(* SetStart has the last word: the interval starts at the definition, and  *)
(* the value is not live on entry to the graph.                            *)
(***************************************************************************)
THEOREM IntervalStartsAtDefinition == Spec => []StartsAtDefinition
<1>1. IInv => StartsAtDefinition
    <2> SUFFICES ASSUME IInv, next = 0
                 PROVE  ~liveIn[1] /\ ranges[1].start = DefPos
        BY DefinedAt DEF StartsAtDefinition, IInv
    <2>1. ProgramOK /\ GraphOK /\ 1 \in Blocks /\ DefBlock \in Blocks /\ DefPos \in Nat
        BY Definition, Edges DEF IInv, ProgramOK
    <2>2. ~liveIn[1]
        BY <2>1, DominanceByEdges DEF IInv, LiveBelowDefinition
    <2>3. IsLiveAt(ranges, DefPos) /\ Sorted(ranges)
        BY DefinitionIsHeld DEF IInv
    <2>4. ranges # <<>>
        BY <2>1, <2>3, NoRanges
    <2>5. /\ ranges[1].start \in Nat /\ IsLiveAt(ranges, ranges[1].start)
          /\ ranges[1].start <= DefPos
        BY <2>1, <2>3, <2>4, FirstRange
    <2>6. PICK x \in Blocks : Part(x, 0, ranges[1].start) \/ HeldThrough(x, ranges[1].start)
        BY <2>5, PointsAtLast
    <2>7. DefPos < BlockEnd(DefBlock) /\ BlockEnd(DefBlock) \in Nat /\ (DefinedAfter(x, 0) <=> x = DefBlock)
        BY <2>1, Definition, Numbers
    <2>8. DefPos <= ranges[1].start
        <3>1. CASE x = DefBlock /\ Part(x, 0, ranges[1].start)
            BY <2>1, <2>7, <3>1 DEF Part
        <3>2. CASE x # DefBlock
            <4>1. DefBlock <= x
                <5>1. CASE HeldThrough(x, ranges[1].start)
                    <6>1. liveIn[x]
                        BY <3>2, <5>1 DEF HeldThrough, DefinedByPhi
                    <6> QED
                        BY <2>1, <6>1, DominatorsComeFirst DEF IInv, LiveBelowDefinition
                <5>2. CASE Part(x, 0, ranges[1].start)
                    <6>1. OutAt(x) \/ UsedAfter(x, 0)
                        BY <2>7, <3>2, <5>2 DEF Part, HeldFrom, UsedAfter
                    <6> QED
                        BY <2>1, <6>1, NeededBelowDefinition DEF IInv
                <5> QED
                    BY <2>6, <5>1, <5>2
            <4>2. BlockEnd(DefBlock) <= BlockStart(x) /\ BlockStart(x) \in Nat
                <5>1. DefBlock < x
                    BY <2>1, <3>2, <4>1, Sizes
                <5> QED
                    BY <2>1, <5>1, Numbers
            <4>3. BlockStart(x) <= ranges[1].start
                BY <2>6, <2>7, <3>2 DEF Part, HeldFrom, HeldThrough
            <4> QED
                BY <2>1, <2>5, <2>7, <4>2, <4>3
        <3>3. CASE x = DefBlock /\ HeldThrough(x, ranges[1].start)
            <4>1. DefinedByPhi(x) /\ BlockStart(x) <= ranges[1].start
                BY <3>3 DEF HeldThrough, IInv, LiveBelowDefinition
            <4> QED
                BY <2>1, <3>3, <4>1, Definition DEF DefinedByPhi
        <3> QED
            BY <2>6, <3>1, <3>2, <3>3
    <2> QED
        BY <2>1, <2>2, <2>5, <2>8
<1> QED
    BY <1>1, InductiveInvariant, PTL

=============================================================================
