----------------------- MODULE RegisterAllocatorProofs -----------------------
(***************************************************************************)
(* The vectors of RegisterAllocator implement the sets of LinearScan, for  *)
(* any number of intervals and registers, so that what is proved of the    *)
(* sets holds of the vectors.                                              *)
(***************************************************************************)
EXTENDS RegisterAllocator, FiniteSetTheorems, SequenceTheorems, WellFoundedInduction, TLAPS

ScanProofs == INSTANCE LinearScanProofs WITH pending <- Pending, active <- Range(active)

N == Cardinality(Intervals)

LEMMA IntervalsAreNumbers == N \in Nat /\ Intervals = 1 .. N
BY IntervalsAssumption, InstructionsAssumption, FS_CardinalityType DEF N

LEMMA LeastNumber ==
    ASSUME NEW T \in SUBSET Nat, T # {}
    PROVE  \E n \in T : \A m \in T : n <= m
<1>1. PICK n \in T : \A m \in T : ~ <<m, n>> \in OpToRel(<, Nat)
    BY NatLessThanWellFounded, WFMin
<1>2. \A m \in T : ~ (m < n)
    BY <1>1 DEF OpToRel
<1> QED
    BY <1>2

-----------------------------------------------------------------------------
(* Vectors. *)

HullsOK ==
    /\ start \in [Intervals -> Positions]
    /\ end \in [Intervals -> Positions]

LEMMA HullsAreNumbers ==
    ASSUME HullsOK
    PROVE  \A i \in Intervals : start[i] \in Nat /\ end[i] \in Nat
<1>1. \A p \in Positions : p \in Nat
    BY PositionsAssumption
<1> QED
    BY <1>1 DEF HullsOK

ByEnd(s) ==
    /\ \A j, k \in 1 .. Len(s) : j <= k => end[s[j]] <= end[s[k]]
    /\ \A j, k \in 1 .. Len(s) : s[j] = s[k] => j = k

LEMMA AppendedByEnd ==
    ASSUME HullsOK, NEW s \in Seq(Intervals), ByEnd(s), NEW x \in Intervals,
           \A k \in 1 .. Len(s) : s[k] # x /\ end[s[k]] <= end[x]
    PROVE  Append(s, x) \in Seq(Intervals) /\ ByEnd(Append(s, x))
<1>1. /\ Append(s, x) \in Seq(Intervals)
      /\ Len(Append(s, x)) = Len(s) + 1 /\ Len(s) \in Nat
      /\ \A k \in 1 .. Len(s) : Append(s, x)[k] = s[k] /\ s[k] \in Intervals
      /\ Append(s, x)[Len(s) + 1] = x
    BY AppendProperties, LenProperties, ElementOfSeq
<1>2. \A k \in 1 .. Len(s) + 1 : k \in 1 .. Len(s) \/ k = Len(s) + 1
    BY <1>1
<1> DEFINE t == Append(s, x)
<1> HIDE DEF t
<1>3. \A j, k \in 1 .. Len(s) + 1 : j <= k => end[t[j]] <= end[t[k]]
    <2> SUFFICES ASSUME NEW j \in 1 .. Len(s) + 1, NEW k \in 1 .. Len(s) + 1, j <= k
                 PROVE  end[t[j]] <= end[t[k]]
        OBVIOUS
    <2>1. CASE k \in 1 .. Len(s)
        <3>1. j \in 1 .. Len(s)
            BY <1>1, <2>1
        <3> QED
            BY <1>1, <2>1, <3>1 DEF ByEnd, t
    <2>2. CASE j \in 1 .. Len(s) /\ k = Len(s) + 1
        BY <1>1, <2>2 DEF t
    <2>3. CASE j = Len(s) + 1 /\ k = Len(s) + 1
        BY <1>1, <2>3, HullsAreNumbers DEF t
    <2> QED
        BY <1>1, <1>2, <2>1, <2>2, <2>3
<1>4. \A j, k \in 1 .. Len(s) + 1 : t[j] = t[k] => j = k
    BY <1>1, <1>2 DEF ByEnd, t
<1> QED
    BY <1>1, <1>3, <1>4 DEF ByEnd, t

\* std::lower_bound of a sorted vector.
LowerBound(s, c) == 1 + Cardinality({k \in DOMAIN s : end[s[k]] < end[c]})

LEMMA LowerBoundSplits ==
    ASSUME HullsOK, NEW s \in Seq(Intervals), ByEnd(s), NEW c \in Intervals
    PROVE  /\ LowerBound(s, c) \in 1 .. Len(s) + 1
           /\ \A k \in 1 .. Len(s) : k < LowerBound(s, c) <=> end[s[k]] < end[c]
<1> DEFINE K == {k \in DOMAIN s : end[s[k]] < end[c]}
           T == {k \in 1 .. Len(s) + 1 : k \notin K}
<1>1. /\ Len(s) \in Nat /\ DOMAIN s = 1 .. Len(s)
      /\ \A k \in 1 .. Len(s) : s[k] \in Intervals
    BY LenProperties, ElementOfSeq
<1>2. \A k \in 1 .. Len(s) : end[s[k]] \in Nat /\ end[c] \in Nat
    BY <1>1, HullsAreNumbers
<1>3. PICK p \in T : \A m \in T : p <= m
    <2>1. T \in SUBSET Nat /\ Len(s) + 1 \in T
        BY <1>1
    <2> QED
        BY <2>1, LeastNumber
<1>4. K = 1 .. p - 1
    <2>1. \A k \in 1 .. p - 1 : k \in K
        BY <1>1, <1>3
    <2>2. \A k \in K : k < p
        <3> SUFFICES ASSUME NEW k \in K, p <= k
                     PROVE  FALSE
            BY <1>1, <1>3
        <3>1. p \in 1 .. Len(s) /\ end[s[p]] <= end[s[k]]
            BY <1>1, <1>3 DEF ByEnd
        <3> QED
            BY <1>1, <1>2, <1>3, <3>1
    <2> QED
        BY <1>1, <1>3, <2>1, <2>2
<1>5. Cardinality(K) = p - 1
    <2>1. p \in Nat /\ p >= 1 /\ p - 1 \in Int
        BY <1>1, <1>3
    <2>2. Cardinality(1 .. p - 1) = IF 1 > p - 1 THEN 0 ELSE (p - 1) - 1 + 1
        BY <2>1, FS_Interval
    <2>3. (IF 1 > p - 1 THEN 0 ELSE (p - 1) - 1 + 1) = p - 1
        BY <2>1
    <2> HIDE DEF K
    <2> QED
        BY <1>4, <2>2, <2>3
<1>6. LowerBound(s, c) = p
    BY <1>1, <1>3, <1>5 DEF LowerBound
<1> QED
    BY <1>1, <1>3, <1>4, <1>6

LEMMA InsertedByEnd ==
    ASSUME HullsOK, NEW s \in Seq(Intervals), ByEnd(s), NEW c \in Intervals, c \notin Range(s)
    PROVE  /\ SortedInsert(s, c) \in Seq(Intervals) /\ ByEnd(SortedInsert(s, c))
           /\ Range(SortedInsert(s, c)) = Range(s) \cup {c}
<1> DEFINE p == LowerBound(s, c)
           t == SortedInsert(s, c)
<1>1. /\ Len(s) \in Nat /\ DOMAIN s = 1 .. Len(s)
      /\ \A k \in 1 .. Len(s) : s[k] \in Intervals /\ s[k] # c
      /\ \A k \in 1 .. Len(s) : end[s[k]] \in Nat /\ end[c] \in Nat
    BY LenProperties, ElementOfSeq, HullsAreNumbers DEF Range
<1>2. /\ p \in 1 .. Len(s) + 1
      /\ \A k \in 1 .. Len(s) : k < p <=> end[s[k]] < end[c]
    BY LowerBoundSplits
<1>3. t = SubSeq(s, 1, p - 1) \o <<c>> \o SubSeq(s, p, Len(s))
    BY DEF SortedInsert, InsertAt, LowerBound
<1> HIDE DEF p, t
<1>4. /\ SubSeq(s, 1, p - 1) \in Seq(Intervals) /\ Len(SubSeq(s, 1, p - 1)) = p - 1
      /\ \A k \in 1 .. p - 1 : SubSeq(s, 1, p - 1)[k] = s[k]
    <2>1. p - 1 \in Int /\ \A k \in 1 .. p - 1 : k \in 1 .. Len(s)
        BY <1>1, <1>2
    <2> QED
        BY <1>1, <1>2, <2>1, SubSeqProperties
<1>5. /\ SubSeq(s, p, Len(s)) \in Seq(Intervals) /\ Len(SubSeq(s, p, Len(s))) = Len(s) - p + 1
      /\ \A k \in 1 .. Len(s) - p + 1 : SubSeq(s, p, Len(s))[k] = s[p + k - 1]
    <2>1. p \in Int /\ Len(s) \in Int /\ \A k \in p .. Len(s) : s[k] \in Intervals
        BY <1>1, <1>2
    <2>2. SubSeq(s, p, Len(s)) \in Seq(Intervals)
        BY <2>1, SubSeqProperties
    <2>3. Len(SubSeq(s, p, Len(s))) = IF p <= Len(s) THEN Len(s) - p + 1 ELSE 0
        BY <2>1, SubSeqProperties
    <2>4. \A k \in 1 .. Len(s) - p + 1 : SubSeq(s, p, Len(s))[k] = s[p + k - 1]
        BY <2>1, SubSeqProperties
    <2> QED
        BY <1>1, <1>2, <2>2, <2>3, <2>4
<1>6. /\ t \in Seq(Intervals) /\ Len(t) = Len(s) + 1
      /\ \A k \in 1 .. Len(s) + 1 :
            t[k] = IF k < p THEN s[k] ELSE IF k = p THEN c ELSE s[k - 1]
    <2> DEFINE u == SubSeq(s, 1, p - 1)
               v == SubSeq(s, p, Len(s))
               w == u \o <<c>>
    <2>1. <<c>> \in Seq(Intervals) /\ Len(<<c>>) = 1 /\ <<c>>[1] = c
        OBVIOUS
    <2>2. /\ u \in Seq(Intervals) /\ Len(u) = p - 1
          /\ v \in Seq(Intervals) /\ Len(v) = Len(s) - p + 1
          /\ \A k \in 1 .. p - 1 : u[k] = s[k]
          /\ \A k \in 1 .. Len(s) - p + 1 : v[k] = s[p + k - 1]
        BY <1>4, <1>5
    <2>3. t = w \o v
        BY <1>3
    <2> HIDE DEF u, v
    <2>4. /\ w \in Seq(Intervals) /\ Len(w) = p
          /\ \A k \in 1 .. p : w[k] = IF k <= p - 1 THEN u[k] ELSE <<c>>[k - (p - 1)]
        <3>1. /\ w \in Seq(Intervals) /\ Len(w) = Len(u) + 1
              /\ \A k \in 1 .. Len(u) + 1 : w[k] = IF k <= Len(u) THEN u[k] ELSE <<c>>[k - Len(u)]
            BY <2>1, <2>2, ConcatProperties
        <3> QED
            BY <1>1, <1>2, <2>2, <3>1
    <2> HIDE DEF w
    <2>5. /\ t \in Seq(Intervals) /\ Len(t) = Len(w) + Len(v)
          /\ \A k \in 1 .. Len(w) + Len(v) : t[k] = IF k <= Len(w) THEN w[k] ELSE v[k - Len(w)]
        BY <2>2, <2>3, <2>4, ConcatProperties
    <2>6. Len(w) + Len(v) = Len(s) + 1
        BY <1>1, <1>2, <2>2, <2>4
    <2>7. ASSUME NEW k \in 1 .. Len(s) + 1
          PROVE  t[k] = IF k < p THEN s[k] ELSE IF k = p THEN c ELSE s[k - 1]
        <3>1. CASE k < p
            <4>1. k \in 1 .. p - 1 /\ k <= p /\ k <= p - 1 /\ k \in 1 .. p
                BY <1>1, <1>2, <3>1
            <4> QED
                BY <2>2, <2>4, <2>5, <2>6, <3>1, <4>1
        <3>2. CASE k = p
            <4>1. p \in 1 .. p /\ ~(p <= p - 1) /\ p - (p - 1) = 1 /\ p <= p
                BY <1>1, <1>2
            <4>2. w[p] = c
                BY <2>1, <2>4, <4>1
            <4> QED
                BY <2>4, <2>5, <2>6, <3>2, <4>1, <4>2
        <3>3. CASE k > p
            <4>1. k - p \in 1 .. Len(s) - p + 1 /\ ~(k <= p) /\ p + (k - p) - 1 = k - 1
                BY <1>1, <1>2, <3>3
            <4>2. v[k - p] = s[k - 1]
                BY <2>2, <4>1
            <4>3. t[k] = v[k - p]
                BY <2>4, <2>5, <2>6, <4>1
            <4> QED
                BY <1>1, <1>2, <3>3, <4>2, <4>3
        <3> QED
            BY <1>1, <1>2, <3>1, <3>2, <3>3
    <2> QED
        BY <2>5, <2>6, <2>7
<1>7. ByEnd(t)
    <2>0. \A k \in 1 .. Len(s) + 1 : t[k] \in Intervals /\ end[t[k]] \in Nat
        BY <1>6, ElementOfSeq, HullsAreNumbers
    <2>1. \A j, k \in 1 .. Len(t) : j <= k => end[t[j]] <= end[t[k]]
        <3> SUFFICES ASSUME NEW j \in 1 .. Len(s) + 1, NEW k \in 1 .. Len(s) + 1, j < k
                     PROVE  end[t[j]] <= end[t[k]]
            BY <1>1, <1>6, <2>0
        <3>1. CASE k < p
            <4>1. /\ j \in 1 .. Len(s) /\ k \in 1 .. Len(s) /\ j <= k /\ j < p
                BY <1>1, <1>2, <3>1
            <4>2. t[j] = s[j] /\ t[k] = s[k]
                BY <1>6, <3>1, <4>1
            <4> QED
                BY <4>1, <4>2 DEF ByEnd
        <3>2. CASE k = p
            BY <1>1, <1>2, <1>6, <3>2
        <3>3. CASE j < p /\ k > p
            <4>1. /\ j \in 1 .. Len(s) /\ k - 1 \in 1 .. Len(s) /\ j <= k - 1
                  /\ ~(k < p) /\ k # p
                BY <1>1, <1>2, <3>3
            <4>2. t[j] = s[j] /\ t[k] = s[k - 1]
                BY <1>6, <3>3, <4>1
            <4> QED
                BY <4>1, <4>2 DEF ByEnd
        <3>4. CASE j = p /\ k > p
            BY <1>1, <1>2, <1>6, <3>4
        <3>5. CASE j > p
            <4>1. /\ j - 1 \in 1 .. Len(s) /\ k - 1 \in 1 .. Len(s) /\ j - 1 <= k - 1
                  /\ ~(j < p) /\ j # p /\ ~(k < p) /\ k # p
                BY <1>1, <1>2, <3>5
            <4>2. t[j] = s[j - 1] /\ t[k] = s[k - 1]
                BY <1>6, <4>1
            <4> QED
                BY <4>1, <4>2 DEF ByEnd
        <3> QED
            BY <1>2, <3>1, <3>2, <3>3, <3>4, <3>5
    <2>2. \A j, k \in 1 .. Len(t) : t[j] = t[k] => j = k
        <3> SUFFICES ASSUME NEW j \in 1 .. Len(s) + 1, NEW k \in 1 .. Len(s) + 1, j < k
                     PROVE  t[j] # t[k]
            BY <1>1, <1>6
        <3>1. CASE j = p
            BY <1>1, <1>2, <1>6, <3>1
        <3>2. CASE k = p
            BY <1>1, <1>2, <1>6, <3>2
        <3>3. CASE j # p /\ k # p
            BY <1>1, <1>2, <1>6, <3>3 DEF ByEnd
        <3> QED
            BY <3>1, <3>2, <3>3
    <2> QED
        BY <2>1, <2>2 DEF ByEnd
<1>8. Range(t) = Range(s) \cup {c}
    <2>1. DOMAIN t = 1 .. Len(s) + 1
        BY <1>6, LenProperties
    <2>2. ASSUME NEW k \in 1 .. Len(s)
          PROVE  \E m \in 1 .. Len(s) + 1 : t[m] = s[k]
        <3>1. CASE k < p
            BY <1>1, <1>2, <1>6, <3>1
        <3>2. CASE k >= p
            <4>1. k + 1 \in 1 .. Len(s) + 1 /\ k + 1 > p /\ (k + 1) - 1 = k
                BY <1>1, <1>2, <3>2
            <4>2. t[k + 1] = s[k]
                BY <1>1, <1>2, <1>6, <4>1
            <4> QED
                BY <4>1, <4>2
        <3> QED
            BY <1>1, <1>2, <3>1, <3>2
    <2>3. t[p] = c /\ p \in 1 .. Len(s) + 1
        BY <1>2, <1>6
    <2>4. ASSUME NEW m \in 1 .. Len(s) + 1, t[m] # c
          PROVE  \E k \in 1 .. Len(s) : t[m] = s[k]
        <3>1. CASE m < p
            <4>1. m \in 1 .. Len(s) /\ t[m] = s[m]
                BY <1>1, <1>2, <1>6, <3>1
            <4> QED
                BY <4>1
        <3>2. CASE m > p
            <4>1. m - 1 \in 1 .. Len(s) /\ t[m] = s[m - 1]
                BY <1>1, <1>2, <1>6, <3>2
            <4> QED
                BY <4>1
        <3> QED
            BY <1>1, <1>2, <1>6, <2>4, <3>1, <3>2
    <2>5. Range(t) \subseteq Range(s) \cup {c}
        BY <1>1, <2>1, <2>4 DEF Range
    <2>6. Range(s) \cup {c} \subseteq Range(t)
        BY <1>1, <2>1, <2>2, <2>3 DEF Range
    <2> QED
        BY <2>5, <2>6
<1> QED
    BY <1>6, <1>7, <1>8 DEF t

LEMMA FrontByEnd ==
    ASSUME NEW s \in Seq(Intervals), ByEnd(s), s # <<>>
    PROVE  /\ Front(s) \in Seq(Intervals) /\ ByEnd(Front(s))
           /\ Range(Front(s)) = Range(s) \ {Last(s)}
           /\ Last(s) \in Range(s) /\ Last(s) \in Intervals
           /\ \A x \in Range(s) : end[x] <= end[Last(s)]
<1>1. /\ Len(s) \in Nat \ {0} /\ DOMAIN s = 1 .. Len(s)
      /\ \A k \in 1 .. Len(s) : s[k] \in Intervals
    BY EmptySeq, LenProperties, ElementOfSeq
<1>2. /\ Front(s) \in Seq(Intervals) /\ Len(Front(s)) = Len(s) - 1
      /\ \A k \in 1 .. Len(s) - 1 : Front(s)[k] = s[k]
    <2>1. Len(s) - 1 \in Int /\ 1 \in Int /\ \A k \in 1 .. Len(s) - 1 : s[k] \in Intervals
        BY <1>1
    <2>2. /\ SubSeq(s, 1, Len(s) - 1) \in Seq(Intervals)
          /\ Len(SubSeq(s, 1, Len(s) - 1)) = IF 1 <= Len(s) - 1 THEN Len(s) - 1 - 1 + 1 ELSE 0
          /\ \A k \in 1 .. Len(s) - 1 - 1 + 1 : SubSeq(s, 1, Len(s) - 1)[k] = s[1 + k - 1]
        BY <2>1, SubSeqProperties
    <2> QED
        BY <1>1, <2>2 DEF Front
<1>3. DOMAIN Front(s) = 1 .. Len(s) - 1
    BY <1>2, LenProperties
<1>4. ByEnd(Front(s))
    <2>1. \A k \in 1 .. Len(Front(s)) : k \in 1 .. Len(s) /\ Front(s)[k] = s[k]
        BY <1>1, <1>2
    <2> QED
        BY <2>1 DEF ByEnd
<1>5. \A k \in 1 .. Len(s) : k \in 1 .. Len(s) - 1 \/ k = Len(s)
    <2>1. \A n \in Nat : \A k \in 1 .. n : k \in 1 .. n - 1 \/ k = n
        OBVIOUS
    <2> QED
        BY <1>1, <2>1
<1>6. \A k \in 1 .. Len(s) - 1 : k \in 1 .. Len(s) /\ s[k] # s[Len(s)]
    BY <1>1 DEF ByEnd
<1>7. Range(Front(s)) = Range(s) \ {Last(s)}
    BY <1>1, <1>2, <1>3, <1>5, <1>6 DEF Range, Last
<1>8. \A x \in Range(s) : end[x] <= end[Last(s)]
    <2>1. \A k \in 1 .. Len(s) : end[s[k]] <= end[s[Len(s)]]
        BY <1>1 DEF ByEnd
    <2> QED
        BY <1>1, <2>1 DEF Range, Last
<1>9. Last(s) \in Range(s) /\ Last(s) \in Intervals
    <2>1. Len(s) \in 1 .. Len(s)
        BY <1>1
    <2> QED
        BY <1>1, <2>1 DEF Range, Last
<1> QED
    BY <1>2, <1>4, <1>7, <1>8, <1>9

\* As many in the vector as in the set.
LEMMA SizeOfVector ==
    ASSUME NEW s \in Seq(Intervals), ByEnd(s)
    PROVE  Cardinality(Range(s)) = Len(s) /\ IsFiniteSet(Range(s)) /\ Len(s) \in Nat
<1>1. Len(s) \in Nat /\ DOMAIN s = 1 .. Len(s) /\ s \in [1 .. Len(s) -> Intervals]
    BY LenProperties
<1>2. s \in Surjection(1 .. Len(s), Range(s)) /\ s \in Injection(1 .. Len(s), Range(s))
    BY <1>1 DEF Surjection, Injection, IsInjective, Range, ByEnd
<1>3. IsFiniteSet(1 .. Len(s)) /\ Cardinality(1 .. Len(s)) = Len(s)
    BY <1>1, FS_Interval
<1> QED
    BY <1>1, <1>2, <1>3, FS_Surjection

-----------------------------------------------------------------------------
(* ExpireOldIntervals. *)

Keeps(k) == end[active[k]] >= start[current]

\* One round of its loop.
Round(k, before) == IF Keeps(k) THEN Append(before, active[k]) ELSE before

IsExpiry(f, n) == f = [k \in 0 .. n |-> IF k = 0 THEN <<>> ELSE Round(k, f[k - 1])]

LEMMA ExpiryExists ==
    ASSUME Len(active) \in Nat
    PROVE  \E f : IsExpiry(f, Len(active))
<1> DEFINE T == {n \in 0 .. Len(active) : \A f : ~IsExpiry(f, n)}
<1>1. SUFFICES ASSUME T # {}
               PROVE  FALSE
    OBVIOUS
<1>2. PICK n \in T : \A m \in T : n <= m
    <2>1. T \in SUBSET Nat
        OBVIOUS
    <2> QED
        BY <1>1, <2>1, LeastNumber
<1>3. CASE n = 0
    <2> DEFINE g == [k \in 0 .. 0 |-> <<>>]
    <2>1. \A k \in 0 .. 0 : k = 0
        OBVIOUS
    <2>2. g = [k \in 0 .. 0 |-> IF k = 0 THEN <<>> ELSE Round(k, g[k - 1])]
        BY <2>1
    <2>3. IsExpiry(g, n)
        BY <1>3, <2>2 DEF IsExpiry
    <2> QED
        BY <1>2, <2>3
<1>4. CASE n # 0
    <2>1. n \in Nat /\ n > 0 /\ n - 1 \in 0 .. Len(active) /\ n - 1 < n
        BY <1>2, <1>4
    <2>2. PICK f : IsExpiry(f, n - 1)
        BY <1>2, <2>1
    <2>3. \A k \in 0 .. n - 1 : f[k] = IF k = 0 THEN <<>> ELSE Round(k, f[k - 1])
        BY <2>2 DEF IsExpiry
    <2> DEFINE g == [k \in 0 .. n |-> IF k = n THEN Round(n, f[n - 1]) ELSE f[k]]
    <2>4. \A k \in 0 .. n : /\ k = n \/ k \in 0 .. n - 1
                            /\ k # 0 => k - 1 \in 0 .. n - 1 /\ k - 1 \in 0 .. n /\ k - 1 # n
        BY <2>1
    <2>5. ASSUME NEW k \in 0 .. n
          PROVE  g[k] = IF k = 0 THEN <<>> ELSE Round(k, g[k - 1])
        <3>1. k # 0 => g[k - 1] = f[k - 1]
            BY <2>4
        <3>2. CASE k = n
            BY <1>4, <3>1, <3>2
        <3>3. CASE k # n
            BY <2>3, <2>4, <3>1, <3>3
        <3> QED
            BY <3>2, <3>3
    <2>6. g = [k \in 0 .. n |-> g[k]]
        OBVIOUS
    <2> HIDE DEF g
    <2>7. IsExpiry(g, n)
        BY <2>5, <2>6 DEF IsExpiry
    <2> QED
        BY <1>2, <2>7
<1> QED
    BY <1>3, <1>4

LEMMA ExpiryIsLoop ==
    ASSUME Len(active) \in Nat
    PROVE  \E f : /\ StillActive = f[Len(active)]
                  /\ f[0] = <<>>
                  /\ \A k \in 1 .. Len(active) : f[k] = Round(k, f[k - 1])
<1> DEFINE f == CHOOSE g : g = [k \in 0 .. Len(active) |-> IF k = 0 THEN <<>> ELSE Round(k, g[k - 1])]
<1>1. f = [k \in 0 .. Len(active) |-> IF k = 0 THEN <<>> ELSE Round(k, f[k - 1])]
    BY ExpiryExists DEF IsExpiry
<1>2. StillActive = f[Len(active)]
    BY DEF StillActive, Round, Keeps
<1> HIDE DEF f
<1>3. 0 \in 0 .. Len(active) /\ \A k \in 1 .. Len(active) : k \in 0 .. Len(active) /\ k # 0
    OBVIOUS
<1>4. f[0] = <<>> /\ \A k \in 1 .. Len(active) : f[k] = Round(k, f[k - 1])
    BY <1>1, <1>3
<1> QED
    BY <1>2, <1>4

LEMMA StillActiveByEnd ==
    ASSUME HullsOK, active \in Seq(Intervals), ByEnd(active)
    PROVE  /\ StillActive \in Seq(Intervals) /\ ByEnd(StillActive)
           /\ Range(StillActive) = {a \in Range(active) : end[a] >= start[current]}
<1>1. /\ Len(active) \in Nat /\ DOMAIN active = 1 .. Len(active)
      /\ \A k \in 1 .. Len(active) : active[k] \in Intervals
    BY LenProperties, ElementOfSeq
<1>2. PICK f : /\ StillActive = f[Len(active)]
               /\ f[0] = <<>>
               /\ \A k \in 1 .. Len(active) : f[k] = Round(k, f[k - 1])
    BY <1>1, ExpiryIsLoop
<1> DEFINE Kept(k) == {active[j] : j \in {i \in 1 .. k : Keeps(i)}}
           Right(k) == f[k] \in Seq(Intervals) /\ ByEnd(f[k]) /\ Range(f[k]) = Kept(k)
           T == {k \in 0 .. Len(active) : ~Right(k)}
<1>3. \A k \in 0 .. Len(active) : Right(k)
    <2> SUFFICES ASSUME T # {}
                 PROVE  FALSE
        OBVIOUS
    <2>1. PICK n \in T : \A m \in T : n <= m
        <3>1. T \in SUBSET Nat
            BY <1>1
        <3> QED
            BY <3>1, LeastNumber
    <2>2. Right(0)
        <3>1. <<>> \in Seq(Intervals) /\ Len(<<>>) = 0
            BY EmptySeq
        <3>2. Range(<<>>) = {}
            BY DEF Range
        <3>3. Kept(0) = {}
            OBVIOUS
        <3> QED
            BY <1>2, <3>1, <3>2, <3>3 DEF ByEnd
    <2>3. n \in 1 .. Len(active) /\ n - 1 \in 0 .. Len(active) /\ n - 1 < n /\ n \in Nat
        <3>1. n # 0 /\ n \in 0 .. Len(active)
            BY <2>1, <2>2
        <3> QED
            BY <1>1, <3>1
    <2>4. Right(n - 1)
        <3>1. ~(n <= n - 1)
            BY <2>3
        <3>2. n - 1 \notin T
            <4> HIDE DEF T
            <4> QED
                BY <2>1, <3>1
        <3> QED
            BY <2>3, <3>2
    <2>5. f[n] = Round(n, f[n - 1]) /\ active[n] \in Intervals
        BY <1>1, <1>2, <2>3
    <2>6. \A j \in 1 .. n : j \in 1 .. n - 1 \/ j = n
        BY <2>3
    <2>7. n \in 1 .. n /\ \A j \in 1 .. n - 1 : j \in 1 .. n /\ j \in 1 .. Len(active) /\ j < n
        BY <1>1, <2>3
    <2>8. CASE ~Keeps(n)
        <3>1. Kept(n) = Kept(n - 1)
            BY <2>6, <2>7, <2>8
        <3> QED
            BY <2>1, <2>4, <2>5, <2>8, <3>1 DEF Round
    <2>9. CASE Keeps(n)
        <3> DEFINE s == f[n - 1]
        <3>1. s \in Seq(Intervals) /\ ByEnd(s) /\ Range(s) = Kept(n - 1)
            BY <2>4
        <3>2. Kept(n) = Kept(n - 1) \cup {active[n]}
            BY <2>6, <2>7, <2>9
        <3>3. f[n] = Append(s, active[n])
            BY <2>5, <2>9 DEF Round
        <3> HIDE DEF s
        <3>4. Len(s) \in Nat /\ DOMAIN s = 1 .. Len(s)
            BY <3>1, LenProperties
        <3>5. \A k \in 1 .. Len(s) : s[k] # active[n] /\ end[s[k]] <= end[active[n]]
            <4> SUFFICES ASSUME NEW k \in 1 .. Len(s)
                         PROVE  s[k] # active[n] /\ end[s[k]] <= end[active[n]]
                OBVIOUS
            <4>1. s[k] \in Kept(n - 1)
                BY <3>1, <3>4 DEF Range
            <4>2. PICK j \in 1 .. n - 1 : s[k] = active[j]
                BY <4>1
            <4> QED
                BY <1>1, <2>3, <2>7, <4>2 DEF ByEnd
        <3>6. f[n] \in Seq(Intervals) /\ ByEnd(f[n])
            BY <2>5, <3>1, <3>3, <3>5, AppendedByEnd
        <3>7. Range(f[n]) = Range(s) \cup {active[n]}
            <4>1. /\ Append(s, active[n]) \in Seq(Intervals)
                  /\ Len(Append(s, active[n])) = Len(s) + 1
                  /\ \A i \in 1 .. Len(s) : Append(s, active[n])[i] = s[i]
                  /\ Append(s, active[n])[Len(s) + 1] = active[n]
                BY <2>5, <3>1, AppendProperties
            <4> DEFINE t == Append(s, active[n])
            <4>2. DOMAIN t = 1 .. Len(s) + 1
                BY <4>1, LenProperties
            <4>3. /\ \A i \in 1 .. Len(s) + 1 : i \in 1 .. Len(s) \/ i = Len(s) + 1
                  /\ \A i \in 1 .. Len(s) : i \in 1 .. Len(s) + 1
                  /\ Len(s) + 1 \in 1 .. Len(s) + 1
                BY <3>4
            <4> HIDE DEF t
            <4>4. Range(t) = Range(s) \cup {active[n]}
                <5>1. Range(t) \subseteq Range(s) \cup {active[n]}
                    BY <3>4, <4>1, <4>2, <4>3 DEF Range, t
                <5>2. Range(s) \cup {active[n]} \subseteq Range(t)
                    BY <3>4, <4>1, <4>2, <4>3 DEF Range, t
                <5> QED
                    BY <5>1, <5>2
            <4> QED
                BY <3>3, <4>4 DEF t
        <3> QED
            BY <2>1, <3>1, <3>2, <3>6, <3>7
    <2> QED
        BY <2>8, <2>9
<1>4. Len(active) \in 0 .. Len(active)
    BY <1>1
<1>5. Kept(Len(active)) = {a \in Range(active) : end[a] >= start[current]}
    BY <1>1 DEF Keeps, Range
<1> QED
    BY <1>2, <1>3, <1>4, <1>5

-----------------------------------------------------------------------------
(* The loop. *)

TypeOK ==
    /\ HullsOK
    /\ intervals \in [Intervals -> Intervals]
    /\ next \in Nat
    /\ active \in Seq(Intervals)
    /\ next # 0 => NumRegs # 0

\* intervals_ has every interval once, and is sorted when the loop runs.
Arranged ==
    /\ \A j, k \in Intervals : intervals[j] = intervals[k] => j = k
    /\ \A i \in Intervals : \E k \in Intervals : intervals[k] = i
    /\ next # 0 => \A j, k \in Intervals : j <= k => start[intervals[j]] <= start[intervals[k]]

IInv == TypeOK /\ Arranged /\ ByEnd(active) /\ ScanProofs!IInv

LEMMA LengthOfArrangement ==
    ASSUME NEW f \in [Intervals -> Intervals]
    PROVE  1 .. Len(f) = Intervals /\ Len(f) = N
<1>1. f \in [1 .. N -> Intervals] /\ N \in Nat
    BY IntervalsAreNumbers
<1>2. Len(f) = N
    BY <1>1
<1> QED
    BY <1>2, IntervalsAreNumbers

LEMMA NumRegsNat == NumRegs \in Nat
BY RegistersAssumption DEF NumRegs, NumReservedRegs

LEMMA SameCounting ==
    /\ \A S : Scan!Cardinality(S) = Cardinality(S) /\ ScanProofs!Cardinality(S) = Cardinality(S)
    /\ ScanProofs!IsFiniteSet(Intervals)
<1>1. ScanProofs!IsFiniteSet(Intervals)
    BY IntervalsAssumption DEF ScanProofs!IsFiniteSet, IsFiniteSet
<1>2. \A S : Scan!Cardinality(S) = Cardinality(S)
    BY DEF Scan!Cardinality, Cardinality
<1>3. \A S : ScanProofs!Cardinality(S) = Cardinality(S)
    BY DEF ScanProofs!Cardinality, Cardinality
<1> QED
    BY <1>1, <1>2, <1>3

\* The two instances of LinearScan say the same.
LEMMA SameScan ==
    /\ Scan!NumRegs = NumRegs /\ ScanProofs!NumRegs = NumRegs
    /\ \A r : Scan!Register(r) = Register(r) /\ ScanProofs!Register(r) = Register(r)
    /\ Scan!NextSlot = NextSlot /\ ScanProofs!NextSlot = NextSlot
    /\ \A i : Scan!InRegister(i) <=> location[i].kind = "REGISTER"
    /\ \A i : ScanProofs!InRegister(i) <=> location[i].kind = "REGISTER"
    /\ ScanProofs!Registers = 0 .. (NumRegs - 1)
BY DEF Scan!NumRegs, ScanProofs!NumRegs, NumRegs, Scan!NumReservedRegs, ScanProofs!NumReservedRegs,
       NumReservedRegs, Scan!Register, ScanProofs!Register, Register, Scan!NextSlot, ScanProofs!NextSlot,
       NextSlot, Scan!Stack, ScanProofs!Stack, Stack, Scan!InRegister, ScanProofs!InRegister,
       ScanProofs!Registers

LEMMA SameInit == Scan!Init <=> ScanProofs!Init
BY SameScan DEF Scan!Init, ScanProofs!Init, Scan!InitialFree, ScanProofs!InitialFree, Scan!Registers,
       ScanProofs!Registers, Scan!Unassigned, ScanProofs!Unassigned

LEMMA SameExpiry ==
    ASSUME NEW c
    PROVE  /\ Scan!StillActive(c) = ScanProofs!StillActive(c)
           /\ Scan!FreeAfterExpire(c) = ScanProofs!FreeAfterExpire(c)
           /\ Scan!MustSpill(c) <=> ScanProofs!MustSpill(c)
           /\ Scan!Backs(c) = ScanProofs!Backs(c)
           /\ Scan!IsCurrent(c) <=> ScanProofs!IsCurrent(c)
<1>1. Scan!StillActive(c) = ScanProofs!StillActive(c)
    BY DEF Scan!StillActive, ScanProofs!StillActive
<1>2. Scan!FreeAfterExpire(c) = ScanProofs!FreeAfterExpire(c)
    BY <1>1, SameScan DEF Scan!FreeAfterExpire, ScanProofs!FreeAfterExpire
<1>3. Scan!MustSpill(c) <=> ScanProofs!MustSpill(c)
    <2>1. Scan!Cardinality(Scan!StillActive(c)) = ScanProofs!Cardinality(ScanProofs!StillActive(c))
        BY <1>1, SameCounting
    <2> QED
        BY <1>2, <2>1, SameScan DEF Scan!MustSpill, ScanProofs!MustSpill
<1>4. Scan!Backs(c) = ScanProofs!Backs(c)
    BY <1>1 DEF Scan!Backs, ScanProofs!Backs
<1>5. Scan!IsCurrent(c) <=> ScanProofs!IsCurrent(c)
    BY SameScan DEF Scan!IsCurrent, ScanProofs!IsCurrent
<1> QED
    BY <1>1, <1>2, <1>3, <1>4, <1>5

LEMMA SameStep == [Scan!Next]_Scan!vars <=> [ScanProofs!Next]_ScanProofs!vars
<1>1. \A c : Scan!AllocateRegister(c) <=> ScanProofs!AllocateRegister(c)
    BY SameScan, SameExpiry DEF Scan!AllocateRegister, ScanProofs!AllocateRegister
<1>2. \A c : Scan!SpillBack(c) <=> ScanProofs!SpillBack(c)
    BY SameScan, SameExpiry DEF Scan!SpillBack, ScanProofs!SpillBack
<1>3. \A c : Scan!SpillCurrent(c) <=> ScanProofs!SpillCurrent(c)
    BY SameScan, SameExpiry DEF Scan!SpillCurrent, ScanProofs!SpillCurrent
<1>4. Scan!Finish <=> ScanProofs!Finish
    BY SameScan DEF Scan!Finish, ScanProofs!Finish, Scan!Finished, ScanProofs!Finished, Scan!vars, ScanProofs!vars
<1> QED
    BY <1>1, <1>2, <1>3, <1>4 DEF Scan!Next, ScanProofs!Next, Scan!vars, ScanProofs!vars

LEMMA ScanKeepsItsInvariant ==
    /\ Scan!Init => ScanProofs!IInv
    /\ ScanProofs!IInv /\ [Scan!Next]_Scan!vars => ScanProofs!IInv'
<1>1. Scan!Init => ScanProofs!IInv
    BY SameCounting, SameInit, ScanProofs!InitIInv, ScanProofs!IntervalsAssumption, ScanProofs!RegistersAssumption,
       ScanProofs!PositionsAssumption
<1>2. ScanProofs!IInv /\ [Scan!Next]_Scan!vars => ScanProofs!IInv'
    BY SameCounting, SameStep, ScanProofs!NextIInv, ScanProofs!IntervalsAssumption, ScanProofs!RegistersAssumption,
       ScanProofs!PositionsAssumption
<1> QED
    BY <1>1, <1>2

LEMMA CurrentIsNext ==
    ASSUME TypeOK, Arranged, Looping
    PROVE  /\ current \in Pending /\ current \in Intervals
           /\ \A i \in Pending : start[current] <= start[i]
           /\ {intervals[k] : k \in {j \in Intervals : j >= next + 1}} = Pending \ {current}
<1>1. next \in Intervals /\ next \in Nat /\ next # 0 /\ \A k \in Intervals : k \in Nat
    BY LengthOfArrangement, IntervalsAreNumbers DEF TypeOK, Looping
<1>2. current \in Pending /\ current \in Intervals
    BY <1>1 DEF TypeOK, Pending, current
<1>3. \A i \in Pending : start[current] <= start[i]
    BY <1>1 DEF Arranged, Pending, current
<1>4. \A j \in Intervals : j >= next + 1 <=> j >= next /\ j # next
    BY <1>1
<1>5. {intervals[k] : k \in {j \in Intervals : j >= next + 1}} = Pending \ {current}
    BY <1>1, <1>4 DEF Arranged, Pending, current
<1> QED
    BY <1>2, <1>3, <1>5

\* The intervals of the vectors are those of the sets.
LEMMA ScanSeesExpiry ==
    ASSUME IInv, Looping
    PROVE  /\ Scan!StillActive(current) = Range(StillActive)
           /\ Scan!FreeAfterExpire(current) = FreeAfterExpire
           /\ Scan!MustSpill(current) <=> MustSpill
           /\ Scan!IsCurrent(current)
<1>1. /\ StillActive \in Seq(Intervals) /\ ByEnd(StillActive)
      /\ Range(StillActive) = {a \in Range(active) : end[a] >= start[current]}
    BY StillActiveByEnd DEF IInv, TypeOK
<1>2. Scan!StillActive(current) = Range(StillActive)
    BY <1>1 DEF Scan!StillActive
<1>3. Scan!FreeAfterExpire(current) = FreeAfterExpire
    BY <1>2, SameScan DEF Scan!FreeAfterExpire, FreeAfterExpire, Expired
<1>4. Scan!MustSpill(current) <=> MustSpill
    <2>1. Scan!Cardinality(Scan!StillActive(current)) = Len(StillActive)
        BY <1>1, <1>2, SizeOfVector, SameCounting
    <2> QED
        BY <1>3, <2>1, SameScan DEF Scan!MustSpill, MustSpill
<1>5. Scan!IsCurrent(current)
    <2>1. next # 0
        BY DEF Looping
    <2>2. NumRegs # 0
        BY <2>1 DEF IInv, TypeOK
    <2> QED
        BY <2>2, CurrentIsNext, SameScan DEF Scan!IsCurrent, IInv
<1> QED
    BY <1>2, <1>3, <1>4, <1>5

\* What an iteration finds once the old intervals have expired.
LEMMA AfterExpiry ==
    ASSUME IInv, Looping
    PROVE  /\ FreeAfterExpire \in SUBSET Nat
           /\ current \notin Range(StillActive)
           /\ MustSpill => StillActive # <<>>
<1>1. /\ ScanProofs!StillActive(current) = Range(StillActive)
      /\ ScanProofs!FreeAfterExpire(current) = FreeAfterExpire
      /\ ScanProofs!IsCurrent(current)
    BY ScanSeesExpiry, SameExpiry
<1>2. current \in Intervals /\ current \in Pending
    BY CurrentIsNext DEF IInv
<1>3. /\ ScanProofs!StillActive(current) \subseteq Range(active)
      /\ ScanProofs!FreeAfterExpire(current) \subseteq ScanProofs!Registers
      /\ \A r \in ScanProofs!Registers \ ScanProofs!FreeAfterExpire(current) :
            \E a \in ScanProofs!StillActive(current) : location[a].value = r
    BY <1>1, <1>2, SameCounting, ScanProofs!ExpireKeeps, ScanProofs!IntervalsAssumption,
       ScanProofs!RegistersAssumption, ScanProofs!PositionsAssumption DEF IInv
<1>4. FreeAfterExpire \in SUBSET Nat
    BY <1>1, <1>3, SameScan, NumRegsNat
<1>5. current \notin Range(StillActive)
    BY <1>1, <1>2, <1>3 DEF IInv, ScanProofs!IInv, ScanProofs!PendingUntouched
<1>6. NumRegs # 0
    BY DEF IInv, TypeOK, Looping
<1>7. ASSUME MustSpill, StillActive = <<>>
      PROVE  FALSE
    <2>1. Len(StillActive) = 0 /\ Range(StillActive) = {}
        BY <1>7 DEF Range
    <2>2. FreeAfterExpire = {}
        BY <1>6, <1>7, <2>1 DEF MustSpill
    <2>3. 0 \in ScanProofs!Registers
        BY <1>6, NumRegsNat, SameScan
    <2> QED
        BY <1>1, <1>3, <2>1, <2>2, <2>3
<1> QED
    BY <1>4, <1>5, <1>7

\* An iteration goes on to the next interval, whatever it does with its own.
Iteration == UNCHANGED <<start, end, intervals>> /\ next' = next + 1

LEMMA IterationKeeps ==
    ASSUME IInv, Looping, Iteration
    PROVE  /\ HullsOK' /\ Arranged'
           /\ intervals' \in [Intervals -> Intervals] /\ next' \in Nat /\ NumRegs # 0
           /\ Pending' = Pending \ {current}
<1>1. next \in Nat /\ next # 0 /\ NumRegs # 0
    BY DEF IInv, TypeOK, Looping
<1>2. HullsOK' /\ intervals' \in [Intervals -> Intervals] /\ next' \in Nat
    BY <1>1 DEF IInv, TypeOK, HullsOK, Iteration
<1>3. Arranged'
    BY <1>1 DEF IInv, Arranged, Iteration
<1>4. Pending' = Pending \ {current}
    <2>1. Pending' = {intervals[k] : k \in {j \in Intervals : j >= next + 1}}
        BY DEF Pending, Iteration
    <2> QED
        BY <2>1, CurrentIsNext DEF IInv
<1> QED
    BY <1>1, <1>2, <1>3, <1>4

LEMMA AllocateStep ==
    ASSUME IInv, AllocateRegister
    PROVE  /\ TypeOK' /\ Arranged' /\ ByEnd(active)'
           /\ Scan!AllocateRegister(current)
<1>1. /\ Looping /\ ~MustSpill /\ Iteration
      /\ active' = SortedInsert(StillActive, current)
      /\ UNCHANGED stackOffset
    BY DEF AllocateRegister, Iteration
<1>2. PICK r \in FreeAfterExpire :
        /\ \A p \in FreeAfterExpire : r <= p
        /\ location' = [location EXCEPT ![current] = Register(r)]
        /\ free' = FreeAfterExpire \ {r}
    <2> DEFINE r == CHOOSE q \in FreeAfterExpire : \A p \in FreeAfterExpire : q <= p
    <2>1. FreeAfterExpire # {}
        BY <1>1 DEF MustSpill
    <2>2. \E q \in FreeAfterExpire : \A p \in FreeAfterExpire : q <= p
        BY <1>1, <2>1, AfterExpiry, LeastNumber
    <2>3. r \in FreeAfterExpire /\ \A p \in FreeAfterExpire : r <= p
        BY <2>2
    <2>4. /\ location' = [location EXCEPT ![current] = Register(r)]
          /\ free' = FreeAfterExpire \ {r}
        BY DEF AllocateRegister
    <2> HIDE DEF r
    <2> QED
        BY <2>3, <2>4
<1>3. StillActive \in Seq(Intervals) /\ ByEnd(StillActive)
    BY StillActiveByEnd DEF IInv, TypeOK
<1>4. current \in Intervals
    BY <1>1, CurrentIsNext DEF IInv
<1>5. /\ active' \in Seq(Intervals) /\ ByEnd(active')
      /\ Range(active') = Range(StillActive) \cup {current}
    BY <1>1, <1>3, <1>4, AfterExpiry, InsertedByEnd DEF IInv, TypeOK
<1>6. ByEnd(active)'
    BY <1>1, <1>5 DEF ByEnd, Iteration
<1>7. TypeOK' /\ Arranged'
    BY <1>1, <1>5, IterationKeeps DEF TypeOK
<1>8. Scan!AllocateRegister(current)
    <2>1. /\ Range(active') = Scan!StillActive(current) \cup {current}
          /\ Pending' = Pending \ {current}
          /\ UNCHANGED <<start, end, stackOffset>>
        BY <1>1, <1>5, IterationKeeps, ScanSeesExpiry DEF Iteration
    <2>2. /\ Scan!IsCurrent(current) /\ ~Scan!MustSpill(current)
          /\ Scan!FreeAfterExpire(current) = FreeAfterExpire
        BY <1>1, ScanSeesExpiry
    <2>3. location' = [location EXCEPT ![current] = Scan!Register(r)]
        BY <1>2, SameScan
    <2> QED
        BY <1>2, <2>1, <2>2, <2>3 DEF Scan!AllocateRegister
<1> QED
    BY <1>6, <1>7, <1>8

LEMMA SpillStep ==
    ASSUME IInv, SpillAtInterval
    PROVE  /\ TypeOK' /\ Arranged' /\ ByEnd(active)'
           /\ Scan!SpillBack(current) \/ Scan!SpillCurrent(current)
<1> DEFINE spill == Last(StillActive)
<1>1. /\ Looping /\ MustSpill /\ Iteration
      /\ stackOffset' = stackOffset + 8
      /\ free' = FreeAfterExpire
    BY DEF SpillAtInterval, Iteration
<1>2. /\ StillActive \in Seq(Intervals) /\ ByEnd(StillActive) /\ StillActive # <<>>
      /\ current \notin Range(StillActive)
    BY <1>1, AfterExpiry, StillActiveByEnd DEF IInv, TypeOK
<1>3. current \in Intervals
    BY <1>1, CurrentIsNext DEF IInv
<1>4. /\ Front(StillActive) \in Seq(Intervals) /\ ByEnd(Front(StillActive))
      /\ Range(Front(StillActive)) = Range(StillActive) \ {spill}
      /\ spill \in Range(StillActive)
      /\ \A x \in Range(StillActive) : end[x] <= end[spill]
    BY <1>2, FrontByEnd
<1>5. spill \in Scan!Backs(current)
    BY <1>1, <1>4, ScanSeesExpiry DEF Scan!Backs
<1>6. /\ Scan!IsCurrent(current) /\ Scan!MustSpill(current)
      /\ free' = Scan!FreeAfterExpire(current)
      /\ Pending' = Pending \ {current}
      /\ UNCHANGED <<start, end>>
    BY <1>1, IterationKeeps, ScanSeesExpiry DEF Iteration
<1> HIDE DEF spill
<1>7. CASE /\ end[spill] > end[current]
           /\ location' = [location EXCEPT ![current] = location[spill], ![spill] = NextSlot]
           /\ active' = SortedInsert(Front(StillActive), current)
    <2>1. /\ active' \in Seq(Intervals) /\ ByEnd(active')
          /\ Range(active') = (Range(StillActive) \ {spill}) \cup {current}
        BY <1>2, <1>3, <1>4, <1>7, InsertedByEnd DEF IInv, TypeOK
    <2>2. ByEnd(active)'
        BY <1>1, <2>1 DEF ByEnd, Iteration
    <2>3. TypeOK' /\ Arranged'
        BY <1>1, <2>1, IterationKeeps DEF TypeOK
    <2>4. /\ Range(active') = (Scan!StillActive(current) \ {spill}) \cup {current}
          /\ location' = [location EXCEPT ![current] = location[spill], ![spill] = Scan!NextSlot]
        BY <1>1, <1>7, <2>1, ScanSeesExpiry, SameScan
    <2>5. Scan!SpillBack(current)
        BY <1>1, <1>5, <1>6, <1>7, <2>4 DEF Scan!SpillBack
    <2> QED
        BY <2>2, <2>3, <2>5
<1>8. CASE /\ end[spill] <= end[current]
           /\ location' = [location EXCEPT ![current] = NextSlot]
           /\ active' = StillActive
    <2>1. ByEnd(active)'
        BY <1>1, <1>2, <1>8 DEF ByEnd, Iteration
    <2>2. TypeOK' /\ Arranged'
        BY <1>1, <1>2, <1>8, IterationKeeps DEF TypeOK
    <2>3. /\ Range(active') = Scan!StillActive(current)
          /\ location' = [location EXCEPT ![current] = Scan!NextSlot]
        BY <1>1, <1>8, ScanSeesExpiry, SameScan
    <2>4. Scan!SpillCurrent(current)
        BY <1>1, <1>5, <1>6, <1>8, <2>3 DEF Scan!SpillCurrent
    <2> QED
        BY <2>1, <2>2, <2>4
<1> QED
    BY <1>7, <1>8 DEF SpillAtInterval, spill

-----------------------------------------------------------------------------
(* The sort. *)

\* Sorted at each pair of neighbours is sorted.
LEMMA NeighboursSorted ==
    ASSUME HullsOK, NEW s \in [Intervals -> Intervals], SortedByStart(s)
    PROVE  \A j, k \in Intervals : j <= k => start[s[j]] <= start[s[k]]
<1>1. N \in Nat /\ Intervals = 1 .. N /\ Len(s) = N
    BY IntervalsAreNumbers, LengthOfArrangement
<1>2. \A k \in Intervals : k \in Nat /\ start[s[k]] \in Nat
    BY <1>1, HullsAreNumbers
<1> SUFFICES ASSUME NEW j \in Intervals
             PROVE  \A k \in Intervals : j <= k => start[s[j]] <= start[s[k]]
    OBVIOUS
<1> DEFINE T == {k \in Intervals : j <= k /\ ~(start[s[j]] <= start[s[k]])}
<1> SUFFICES ASSUME T # {}
             PROVE  FALSE
    OBVIOUS
<1>3. PICK k \in T : \A m \in T : k <= m
    <2>1. T \in SUBSET Nat
        BY <1>2
    <2> QED
        BY <2>1, LeastNumber
<1>4. k \in 1 .. N /\ j \in 1 .. N /\ j <= k /\ j # k
    BY <1>1, <1>2, <1>3
<1>5. k - 1 \in 1 .. (N - 1) /\ k - 1 \in 1 .. N /\ j <= k - 1 /\ (k - 1) + 1 = k /\ ~(k <= k - 1)
    BY <1>1, <1>4
<1>6. k - 1 \notin T
    <2> HIDE DEF T
    <2> QED
        BY <1>3, <1>5
<1>7. start[s[j]] <= start[s[k - 1]]
    BY <1>1, <1>5, <1>6
<1>8. start[s[k - 1]] <= start[s[k]]
    BY <1>1, <1>5 DEF SortedByStart
<1>9. ~(start[s[j]] <= start[s[k]])
    BY <1>3
<1>10. start[s[j]] \in Nat /\ start[s[k - 1]] \in Nat /\ start[s[k]] \in Nat
    BY <1>1, <1>2, <1>4, <1>5
<1> QED
    BY <1>7, <1>8, <1>9, <1>10

LEMMA SortStep ==
    ASSUME IInv, Sort
    PROVE  TypeOK' /\ Arranged' /\ ByEnd(active)' /\ UNCHANGED Scan!vars
<1> DEFINE s == intervals'
<1>1. /\ s \in SetToSeqs(Intervals) /\ SortedByStart(s)
      /\ next = 0 /\ next' = 1 /\ NumRegs # 0
      /\ UNCHANGED <<start, end, active, free, location, stackOffset>>
    BY DEF Sort
<1>2. N \in Nat /\ Intervals = 1 .. N /\ Cardinality(Intervals) = N
    BY IntervalsAreNumbers DEF N
<1>3. s \in [Intervals -> Intervals] /\ \A i, j \in Intervals : i # j => s[i] # s[j]
    BY <1>1, <1>2 DEF SetToSeqs
<1> HIDE DEF s
<1>4. \A i \in Intervals : \E k \in Intervals : s[k] = i
    <2>1. s \in Injection(Intervals, Intervals)
        BY <1>3 DEF Injection, IsInjective
    <2>2. s \in Surjection(Intervals, Intervals)
        BY <2>1, IntervalsAssumption, FS_Injection
    <2> QED
        BY <2>2 DEF Surjection
<1>5. \A j, k \in Intervals : j <= k => start[s[j]] <= start[s[k]]
    BY <1>1, <1>3, NeighboursSorted DEF IInv, TypeOK
<1>6. TypeOK'
    BY <1>1, <1>3 DEF IInv, TypeOK, HullsOK, s
<1>7. Arranged'
    BY <1>1, <1>3, <1>4, <1>5 DEF Arranged, s
<1>8. ByEnd(active)'
    BY <1>1 DEF IInv, ByEnd
<1>9. Pending = Intervals
    <2>1. \A j \in Intervals : j >= next
        BY <1>1, <1>2
    <2> QED
        BY <2>1 DEF IInv, TypeOK, Arranged, Pending
<1>10. Pending' = Intervals
    <2>1. \A j \in Intervals : j >= next'
        BY <1>1, <1>2
    <2>2. Pending' = {s[k] : k \in {j \in Intervals : j >= next'}}
        BY DEF Pending, s
    <2> QED
        BY <1>3, <1>4, <2>1, <2>2
<1> QED
    BY <1>1, <1>6, <1>7, <1>8, <1>9, <1>10 DEF Scan!vars

-----------------------------------------------------------------------------

LEMMA InitInv == Init => IInv /\ Scan!Init
<1> SUFFICES ASSUME Init
             PROVE  IInv /\ Scan!Init
    OBVIOUS
<1>1. N \in Nat /\ Intervals = 1 .. N
    BY IntervalsAreNumbers
<1>2. active = <<>> /\ active \in Seq(Intervals) /\ Len(active) = 0 /\ Range(active) = {}
    BY EmptySeq DEF Init, Range
<1>3. TypeOK /\ Arranged
    BY <1>2 DEF Init, TypeOK, HullsOK, Arranged
<1>4. ByEnd(active)
    BY <1>2 DEF ByEnd
<1>5. Pending = Intervals
    BY <1>1 DEF Init, Pending
<1>6. Scan!Init
    BY <1>2, <1>5, SameScan DEF Init, Scan!Init, Scan!InitialFree, InitialFree, Scan!Registers,
       Scan!Unassigned, Unassigned
<1> QED
    BY <1>3, <1>4, <1>6, ScanKeepsItsInvariant DEF IInv

LEMMA NextInv == IInv /\ [Next]_vars => IInv' /\ [Scan!Next]_Scan!vars
<1> SUFFICES ASSUME IInv, [Next]_vars
             PROVE  IInv' /\ [Scan!Next]_Scan!vars
    OBVIOUS
<1>1. CASE UNCHANGED vars
    <2>1. TypeOK' /\ Arranged' /\ ByEnd(active)'
        BY <1>1 DEF vars, IInv, TypeOK, HullsOK, Arranged, ByEnd
    <2>2. UNCHANGED Scan!vars
        BY <1>1 DEF vars, Scan!vars, Pending
    <2> QED
        BY <2>1, <2>2, ScanKeepsItsInvariant DEF IInv
<1>2. CASE Sort
    BY <1>2, SortStep, ScanKeepsItsInvariant DEF IInv
<1>3. CASE AllocateRegister
    <2>1. current \in Intervals
        BY <1>3, CurrentIsNext DEF IInv, AllocateRegister
    <2>2. [Scan!Next]_Scan!vars
        BY <1>3, <2>1, AllocateStep DEF Scan!Next
    <2> QED
        BY <1>3, <2>2, AllocateStep, ScanKeepsItsInvariant DEF IInv
<1>4. CASE SpillAtInterval
    <2>1. current \in Intervals
        BY <1>4, CurrentIsNext DEF IInv, SpillAtInterval
    <2>2. [Scan!Next]_Scan!vars
        BY <1>4, <2>1, SpillStep DEF Scan!Next
    <2> QED
        BY <1>4, <2>2, SpillStep, ScanKeepsItsInvariant DEF IInv
<1>5. CASE Finish
    BY <1>1, <1>5 DEF Finish
<1> QED
    BY <1>1, <1>2, <1>3, <1>4, <1>5 DEF Next

(***************************************************************************)
(* The inductive invariant of Run on its vectors: intervals_ has every     *)
(* interval once, in order of start when the loop runs, active_ is sorted  *)
(* by end, and the sets of both satisfy the invariant of LinearScan.       *)
(***************************************************************************)
THEOREM InductiveInvariant == Spec => []IInv
BY InitInv, NextInv, PTL DEF Spec

(***************************************************************************)
(* active_ is sorted by end when lower_bound searches it and when back()   *)
(* is taken for the furthest end, has no interval twice and never more     *)
(* than num_regs_, whatever the intervals and the registers.               *)
(***************************************************************************)
THEOREM ActiveStaysSorted == Spec => []ActiveSorted
<1>1. ASSUME IInv
      PROVE  ActiveSorted
    <2>1. /\ active \in Seq(Intervals) /\ ByEnd(active)
          /\ Len(active) \in Nat /\ DOMAIN active = 1 .. Len(active)
          /\ Cardinality(Range(active)) = Len(active)
        BY <1>1, SizeOfVector, LenProperties DEF IInv, TypeOK
    <2>2. \A k \in 1 .. (Len(active) - 1) : end[active[k]] <= end[active[k + 1]]
        <3>1. \A k \in 1 .. (Len(active) - 1) :
                k \in 1 .. Len(active) /\ k + 1 \in 1 .. Len(active) /\ k <= k + 1
            BY <2>1
        <3> QED
            BY <2>1, <3>1 DEF ByEnd
    <2>3. \A j, k \in DOMAIN active : active[j] = active[k] => j = k
        BY <2>1 DEF ByEnd
    <2>4. Len(active) <= NumRegs
        <3> DEFINE H == 0 .. (NumRegs - 1)
                   f == [a \in Range(active) |-> location[a].value]
        <3>1. IsFiniteSet(H) /\ Cardinality(H) = NumRegs
            <4>1. NumRegs - 1 \in Int /\ 0 \in Int
                BY NumRegsNat
            <4>2. IsFiniteSet(H) /\ Cardinality(H) = IF 0 > NumRegs - 1 THEN 0 ELSE (NumRegs - 1) - 0 + 1
                BY <4>1, FS_Interval
            <4> HIDE DEF H
            <4> QED
                BY <4>2, NumRegsNat
        <3>2. f \in Injection(Range(active), H)
            BY <1>1, SameScan DEF IInv, ScanProofs!IInv, ScanProofs!ActiveHoldRegisters,
               Injection, IsInjective
        <3>3. Cardinality(Range(active)) <= Cardinality(H)
            <4> HIDE DEF f, H
            <4> QED
                BY <3>1, <3>2, FS_Injection
        <3> QED
            BY <2>1, <3>1, <3>3
    <2> QED
        BY <2>2, <2>3, <2>4 DEF ActiveSorted
<1> QED
    BY <1>1, InductiveInvariant, PTL

(***************************************************************************)
(* The vectors implement the sets: each iteration of Run is an iteration   *)
(* of LinearScan, with the order of equal starts and the victim among      *)
(* equal ends that the vectors happen to give.                             *)
(***************************************************************************)
THEOREM VectorsImplementSets == Spec => ImplementsLinearScan
BY InitInv, NextInv, InductiveInvariant, PTL DEF Spec, ImplementsLinearScan, Scan!Spec

(***************************************************************************)
(* Run gives no two intervals that touch one register, on its vectors,     *)
(* however many intervals and registers there are.                         *)
(***************************************************************************)
THEOREM AllocationIsValid == Spec => []Scan!NoConflict
<1>1. IInv => Scan!NoConflict
    BY SameScan DEF IInv, ScanProofs!IInv, ScanProofs!NoConflict, Scan!NoConflict,
       ScanProofs!Apart, Scan!Apart
<1> QED
    BY <1>1, InductiveInvariant, PTL

LEMMA RunIsALinearScan == Spec => ScanProofs!Spec
<1>1. Init => ScanProofs!Init
    BY InitInv, SameInit
<1>2. IInv /\ [Next]_vars => [ScanProofs!Next]_ScanProofs!vars
    BY NextInv, SameStep
<1> QED
    BY <1>1, <1>2, InductiveInvariant, PTL DEF Spec, ScanProofs!Spec

(***************************************************************************)
(* So Run keeps, on its vectors, the promise of RegisterAssignment:        *)
(* registers only beside intervals that are apart, a fresh slot for every  *)
(* spill, no decision revised but by a spill.                              *)
(***************************************************************************)
THEOREM RunKeepsThePromise == Spec => ScanProofs!ImplementsAssignment
<1>1. ScanProofs!Spec => ScanProofs!ImplementsAssignment
    BY SameCounting, ScanProofs!LoopImplementsAssignment, ScanProofs!IntervalsAssumption,
       ScanProofs!RegistersAssumption, ScanProofs!PositionsAssumption
<1> QED
    BY <1>1, RunIsALinearScan, PTL

(***************************************************************************)
(* And an interval is on the stack only if more intervals were live at     *)
(* one position than there are registers.                                  *)
(***************************************************************************)
THEOREM RunSpillsWhenForced == Spec => []ScanProofs!SpillOnlyUnderPressure
<1>1. ScanProofs!Spec => []ScanProofs!SpillOnlyUnderPressure
    BY SameCounting, ScanProofs!SpillsAreForced, ScanProofs!IntervalsAssumption,
       ScanProofs!RegistersAssumption, ScanProofs!PositionsAssumption
<1> QED
    BY <1>1, RunIsALinearScan, PTL

=============================================================================
