-------------------------- MODULE ControlFlowProofs --------------------------
(***************************************************************************)
(* Proofs about ControlFlow for any set of blocks: an edge is in both its  *)
(* lists equally often whatever is built, split, cut off or cloned, and    *)
(* the inputs of a phi stay with their predecessors.                       *)
(***************************************************************************)
EXTENDS ControlFlow, FiniteSetTheorems, SequenceTheorems, WellFoundedInduction, TLAPS

-----------------------------------------------------------------------------
(* How often a block is in a list. *)

Places(list, x) == {k \in DOMAIN list : list[k] = x}

\* Every set of numbers has a least element.
LEMMA LeastNumber ==
    ASSUME NEW T \in SUBSET Nat, T # {}
    PROVE  \E n \in T : \A m \in T : n <= m
<1>1. PICK n \in T : \A m \in T : ~ <<m, n>> \in OpToRel(<, Nat)
    BY NatLessThanWellFounded, WFMin
<1>2. \A m \in T : ~ (m < n)
    BY <1>1 DEF OpToRel
<1> QED
    BY <1>2

LEMMA DisjointUnion ==
    ASSUME NEW A, NEW B, IsFiniteSet(A), IsFiniteSet(B), A \cap B = {}
    PROVE  Cardinality(A \cup B) = Cardinality(A) + Cardinality(B)
<1>1. Cardinality(A \cup B) = Cardinality(A) + Cardinality(B) - Cardinality(A \cap B)
    BY FS_Union
<1>2. Cardinality(A \cap B) = 0
    BY FS_EmptySet
<1>3. Cardinality(A) \in Nat /\ Cardinality(B) \in Nat
    BY FS_CardinalityType
<1> QED
    BY <1>1, <1>2, <1>3

LEMMA PlacesAreFinite ==
    ASSUME NEW S, NEW list \in Seq(S), NEW x
    PROVE  IsFiniteSet(Places(list, x)) /\ Count(list, x) = Cardinality(Places(list, x)) /\ Count(list, x) \in Nat
<1>1. DOMAIN list = 1 .. Len(list) /\ Len(list) \in Nat
    OBVIOUS
<1>2. IsFiniteSet(1 .. Len(list))
    BY <1>1, FS_Interval
<1>3. Places(list, x) \in SUBSET (1 .. Len(list))
    BY <1>1 DEF Places
<1>4. IsFiniteSet(Places(list, x))
    BY <1>2, <1>3, FS_Subset
<1> QED
    BY <1>4, FS_CardinalityType DEF Count, Places

\* A block is in a list when it is counted there.
LEMMA Listed ==
    ASSUME NEW S, NEW list \in Seq(S), NEW x
    PROVE  Count(list, x) = 0 <=> x \notin Range(list)
<1>1. Places(list, x) = {} <=> x \notin Range(list)
    BY DEF Places, Range
<1> QED
    BY <1>1, PlacesAreFinite, FS_EmptySet

LEMMA CountNone ==
    ASSUME NEW x
    PROVE  Count(<<>>, x) = 0
<1>1. {k \in DOMAIN <<>> : <<>>[k] = x} = {}
    OBVIOUS
<1> QED
    BY <1>1, FS_EmptySet DEF Count

\* What AddPredecessor does for c edges.
LEMMA CountAdded ==
    ASSUME NEW S, NEW list \in Seq(S), NEW x \in S, NEW c \in Nat, NEW z,
           NEW more, more = [k \in 1 .. c |-> x]
    PROVE  /\ list \o more \in Seq(S)
           /\ Count(list \o more, z) = IF z = x THEN Count(list, x) + c ELSE Count(list, z)
<1> DEFINE long == list \o more
           n == Len(list)
<1>1. more \in Seq(S) /\ Len(more) = c /\ n \in Nat
    OBVIOUS
<1>2. long \in Seq(S) /\ Len(long) = n + c
    BY <1>1
<1>3. \A k \in 1 .. n + c : long[k] = IF k <= n THEN list[k] ELSE x
    BY <1>1
<1>4. DOMAIN long = 1 .. n + c /\ DOMAIN list = 1 .. n
    BY <1>1, <1>2
<1> HIDE DEF long
<1>5. CASE z = x
    <2>1. Places(long, z) = Places(list, x) \cup (n + 1 .. n + c)
        BY <1>1, <1>3, <1>4, <1>5 DEF Places
    <2>2. Places(list, x) \cap (n + 1 .. n + c) = {}
        BY <1>1, <1>4 DEF Places
    <2>3. IsFiniteSet(n + 1 .. n + c) /\ Cardinality(n + 1 .. n + c) = c
        <3>1. n + 1 \in Int /\ n + c \in Int /\ (n + 1 > n + c <=> c = 0) /\ (n + c) - (n + 1) + 1 = c
            BY <1>1
        <3> DEFINE a == n + 1
                   b == n + c
        <3> HIDE DEF a, b
        <3>2. IsFiniteSet(a .. b) /\ Cardinality(a .. b) = IF a > b THEN 0 ELSE b - a + 1
            BY <3>1, FS_Interval DEF a, b
        <3> QED
            BY <3>1, <3>2 DEF a, b
    <2>4. IsFiniteSet(Places(list, x)) /\ Count(list, x) = Cardinality(Places(list, x)) /\ Count(list, x) \in Nat
        BY PlacesAreFinite
    <2>5. Cardinality(Places(list, x) \cup (n + 1 .. n + c)) = Count(list, x) + c
        <3> DEFINE A == Places(list, x)
                   B == n + 1 .. n + c
        <3> HIDE DEF A, B
        <3>1. Cardinality(A \cup B) = Cardinality(A) + Cardinality(B)
            BY <2>2, <2>3, <2>4, DisjointUnion DEF A, B
        <3> QED
            BY <2>3, <2>4, <3>1 DEF A, B
    <2>6. Count(long, z) = Cardinality(Places(long, z))
        BY <1>2, PlacesAreFinite
    <2> QED
        BY <1>2, <1>5, <2>1, <2>5, <2>6 DEF long
<1>6. CASE z # x
    <2>1. Places(long, z) = Places(list, z)
        BY <1>1, <1>3, <1>4, <1>6 DEF Places
    <2>2. Count(long, z) = Count(list, z)
        BY <1>2, <2>1, PlacesAreFinite
    <2> QED
        BY <1>2, <1>6, <2>2 DEF long
<1> QED
    BY <1>5, <1>6

LEMMA CountAppended ==
    ASSUME NEW S, NEW list \in Seq(S), NEW x \in S, NEW z
    PROVE  /\ Append(list, x) \in Seq(S)
           /\ Count(Append(list, x), z) = IF z = x THEN Count(list, x) + 1 ELSE Count(list, z)
<1> DEFINE c == 1
           more == [k \in 1 .. c |-> x]
<1>1. Append(list, x) = list \o more
    <2>1. more = <<x>>
        OBVIOUS
    <2> QED
        BY <2>1
<1>2. c = 1
    OBVIOUS
<1>3. c \in Nat /\ more = [k \in 1 .. c |-> x]
    OBVIOUS
<1> HIDE DEF c, more
<1>4. /\ list \o more \in Seq(S)
      /\ Count(list \o more, z) = IF z = x THEN Count(list, x) + c ELSE Count(list, z)
    BY <1>3, CountAdded
<1> QED
    BY <1>1, <1>2, <1>4

\* What ReplacePredecessor does to a list.
LEMMA CountReplaced ==
    ASSUME NEW S, NEW list \in Seq(S), NEW x, NEW new \in S, x # new, NEW z
    PROVE  /\ ReplaceAll(list, x, new) \in Seq(S)
           /\ Len(ReplaceAll(list, x, new)) = Len(list)
           /\ Count(ReplaceAll(list, x, new), z) = IF z = x THEN 0
                                                   ELSE IF z = new THEN Count(list, x) + Count(list, new)
                                                   ELSE Count(list, z)
<1> DEFINE r == ReplaceAll(list, x, new)
<1>1. r \in Seq(S) /\ Len(r) = Len(list) /\ DOMAIN r = DOMAIN list
      /\ \A k \in DOMAIN list : r[k] = IF list[k] = x THEN new ELSE list[k]
    BY DEF ReplaceAll
<1> HIDE DEF r
<1>2. CASE z = x
    <2>1. z \notin Range(r)
        BY <1>1, <1>2 DEF Range
    <2> QED
        BY <1>1, <1>2, <2>1, Listed DEF r
<1>3. CASE z = new
    <2>1. Places(r, z) = Places(list, x) \cup Places(list, new)
        BY <1>1, <1>3 DEF Places
    <2>2. Places(list, x) \cap Places(list, new) = {}
        BY DEF Places
    <2>3. /\ IsFiniteSet(Places(list, x)) /\ Count(list, x) = Cardinality(Places(list, x)) /\ Count(list, x) \in Nat
          /\ IsFiniteSet(Places(list, new)) /\ Count(list, new) = Cardinality(Places(list, new)) /\ Count(list, new) \in Nat
        BY PlacesAreFinite
    <2>4. Cardinality(Places(r, z)) = Count(list, x) + Count(list, new)
        BY <2>1, <2>2, <2>3, DisjointUnion
    <2>5. Count(r, z) = Cardinality(Places(r, z))
        BY <1>1, PlacesAreFinite
    <2> QED
        BY <1>1, <1>3, <2>4, <2>5 DEF r
<1>4. CASE z # x /\ z # new
    <2>1. Places(r, z) = Places(list, z)
        BY <1>1, <1>4 DEF Places
    <2>2. Count(r, z) = Count(list, z)
        BY <1>1, <2>1, PlacesAreFinite
    <2> QED
        BY <1>1, <1>4, <2>2 DEF r
<1> QED
    BY <1>2, <1>3, <1>4

\* std::find.
LEMMA Found ==
    ASSUME NEW S, NEW list \in Seq(S), NEW x, x \in Range(list)
    PROVE  /\ Find(list, x) \in 1 .. Len(list)
           /\ list[Find(list, x)] = x
           /\ \A i \in 1 .. Find(list, x) - 1 : list[i] # x
<1>1. \E k \in DOMAIN list : list[k] = x /\ \A i \in 1 .. k - 1 : list[i] # x
    <2>1. Places(list, x) \in SUBSET Nat /\ Places(list, x) # {}
        BY DEF Places, Range
    <2>2. PICK k \in Places(list, x) : \A m \in Places(list, x) : k <= m
        BY <2>1, LeastNumber
    <2>3. \A i \in 1 .. k - 1 : i \in DOMAIN list /\ ~(k <= i)
        BY <2>2 DEF Places
    <2> QED
        BY <2>2, <2>3 DEF Places
<1> QED
    BY <1>1 DEF Find

\* What RemovePredecessor does to a list.
LEMMA CountErased ==
    ASSUME NEW S, NEW list \in Seq(S), NEW x, NEW z
    PROVE  /\ Erase(list, x) \in Seq(S)
           /\ Count(Erase(list, x), z) = IF z = x /\ x \in Range(list) THEN Count(list, x) - 1
                                                                       ELSE Count(list, z)
<1>1. CASE x \notin Range(list)
    BY <1>1 DEF Erase
<1>2. CASE x \in Range(list)
    <2> DEFINE f == Find(list, x)
               n == Len(list)
               e == SubSeq(list, 1, f - 1) \o SubSeq(list, f + 1, n)
    <2>1. f \in 1 .. n /\ list[f] = x /\ n \in Nat
        BY <1>2, Found
    <2>2. Erase(list, x) = e
        BY <1>2 DEF Erase, RemoveAt
    <2> HIDE DEF f
    <2>3. /\ SubSeq(list, 1, f - 1) \in Seq(S) /\ Len(SubSeq(list, 1, f - 1)) = f - 1
          /\ SubSeq(list, f + 1, n) \in Seq(S) /\ Len(SubSeq(list, f + 1, n)) = n - f
        BY <2>1
    <2> DEFINE a == SubSeq(list, 1, f - 1)
               b == SubSeq(list, f + 1, n)
    <2>4. e \in Seq(S) /\ Len(e) = n - 1
        <3>1. f - 1 \in Nat /\ n - f \in Nat /\ (f - 1) + (n - f) = n - 1
            BY <2>1
        <3>2. a \in Seq(S) /\ b \in Seq(S) /\ e = a \o b /\ Len(a) = f - 1 /\ Len(b) = n - f
            BY <2>3
        <3> HIDE DEF a, b, e
        <3>3. a \o b \in Seq(S) /\ Len(a \o b) = Len(a) + Len(b)
            BY <3>2, ConcatProperties
        <3> QED
            BY <3>1, <3>2, <3>3
    <2>5. ASSUME NEW k \in 1 .. n - 1
          PROVE  e[k] = IF k < f THEN list[k] ELSE list[k + 1]
        <3>1. \A i \in 1 .. f - 1 : a[i] = list[i]
            BY <2>1
        <3>2. \A i \in 1 .. n - f : b[i] = list[f + i]
            BY <2>1
        <3>3. a \in Seq(S) /\ b \in Seq(S) /\ e = a \o b /\ Len(a) = f - 1 /\ Len(b) = n - f
            BY <2>3
        <3> HIDE DEF a, b, e
        <3>4. (a \o b)[k] = IF k <= Len(a) THEN a[k] ELSE b[k - Len(a)]
            BY <2>1, <3>3
        <3>5. CASE k < f
            <4>1. k \in 1 .. f - 1 /\ k <= Len(a)
                BY <2>1, <3>3, <3>5
            <4> QED
                BY <3>1, <3>3, <3>4, <3>5, <4>1
        <3>6. CASE ~(k < f)
            <4>1. ~(k <= f - 1) /\ k - (f - 1) \in 1 .. n - f /\ f + (k - (f - 1)) = k + 1
                BY <2>1, <3>6
            <4> QED
                BY <3>2, <3>3, <3>4, <3>6, <4>1
        <3> QED
            BY <3>5, <3>6
    <2> HIDE DEF e
    <2> DEFINE A == Places(list, z) \ {f}
               g == [k \in Places(e, z) |-> IF k < f THEN k ELSE k + 1]
    <2>6. DOMAIN e = 1 .. n - 1 /\ DOMAIN list = 1 .. n
        BY <2>1, <2>4
    <2>7. \A k \in Places(e, z) : k \in 1 .. n - 1 /\ e[k] = z
        BY <2>6 DEF Places
    <2>8. g \in Bijection(Places(e, z), A)
        <3>1. ASSUME NEW k \in Places(e, z)
              PROVE  g[k] \in A
            BY <2>1, <2>5, <2>6, <2>7 DEF Places
        <3>2. \A k, m \in Places(e, z) : g[k] = g[m] => k = m
            BY <2>1, <2>7
        <3>3. ASSUME NEW m \in A
              PROVE  \E k \in Places(e, z) : g[k] = m
            <4> DEFINE k == IF m < f THEN m ELSE m - 1
            <4>1. m \in 1 .. n /\ m # f /\ list[m] = z
                BY <2>6 DEF Places
            <4>2. k \in 1 .. n - 1 /\ (IF k < f THEN k ELSE k + 1) = m
                BY <2>1, <4>1
            <4>3. k \in Places(e, z)
                BY <2>5, <2>6, <4>1, <4>2 DEF Places
            <4> QED
                BY <4>2, <4>3
        <3>4. g \in [Places(e, z) -> A]
            BY <3>1
        <3> HIDE DEF g, A
        <3> QED
            BY <3>2, <3>3, <3>4 DEF Bijection, Injection, Surjection, IsInjective
    <2>9. Cardinality(Places(e, z)) = Cardinality(A)
        <3>1. IsFiniteSet(Places(e, z))
            BY <2>4, PlacesAreFinite
        <3> HIDE DEF g, A
        <3> QED
            BY <2>8, <3>1, FS_Bijection DEF ExistsBijection
    <2>10. IsFiniteSet(Places(list, z))
        BY PlacesAreFinite
    <2>11. Cardinality(A) = IF f \in Places(list, z) THEN Cardinality(Places(list, z)) - 1
                                                     ELSE Cardinality(Places(list, z))
        BY <2>10, FS_RemoveElement
    <2>12. f \in Places(list, z) <=> z = x
        BY <2>1, <2>6 DEF Places
    <2>13. Count(e, z) = Cardinality(Places(e, z)) /\ Count(list, z) = Cardinality(Places(list, z))
        BY <2>4, PlacesAreFinite
    <2> QED
        BY <1>2, <2>2, <2>4, <2>9, <2>11, <2>12, <2>13
<1> QED
    BY <1>1, <1>2

-----------------------------------------------------------------------------
(* The operations on the lists of all blocks. *)

Lists == [Blocks -> Seq(Blocks)]

LEMMA Enters ==
    ASSUME NEW ps \in Lists, NEW x \in Blocks, NEW targets \in Seq(Blocks)
    PROVE  /\ Enter(ps, x, targets) \in Lists
           /\ \A y, z \in Blocks :
                 Count(Enter(ps, x, targets)[y], z) = IF z = x THEN Count(ps[y], x) + Count(targets, y)
                                                               ELSE Count(ps[y], z)
           /\ \A y \in Blocks : /\ Len(ps[y]) <= Len(Enter(ps, x, targets)[y])
                                /\ \A k \in 1 .. Len(ps[y]) : Enter(ps, x, targets)[y][k] = ps[y][k]
<1> SUFFICES ASSUME NEW y \in Blocks
             PROVE  /\ Enter(ps, x, targets)[y] \in Seq(Blocks)
                    /\ \A z \in Blocks :
                          Count(Enter(ps, x, targets)[y], z) = IF z = x THEN Count(ps[y], x) + Count(targets, y)
                                                                        ELSE Count(ps[y], z)
                    /\ Len(ps[y]) <= Len(Enter(ps, x, targets)[y])
                    /\ \A k \in 1 .. Len(ps[y]) : Enter(ps, x, targets)[y][k] = ps[y][k]
    BY DEF Lists, Enter
<1> DEFINE list == ps[y]
           c == Count(targets, y)
           more == [k \in 1 .. c |-> x]
<1>1. list \in Seq(Blocks) /\ Enter(ps, x, targets)[y] = list \o more
    BY DEF Lists, Enter
<1>2. c \in Nat /\ more = [k \in 1 .. c |-> x]
    BY PlacesAreFinite
<1>3. more \in Seq(Blocks)
    BY <1>2
<1> HIDE DEF list, c, more
<1>4. ASSUME NEW z \in Blocks
      PROVE  /\ list \o more \in Seq(Blocks)
             /\ Count(list \o more, z) = IF z = x THEN Count(list, x) + c ELSE Count(list, z)
    BY <1>1, <1>2, CountAdded
<1>5. Len(list) <= Len(list \o more) /\ \A k \in 1 .. Len(list) : (list \o more)[k] = list[k]
    <2>1. Len(list \o more) = Len(list) + Len(more) /\ Len(list) \in Nat /\ Len(more) \in Nat
        BY <1>1, <1>3, ConcatProperties
    <2> QED
        BY <1>1, <1>3, <2>1
<1> QED
    BY <1>1, <1>4, <1>5 DEF list, c

\* The lists after the first n targets are left.
IsLeft(f, ps, x, targets, n) ==
    f = [k \in 0 .. n |-> IF k = 0 THEN ps ELSE [f[k - 1] EXCEPT ![targets[k]] = Erase(@, x)]]

LEMMA LeftExists ==
    ASSUME NEW ps, NEW x, NEW targets, NEW last \in Nat
    PROVE  \E f : IsLeft(f, ps, x, targets, last)
<1> DEFINE T == {n \in 0 .. last : \A f : ~IsLeft(f, ps, x, targets, n)}
           Step(f, k) == [f[k - 1] EXCEPT ![targets[k]] = Erase(@, x)]
<1>1. SUFFICES ASSUME T # {}
               PROVE  FALSE
    OBVIOUS
<1>2. PICK n \in T : \A m \in T : n <= m
    <2>1. T \in SUBSET Nat
        OBVIOUS
    <2> QED
        BY <1>1, <2>1, LeastNumber
<1>3. CASE n = 0
    <2> DEFINE g == [k \in 0 .. 0 |-> ps]
    <2>1. \A k \in 0 .. 0 : k = 0
        OBVIOUS
    <2>2. g = [k \in 0 .. 0 |-> IF k = 0 THEN ps ELSE Step(g, k)]
        BY <2>1
    <2>3. IsLeft(g, ps, x, targets, n)
        BY <1>3, <2>2 DEF IsLeft
    <2> QED
        BY <1>2, <2>3
<1>4. CASE n # 0
    <2>1. n \in Nat /\ n > 0 /\ n - 1 \in 0 .. last /\ n - 1 < n
        BY <1>2, <1>4
    <2>2. PICK f : IsLeft(f, ps, x, targets, n - 1)
        BY <1>2, <2>1
    <2>3. \A k \in 0 .. n - 1 : f[k] = IF k = 0 THEN ps ELSE Step(f, k)
        BY <2>2 DEF IsLeft
    <2> DEFINE g == [k \in 0 .. n |-> IF k = n THEN Step(f, n) ELSE f[k]]
    <2>4. \A k \in 0 .. n : /\ k = n \/ k \in 0 .. n - 1
                            /\ k # 0 => k - 1 \in 0 .. n - 1 /\ k - 1 \in 0 .. n /\ k - 1 # n
        BY <2>1
    <2>5. ASSUME NEW k \in 0 .. n
          PROVE  g[k] = IF k = 0 THEN ps ELSE Step(g, k)
        <3>1. k # 0 => g[k - 1] = f[k - 1]
            BY <2>4
        <3>2. k # 0 => Step(g, k) = Step(f, k)
            BY <3>1
        <3> HIDE DEF Step
        <3>3. CASE k = n
            BY <1>4, <3>2, <3>3
        <3>4. CASE k # n
            BY <2>3, <2>4, <3>2, <3>4
        <3> QED
            BY <3>3, <3>4
    <2>6. g = [k \in 0 .. n |-> g[k]]
        OBVIOUS
    <2> HIDE DEF g
    <2>7. IsLeft(g, ps, x, targets, n)
        BY <2>5, <2>6 DEF IsLeft
    <2> QED
        BY <1>2, <2>7
<1> QED
    BY <1>3, <1>4

\* The first n targets of a block, as a list.
Prefix(targets, n) == SubSeq(targets, 1, n)

LEMMA CountPrefix ==
    ASSUME NEW targets \in Seq(Blocks), NEW k \in 1 .. Len(targets), NEW y
    PROVE  /\ Prefix(targets, k - 1) \in Seq(Blocks)
           /\ Count(Prefix(targets, k), y) = IF y = targets[k] THEN Count(Prefix(targets, k - 1), y) + 1
                                                               ELSE Count(Prefix(targets, k - 1), y)
<1> DEFINE a == SubSeq(targets, 1, k - 1)
<1>1. a \in Seq(Blocks) /\ targets[k] \in Blocks
    OBVIOUS
<1>2. SubSeq(targets, 1, k) = Append(a, targets[k])
    OBVIOUS
<1>3. a = Prefix(targets, k - 1)
    BY DEF Prefix
<1> DEFINE t == targets[k]
<1>4. a \in Seq(Blocks) /\ t \in Blocks
    BY <1>1
<1> HIDE DEF a, t
<1>5. Count(Append(a, t), y) = IF y = t THEN Count(a, t) + 1 ELSE Count(a, y)
    BY <1>4, CountAppended
<1>6. Prefix(targets, k) = Append(a, t)
    BY <1>2 DEF Prefix, t
<1> QED
    BY <1>3, <1>4, <1>5, <1>6 DEF t

\* What is left in the lists when x has left the targets, each as often as it is a target.
LEMMA Leaves ==
    ASSUME NEW ps \in Lists, NEW x \in Blocks, NEW targets \in Seq(Blocks),
           \A y \in Blocks : Count(targets, y) = Count(ps[y], x)
    PROVE  /\ Leave(ps, x, targets) \in Lists
           /\ \A y, z \in Blocks :
                 Count(Leave(ps, x, targets)[y], z) = IF z = x THEN 0 ELSE Count(ps[y], z)
<1> DEFINE last == Len(targets)
           f == CHOOSE g : g = [k \in 0 .. last |-> IF k = 0 THEN ps
                                                    ELSE [g[k - 1] EXCEPT ![targets[k]] = Erase(@, x)]]
<1>1. last \in Nat
    OBVIOUS
<1>2. f = [k \in 0 .. last |-> IF k = 0 THEN ps ELSE [f[k - 1] EXCEPT ![targets[k]] = Erase(@, x)]]
    <2> HIDE DEF last
    <2>1. \E g : g = [k \in 0 .. last |-> IF k = 0 THEN ps ELSE [g[k - 1] EXCEPT ![targets[k]] = Erase(@, x)]]
        <3>1. \E g : IsLeft(g, ps, x, targets, last)
            BY <1>1, LeftExists
        <3> QED
            BY <3>1 DEF IsLeft
    <2> QED
        BY <2>1
<1>3. Leave(ps, x, targets) = f[last]
    BY DEF Leave
<1> HIDE DEF f
<1> DEFINE OK(k) == /\ f[k] \in Lists
                    /\ \A y, z \in Blocks :
                          Count(f[k][y], z) = IF z = x THEN Count(ps[y], x) - Count(Prefix(targets, k), y)
                                                       ELSE Count(ps[y], z)
           T == {k \in 0 .. last : ~OK(k)}
<1>4. Prefix(targets, last) = targets
    BY DEF Prefix
<1>5. \A k \in 0 .. last, y \in Blocks : Count(Prefix(targets, k), y) \in Nat /\ Count(ps[y], x) \in Nat
    <2> SUFFICES ASSUME NEW k \in 0 .. last, NEW y \in Blocks
                 PROVE  Count(Prefix(targets, k), y) \in Nat /\ Count(ps[y], x) \in Nat
        OBVIOUS
    <2>1. Prefix(targets, k) \in Seq(Blocks)
        BY DEF Prefix
    <2>2. ps[y] \in Seq(Blocks)
        BY DEF Lists
    <2> QED
        BY <2>1, <2>2, PlacesAreFinite
<1>6. T = {}
    <2>1. SUFFICES ASSUME T # {}
                   PROVE  FALSE
        OBVIOUS
    <2>2. PICK k \in T : \A m \in T : k <= m
        <3>1. T \in SUBSET Nat
            BY <1>1
        <3> HIDE DEF T
        <3> QED
            BY <2>1, <3>1, LeastNumber
    <2>3. CASE k = 0
        <3>1. f[0] = ps
            BY <1>1, <1>2
        <3>2. Prefix(targets, 0) = <<>>
            BY DEF Prefix
        <3>3. \A y \in Blocks : Count(Prefix(targets, 0), y) = 0
            BY <3>2, CountNone
        <3>4. \A y \in Blocks : Count(ps[y], x) \in Nat
            BY <1>1, <1>5
        <3>5. OK(0)
            BY <3>1, <3>3, <3>4
        <3> QED
            BY <2>2, <2>3, <3>5
    <2>4. CASE k # 0
        <3>1. k \in 1 .. last /\ k - 1 \in 0 .. last /\ ~(k <= k - 1)
            BY <1>1, <2>2, <2>4
        <3>2. OK(k - 1)
            BY <2>2, <3>1
        <3> DEFINE before == f[k - 1]
                   t == targets[k]
        <3>3. f[k] = [before EXCEPT ![t] = Erase(@, x)]
            BY <1>2, <3>1, <2>4
        <3>4. before \in Lists /\ t \in Blocks
            BY <3>1, <3>2
        <3>5. \A y, z \in Blocks :
                 Count(before[y], z) = IF z = x THEN Count(ps[y], x) - Count(Prefix(targets, k - 1), y)
                                                ELSE Count(ps[y], z)
            BY <3>2
        <3> HIDE DEF before, t, OK, T
        <3>6. \A y \in Blocks : Count(Prefix(targets, k), y) = IF y = t THEN Count(Prefix(targets, k - 1), y) + 1
                                                                       ELSE Count(Prefix(targets, k - 1), y)
            BY <3>1, CountPrefix DEF t
        <3>7. Count(Prefix(targets, k), t) <= Count(ps[t], x)
            <4>1. SubSeq(targets, 1, k) \in Seq(Blocks) /\ Places(SubSeq(targets, 1, k), t) \in SUBSET Places(targets, t)
                BY <3>1 DEF Places
            <4>2. Count(Prefix(targets, k), t) = Cardinality(Places(SubSeq(targets, 1, k), t))
                BY <4>1, PlacesAreFinite DEF Prefix
            <4>3. Count(targets, t) = Cardinality(Places(targets, t)) /\ IsFiniteSet(Places(targets, t))
                BY PlacesAreFinite
            <4> QED
                BY <3>4, <4>1, <4>2, <4>3, FS_Subset
        <3>8. before[t] \in Seq(Blocks)
            BY <3>4 DEF Lists
        <3>9. x \in Range(before[t])
            <4>1. Count(before[t], x) > 0
                <5>1. Count(before[t], x) = Count(ps[t], x) - Count(Prefix(targets, k - 1), t)
                    BY <3>4, <3>5
                <5>2. Count(Prefix(targets, k), t) = Count(Prefix(targets, k - 1), t) + 1
                    BY <3>4, <3>6
                <5>3. Count(Prefix(targets, k - 1), t) \in Nat /\ Count(ps[t], x) \in Nat
                    BY <1>5, <3>1, <3>4
                <5> QED
                    BY <3>7, <5>1, <5>2, <5>3
            <4> QED
                BY <3>8, <4>1, Listed
        <3>10. Erase(before[t], x) \in Seq(Blocks)
               /\ \A z \in Blocks : Count(Erase(before[t], x), z) = IF z = x THEN Count(before[t], x) - 1
                                                                            ELSE Count(before[t], z)
            BY <3>8, <3>9, CountErased
        <3>11. f[k] \in Lists
            BY <3>3, <3>4, <3>10 DEF Lists
        <3>12. ASSUME NEW y \in Blocks, NEW z \in Blocks
               PROVE  Count(f[k][y], z) = IF z = x THEN Count(ps[y], x) - Count(Prefix(targets, k), y)
                                                   ELSE Count(ps[y], z)
            <4>1. CASE y # t
                <5>1. f[k][y] = before[y]
                    BY <3>3, <3>4, <4>1 DEF Lists
                <5> QED
                    BY <3>5, <3>6, <4>1, <5>1
            <4>2. CASE y = t
                <5>1. f[k][y] = Erase(before[t], x)
                    BY <3>3, <3>4, <4>2 DEF Lists
                <5>2. Count(Prefix(targets, k), y) = Count(Prefix(targets, k - 1), y) + 1
                    BY <3>6, <4>2
                <5>3. Count(Prefix(targets, k - 1), y) \in Nat /\ Count(ps[y], x) \in Nat
                    BY <1>5, <3>1
                <5> QED
                    BY <3>4, <3>5, <3>10, <4>2, <5>1, <5>2, <5>3
            <4> QED
                BY <4>1, <4>2
        <3>13. OK(k)
            BY <3>11, <3>12 DEF OK
        <3> QED
            BY <2>2, <3>13 DEF T
    <2> QED
        BY <2>3, <2>4
<1>7. OK(last)
    <2>1. last \in 0 .. last
        BY <1>1
    <2> HIDE DEF OK
    <2> QED
        BY <1>6, <2>1
<1>8. \A y \in Blocks : Count(ps[y], x) - Count(Prefix(targets, last), y) = 0
    BY <1>1, <1>4, <1>5
<1> QED
    BY <1>3, <1>7, <1>8

-----------------------------------------------------------------------------
(* The clone of the inliner. *)

\* Each block is made once.
MadeOnce == \A i, j \in DOMAIN created : created[i] = created[j] => i = j

\* What the first n blocks have entered.
IsEntered(f, n) ==
    f = [k \in 0 .. n |-> IF k = 0 THEN [y \in Blocks |-> <<>>]
                          ELSE Enter(f[k - 1], created[k], succs[created[k]])]

LEMMA EnteredExists ==
    ASSUME NEW last \in Nat
    PROVE  \E f : IsEntered(f, last)
<1> DEFINE T == {n \in 0 .. last : \A f : ~IsEntered(f, n)}
           none == [y \in Blocks |-> <<>>]
           Step(f, k) == Enter(f[k - 1], created[k], succs[created[k]])
<1>1. SUFFICES ASSUME T # {}
               PROVE  FALSE
    OBVIOUS
<1>2. PICK n \in T : \A m \in T : n <= m
    <2>1. T \in SUBSET Nat
        OBVIOUS
    <2> QED
        BY <1>1, <2>1, LeastNumber
<1>3. CASE n = 0
    <2> DEFINE g == [k \in 0 .. 0 |-> none]
    <2>1. \A k \in 0 .. 0 : k = 0
        OBVIOUS
    <2>2. g = [k \in 0 .. 0 |-> IF k = 0 THEN none ELSE Step(g, k)]
        BY <2>1
    <2>3. IsEntered(g, n)
        BY <1>3, <2>2 DEF IsEntered
    <2> QED
        BY <1>2, <2>3
<1>4. CASE n # 0
    <2>1. n \in Nat /\ n > 0 /\ n - 1 \in 0 .. last /\ n - 1 < n
        BY <1>2, <1>4
    <2>2. PICK f : IsEntered(f, n - 1)
        BY <1>2, <2>1
    <2>3. \A k \in 0 .. n - 1 : f[k] = IF k = 0 THEN none ELSE Step(f, k)
        BY <2>2 DEF IsEntered
    <2> DEFINE g == [k \in 0 .. n |-> IF k = n THEN Step(f, n) ELSE f[k]]
    <2>4. \A k \in 0 .. n : /\ k = n \/ k \in 0 .. n - 1
                            /\ k # 0 => k - 1 \in 0 .. n - 1 /\ k - 1 \in 0 .. n /\ k - 1 # n
        BY <2>1
    <2>5. ASSUME NEW k \in 0 .. n
          PROVE  g[k] = IF k = 0 THEN none ELSE Step(g, k)
        <3>1. k # 0 => g[k - 1] = f[k - 1]
            BY <2>4
        <3>2. k # 0 => Step(g, k) = Step(f, k)
            BY <3>1
        <3> HIDE DEF Step
        <3>3. CASE k = n
            BY <1>4, <3>2, <3>3
        <3>4. CASE k # n
            BY <2>3, <2>4, <3>2, <3>4
        <3> QED
            BY <3>3, <3>4
    <2>6. g = [k \in 0 .. n |-> g[k]]
        OBVIOUS
    <2> HIDE DEF g
    <2>7. IsEntered(g, n)
        BY <2>5, <2>6 DEF IsEntered
    <2> QED
        BY <1>2, <2>7
<1> QED
    BY <1>3, <1>4

\* After all blocks of the list, an edge has been entered as often as it is in the list of
\* its source, if that is one of the blocks.
LEMMA EnteredCounts ==
    ASSUME created \in Seq(Blocks), MadeOnce, succs \in Lists
    PROVE  /\ EnteredAnew \in Lists
           /\ \A y, z \in Blocks : Count(EnteredAnew[y], z) = IF IsBlock(z) THEN Count(succs[z], y) ELSE 0
<1> DEFINE last == Len(created)
           f == CHOOSE g : g = [k \in 0 .. last |-> IF k = 0 THEN [y \in Blocks |-> <<>>]
                                                    ELSE Enter(g[k - 1], created[k], succs[created[k]])]
<1>1. last \in Nat /\ DOMAIN created = 1 .. last
    OBVIOUS
<1>2. f = [k \in 0 .. last |-> IF k = 0 THEN [y \in Blocks |-> <<>>]
                               ELSE Enter(f[k - 1], created[k], succs[created[k]])]
    <2> HIDE DEF last
    <2>1. \E g : g = [k \in 0 .. last |-> IF k = 0 THEN [y \in Blocks |-> <<>>]
                                          ELSE Enter(g[k - 1], created[k], succs[created[k]])]
        <3>1. \E g : IsEntered(g, last)
            BY <1>1, EnteredExists
        <3> QED
            BY <3>1 DEF IsEntered
    <2> QED
        BY <2>1
<1>3. EnteredAnew = f[last]
    BY DEF EnteredAnew
<1> HIDE DEF f, last
<1> DEFINE Sofar(k) == {created[i] : i \in 1 .. k}
           OK(k) == /\ f[k] \in Lists
                    /\ \A y, z \in Blocks :
                          Count(f[k][y], z) = IF z \in Sofar(k) THEN Count(succs[z], y) ELSE 0
           T == {k \in 0 .. last : ~OK(k)}
<1>4. T = {}
    <2>1. SUFFICES ASSUME T # {}
                   PROVE  FALSE
        OBVIOUS
    <2>2. PICK k \in T : \A m \in T : k <= m
        <3>1. T \in SUBSET Nat
            BY <1>1
        <3> HIDE DEF T
        <3> QED
            BY <2>1, <3>1, LeastNumber
    <2>3. CASE k = 0
        <3>1. f[0] = [y \in Blocks |-> <<>>]
            BY <1>1, <1>2
        <3>2. Sofar(0) = {}
            OBVIOUS
        <3>3. f[0] \in Lists
            BY <3>1 DEF Lists
        <3>4. \A y, z \in Blocks : Count(f[0][y], z) = 0
            BY <3>1, CountNone
        <3>5. OK(0)
            BY <3>2, <3>3, <3>4
        <3> QED
            BY <2>2, <2>3, <3>5
    <2>4. CASE k # 0
        <3>1. k \in 1 .. last /\ k - 1 \in 0 .. last /\ ~(k <= k - 1)
            BY <1>1, <2>2, <2>4
        <3>2. OK(k - 1)
            BY <2>2, <3>1
        <3> DEFINE before == f[k - 1]
                   x == created[k]
                   targets == succs[x]
        <3>3. f[k] = Enter(before, x, targets)
            BY <1>2, <2>4, <3>1
        <3>4. before \in Lists /\ x \in Blocks /\ targets \in Seq(Blocks)
            BY <1>1, <3>1, <3>2 DEF Lists
        <3>5. \A y, z \in Blocks : Count(before[y], z) = IF z \in Sofar(k - 1) THEN Count(succs[z], y) ELSE 0
            BY <3>2
        <3>6. Sofar(k) = Sofar(k - 1) \cup {x}
            <4>1. 1 .. k = (1 .. k - 1) \cup {k}
                BY <1>1, <3>1
            <4> QED
                BY <4>1
        <3>7. x \notin Sofar(k - 1)
            BY <1>1, <3>1 DEF MadeOnce
        <3> HIDE DEF before, OK, T, Sofar
        <3>8. /\ f[k] \in Lists
              /\ \A y, z \in Blocks :
                    Count(f[k][y], z) = IF z = x THEN Count(before[y], x) + Count(targets, y)
                                                 ELSE Count(before[y], z)
            <4> HIDE DEF x, targets
            <4> QED
                BY <3>3, <3>4, Enters
        <3>9. ASSUME NEW y \in Blocks, NEW z \in Blocks
              PROVE  Count(f[k][y], z) = IF z \in Sofar(k) THEN Count(succs[z], y) ELSE 0
            <4>1. CASE z = x
                <5>1. Count(before[y], x) = 0 /\ Count(targets, y) \in Nat
                    BY <3>4, <3>5, <3>7, PlacesAreFinite
                <5>2. Count(f[k][y], z) = Count(before[y], x) + Count(targets, y)
                    BY <3>8, <4>1
                <5>3. Count(f[k][y], z) = Count(succs[z], y)
                    BY <4>1, <5>1, <5>2
                <5> QED
                    BY <3>6, <4>1, <5>3
            <4>2. CASE z # x
                <5>1. Count(f[k][y], z) = Count(before[y], z)
                    BY <3>8, <4>2
                <5> QED
                    BY <3>5, <3>6, <4>2, <5>1
            <4> QED
                BY <4>1, <4>2
        <3>10. OK(k)
            BY <3>8, <3>9 DEF OK
        <3> QED
            BY <2>2, <3>10 DEF T
    <2> QED
        BY <2>3, <2>4
<1>5. OK(last)
    <2>1. last \in 0 .. last
        BY <1>1
    <2> HIDE DEF OK
    <2> QED
        BY <1>4, <2>1
<1>6. \A z : z \in Sofar(last) <=> IsBlock(z)
    BY <1>1 DEF IsBlock, Range
<1> QED
    BY <1>3, <1>5, <1>6

-----------------------------------------------------------------------------
(* The invariant. *)

TypeOK ==
    /\ created \in Seq(Blocks)
    /\ preds \in Lists
    /\ succs \in Lists
    /\ inputs \in Seq(Blocks \cup {None})
    /\ cut \in SUBSET Blocks
    /\ inlined \in BOOLEAN

\* A block that is not made yet has no edge, and none leads to it.
EdgesInside == \A x, y \in Blocks : Count(succs[x], y) # 0 => IsBlock(x) /\ IsBlock(y)

IInv == TypeOK /\ MadeOnce /\ EdgesInside /\ EdgesAgree /\ PhiInputsAligned

LEMMA InitInv == Init => IInv
<1> SUFFICES ASSUME Init
             PROVE  IInv
    OBVIOUS
<1>1. TypeOK
    <2>1. <<>> \in Seq(Blocks) /\ <<>> \in Seq(Blocks \cup {None})
        OBVIOUS
    <2>2. preds \in Lists /\ succs \in Lists
        BY <2>1 DEF Init, Lists
    <2> QED
        BY <2>1, <2>2 DEF Init, TypeOK
<1>2. MadeOnce
    BY DEF Init, MadeOnce
<1>3. \A x, y \in Blocks : Count(succs[x], y) = 0 /\ Count(preds[y], x) = 0
    BY CountNone DEF Init
<1>4. EdgesInside /\ EdgesAgree
    BY <1>3 DEF EdgesInside, EdgesAgree
<1>5. PhiInputsAligned
    BY ControlFlowAssumption DEF Init, PhiInputsAligned, Aligned, AtFirstEdge
<1> QED
    BY <1>1, <1>2, <1>4, <1>5 DEF IInv

\* A list of blocks with a new one at its end.
LEMMA MadeNext ==
    ASSUME IInv, NEW x \in Blocks, ~IsBlock(x), created' = Append(created, x)
    PROVE  /\ (created \in Seq(Blocks))' /\ MadeOnce'
           /\ \A y : IsBlock(y)' <=> IsBlock(y) \/ y = x
<1>1. created \in Seq(Blocks) /\ MadeOnce
    BY DEF IInv, TypeOK
<1>2. created' \in Seq(Blocks) /\ Len(created') = Len(created) + 1 /\ Len(created) \in Nat
    BY <1>1
<1>3. \A i \in 1 .. Len(created) + 1 : created'[i] = IF i = Len(created) + 1 THEN x ELSE created[i]
    BY <1>1
<1>4. \A i \in 1 .. Len(created) : created[i] # x
    BY <1>1 DEF IsBlock, Range
<1>5. MadeOnce'
    BY <1>1, <1>2, <1>3, <1>4 DEF MadeOnce
<1>6. \A y : y \in Range(created') <=> y \in Range(created) \/ y = x
    BY <1>1, <1>2, <1>3 DEF Range
<1> QED
    BY <1>2, <1>5, <1>6 DEF IsBlock

LEMMA CreateBasicBlockInv ==
    ASSUME IInv, NEW x \in Blocks, CreateBasicBlock(x)
    PROVE  IInv'
<1>1. /\ (created \in Seq(Blocks))' /\ MadeOnce'
      /\ \A y : IsBlock(y)' <=> IsBlock(y) \/ y = x
    BY MadeNext DEF CreateBasicBlock
<1>2. TypeOK'
    BY <1>1 DEF IInv, TypeOK, CreateBasicBlock
<1>3. EdgesInside' /\ EdgesAgree'
    BY <1>1 DEF IInv, EdgesInside, EdgesAgree, CreateBasicBlock
<1>4. PhiInputsAligned'
    BY DEF IInv, PhiInputsAligned, Aligned, AtFirstEdge, CreateBasicBlock
<1> QED
    BY <1>1, <1>2, <1>3, <1>4 DEF IInv

\* The inputs stay where they are when predecessors come to the end of the list.
LEMMA AlignedWithMore ==
    ASSUME PhiInputsAligned, TypeOK, (preds \in Lists)',
           Len(preds[PhiBlock]) <= Len(preds'[PhiBlock]),
           \A k \in 1 .. Len(preds[PhiBlock]) : preds'[PhiBlock][k] = preds[PhiBlock][k],
           UNCHANGED <<inputs, cut, inlined>>
    PROVE  PhiInputsAligned'
<1> SUFFICES ASSUME cut = {} /\ ~inlined
             PROVE  Aligned' /\ AtFirstEdge' /\ (Len(inputs) <= Len(preds[PhiBlock]))'
    BY DEF PhiInputsAligned
<1> DEFINE ps == preds[PhiBlock]
           more == preds'[PhiBlock]
<1>1. Aligned /\ AtFirstEdge /\ Len(inputs) <= Len(ps)
    BY DEF PhiInputsAligned
<1>2. inputs \in Seq(Blocks \cup {None}) /\ ps \in Seq(Blocks) /\ more \in Seq(Blocks)
    BY ControlFlowAssumption DEF TypeOK, Lists
<1>3. Len(inputs) \in Nat /\ Len(ps) \in Nat /\ Len(more) \in Nat
      /\ DOMAIN inputs = 1 .. Len(inputs) /\ DOMAIN ps = 1 .. Len(ps) /\ DOMAIN more = 1 .. Len(more)
    BY <1>2
<1>4. \A k \in DOMAIN inputs \cap DOMAIN more : inputs[k] # None => inputs[k] = more[k]
    BY <1>1, <1>3 DEF Aligned
<1>5. AtFirstEdge'
    <2> SUFFICES ASSUME NEW k \in DOMAIN inputs \cap DOMAIN more, inputs[k] # None, NEW e \in 1 .. k - 1
                 PROVE  more[e] # more[k]
        BY DEF AtFirstEdge
    <2>1. k \in DOMAIN inputs \cap DOMAIN ps /\ e \in 1 .. Len(ps) /\ k \in 1 .. Len(ps)
        BY <1>1, <1>3
    <2>2. ps[e] # ps[k]
        BY <1>1, <2>1 DEF AtFirstEdge
    <2> QED
        BY <2>1, <2>2
<1> QED
    BY <1>1, <1>3, <1>4, <1>5 DEF Aligned

LEMMA CreateJumpInv ==
    ASSUME IInv, NEW x \in Blocks, NEW target \in Blocks, CreateJump(x, target)
    PROVE  IInv'
<1> USE DEF CreateJump
<1>1. TypeOK /\ preds \in Lists /\ succs \in Lists /\ EdgesInside /\ EdgesAgree
    BY DEF IInv, TypeOK
<1>2. preds[target] \in Seq(Blocks)
    BY <1>1 DEF Lists
<1>3. Append(preds[target], x) \in Seq(Blocks)
      /\ \A z \in Blocks : Count(Append(preds[target], x), z) = IF z = x THEN Count(preds[target], x) + 1
                                                                        ELSE Count(preds[target], z)
    BY <1>2, CountAppended
<1>4. <<target>> \in Seq(Blocks)
      /\ \A y \in Blocks : Count(<<target>>, y) = IF y = target THEN 1 ELSE 0
    <2> DEFINE none == <<>>
    <2>1. none \in Seq(Blocks) /\ <<target>> = Append(none, target)
        OBVIOUS
    <2>2. \A y : Count(none, y) = 0
        BY CountNone
    <2> DEFINE one == <<target>>
    <2>3. one \in Seq(Blocks) /\ one = Append(none, target)
        BY <2>1
    <2> HIDE DEF none, one
    <2>4. \A y \in Blocks : Count(Append(none, target), y) = IF y = target THEN Count(none, target) + 1
                                                                        ELSE Count(none, y)
        BY <2>1, CountAppended
    <2>5. \A y \in Blocks : Count(one, y) = IF y = target THEN 1 ELSE 0
        BY <2>2, <2>3, <2>4
    <2> QED
        BY <2>3, <2>5 DEF one
<1>5. succs' \in Lists /\ preds' \in Lists
    BY <1>1, <1>3, <1>4 DEF Lists
<1>6. TypeOK' /\ MadeOnce'
    BY <1>5 DEF IInv, TypeOK, MadeOnce
<1>7. \A y, z \in Blocks : Count(succs'[z], y) = IF z = x THEN (IF y = target THEN 1 ELSE 0) ELSE Count(succs[z], y)
    BY <1>1, <1>4 DEF Lists
<1>8. \A y, z \in Blocks : Count(preds'[y], z) = IF y = target /\ z = x THEN Count(preds[y], z) + 1
                                                                        ELSE Count(preds[y], z)
    BY <1>1, <1>3 DEF Lists
<1>9. \A y \in Blocks : Count(succs[x], y) = 0 /\ Count(preds[y], x) = 0
    BY <1>1, CountNone DEF Open, EdgesAgree
<1>10. EdgesAgree'
    <2> SUFFICES ASSUME NEW y \in Blocks, NEW z \in Blocks
                 PROVE  Count(succs'[z], y) = Count(preds'[y], z)
        BY DEF EdgesAgree
    <2>1. Count(succs[z], y) = Count(preds[y], z)
        BY <1>1 DEF EdgesAgree
    <2> QED
        BY <1>7, <1>8, <1>9, <2>1
<1>11. EdgesInside'
    <2>1. IsBlock(x) /\ IsBlock(target) /\ \A y : IsBlock(y)' <=> IsBlock(y)
        BY DEF IsBlock
    <2> QED
        BY <1>1, <1>7, <2>1 DEF EdgesInside
<1>12. PhiInputsAligned'
    <2>1. Len(Append(preds[target], x)) = Len(preds[target]) + 1 /\ Len(preds[target]) \in Nat
          /\ \A k \in 1 .. Len(preds[target]) : Append(preds[target], x)[k] = preds[target][k]
        BY <1>2
    <2>2. Len(preds[PhiBlock]) <= Len(preds'[PhiBlock])
          /\ \A k \in 1 .. Len(preds[PhiBlock]) : preds'[PhiBlock][k] = preds[PhiBlock][k]
        <3>1. CASE PhiBlock = target
            BY <1>1, <2>1, <3>1 DEF Lists
        <3>2. CASE PhiBlock # target
            <4>1. preds'[PhiBlock] = preds[PhiBlock] /\ Len(preds[PhiBlock]) \in Nat
                BY <1>1, <3>2, ControlFlowAssumption DEF Lists
            <4> QED
                BY <4>1
        <3> QED
            BY <3>1, <3>2
    <2> QED
        BY <1>1, <1>5, <2>2, AlignedWithMore DEF IInv
<1> QED
    BY <1>6, <1>10, <1>11, <1>12 DEF IInv

LEMMA CreateBranchInv ==
    ASSUME IInv, NEW x \in Blocks, NEW true \in Blocks, NEW false \in Blocks, CreateBranch(x, true, false)
    PROVE  IInv'
<1> USE DEF CreateBranch
<1> DEFINE targets == <<true, false>>
<1>1. TypeOK /\ preds \in Lists /\ succs \in Lists /\ EdgesInside /\ EdgesAgree /\ targets \in Seq(Blocks)
    BY DEF IInv, TypeOK
<1>2. succs' = [succs EXCEPT ![x] = targets] /\ preds' = Enter(preds, x, targets)
    OBVIOUS
<1>3. \A y \in Blocks : Count(targets, y) # 0 => y \in {true, false}
    <2>1. Range(targets) = {true, false}
        BY DEF Range
    <2> HIDE DEF targets
    <2> QED
        BY <1>1, <2>1, Listed
<1> HIDE DEF targets
<1>4. /\ preds' \in Lists
      /\ \A y, z \in Blocks : Count(preds'[y], z) = IF z = x THEN Count(preds[y], x) + Count(targets, y)
                                                             ELSE Count(preds[y], z)
      /\ \A y \in Blocks : /\ Len(preds[y]) <= Len(preds'[y])
                           /\ \A k \in 1 .. Len(preds[y]) : preds'[y][k] = preds[y][k]
    <2> HIDE DEF CreateBranch
    <2> DEFINE after == Enter(preds, x, targets)
    <2>1. preds' = after
        BY <1>2
    <2>2. /\ after \in Lists
          /\ \A y, z \in Blocks : Count(after[y], z) = IF z = x THEN Count(preds[y], x) + Count(targets, y)
                                                                ELSE Count(preds[y], z)
          /\ \A y \in Blocks : /\ Len(preds[y]) <= Len(after[y])
                               /\ \A k \in 1 .. Len(preds[y]) : after[y][k] = preds[y][k]
        BY <1>1, Enters
    <2> HIDE DEF after
    <2>3. preds' \in Lists
        BY <2>1, <2>2
    <2>4. \A y, z \in Blocks : Count(preds'[y], z) = IF z = x THEN Count(preds[y], x) + Count(targets, y)
                                                             ELSE Count(preds[y], z)
        BY <2>1, <2>2
    <2>5. \A y \in Blocks : /\ Len(preds[y]) <= Len(preds'[y])
                            /\ \A k \in 1 .. Len(preds[y]) : preds'[y][k] = preds[y][k]
        BY <2>1, <2>2
    <2> QED
        BY <2>3, <2>4, <2>5
<1>5. succs' \in Lists /\ \A z \in Blocks : succs'[z] = IF z = x THEN targets ELSE succs[z]
    BY <1>1, <1>2 DEF Lists
<1>6. TypeOK' /\ MadeOnce'
    BY <1>4, <1>5 DEF IInv, TypeOK, MadeOnce
<1>7. \A y \in Blocks : Count(preds[y], x) = 0 /\ Count(targets, y) \in Nat
    BY <1>1, CountNone, PlacesAreFinite DEF Open, EdgesAgree
<1>8. EdgesAgree'
    <2> SUFFICES ASSUME NEW y \in Blocks, NEW z \in Blocks
                 PROVE  Count(succs'[z], y) = Count(preds'[y], z)
        BY DEF EdgesAgree
    <2>1. Count(succs[z], y) = Count(preds[y], z)
        BY <1>1 DEF EdgesAgree
    <2> QED
        <3>1. CASE z = x
            <4>1. Count(preds'[y], z) = Count(preds[y], x) + Count(targets, y)
                BY <1>4, <3>1
            <4>2. Count(preds[y], x) = 0 /\ Count(targets, y) \in Nat
                BY <1>7
            <4>3. Count(succs'[z], y) = Count(targets, y)
                BY <1>5, <3>1
            <4> HIDE DEF CreateBranch
            <4> QED
                BY <4>1, <4>2, <4>3
        <3>2. CASE z # x
            BY <1>4, <1>5, <2>1, <3>2
        <3> QED
            BY <3>1, <3>2
<1>9. EdgesInside'
    <2>1. IsBlock(x) /\ IsBlock(true) /\ IsBlock(false) /\ \A y : IsBlock(y)' <=> IsBlock(y)
        BY DEF IsBlock
    <2> QED
        BY <1>1, <1>3, <1>5, <2>1 DEF EdgesInside
<1>10. PhiInputsAligned'
    BY <1>1, <1>4, AlignedWithMore, ControlFlowAssumption DEF IInv
<1> QED
    BY <1>6, <1>8, <1>9, <1>10 DEF IInv

LEMMA AddIncomingInv ==
    ASSUME IInv, NEW p \in Blocks, AddIncoming(p)
    PROVE  IInv'
<1> USE DEF AddIncoming
<1> DEFINE ps == preds[PhiBlock]
           index == Find(ps, p)
           n == IF index > Len(inputs) THEN index ELSE Len(inputs)
<1>1. TypeOK /\ inputs \in Seq(Blocks \cup {None}) /\ ps \in Seq(Blocks)
    BY ControlFlowAssumption DEF IInv, TypeOK, Lists
<1>2. index \in 1 .. Len(ps) /\ ps[index] = p /\ \A e \in 1 .. index - 1 : ps[e] # p
    BY <1>1, Found
<1>3. inputs' = [k \in 1 .. n |-> IF k = index THEN p ELSE IF k <= Len(inputs) THEN inputs[k] ELSE None]
    BY DEF SetInputAt
<1> HIDE DEF index
<1>4. Len(inputs) \in Nat /\ n \in Nat /\ DOMAIN inputs = 1 .. Len(inputs) /\ DOMAIN ps = 1 .. Len(ps) /\ Len(ps) \in Nat
    BY <1>1, <1>2
<1>5. inputs' \in Seq(Blocks \cup {None}) /\ Len(inputs') = n /\ DOMAIN inputs' = 1 .. n
    <2>1. \A k \in 1 .. n : (IF k = index THEN p ELSE IF k <= Len(inputs) THEN inputs[k] ELSE None) \in Blocks \cup {None}
        BY <1>1, <1>4
    <2> QED
        BY <1>3, <1>4, <2>1
<1>6. TypeOK' /\ MadeOnce' /\ EdgesAgree'
    BY <1>5 DEF IInv, TypeOK, MadeOnce, EdgesAgree
<1>7. EdgesInside'
    BY DEF IInv, EdgesInside, IsBlock
<1>8. PhiInputsAligned'
    <2> SUFFICES ASSUME cut = {} /\ ~inlined
                 PROVE  Aligned' /\ AtFirstEdge' /\ (Len(inputs) <= Len(preds[PhiBlock]))'
        BY DEF PhiInputsAligned
    <2>1. Aligned /\ AtFirstEdge /\ Len(inputs) <= Len(ps)
        BY DEF IInv, PhiInputsAligned
    <2>2. \A k \in 1 .. n : inputs'[k] # None => inputs'[k] = ps[k]
        BY <1>2, <1>3, <1>4, <2>1 DEF Aligned
    <2>3. n <= Len(ps)
        BY <1>2, <2>1
    <2>4. preds'[PhiBlock] = ps
        OBVIOUS
    <2>5. ASSUME NEW k \in 1 .. n, inputs'[k] # None, NEW e \in 1 .. k - 1
          PROVE  ps[e] # ps[k]
        <3>1. CASE k = index
            BY <1>2, <2>5, <3>1
        <3>2. CASE k # index
            <4>1. k \in DOMAIN inputs /\ inputs[k] # None /\ k \in DOMAIN ps
                BY <1>3, <1>4, <2>3, <2>5, <3>2
            <4> QED
                BY <2>1, <4>1 DEF AtFirstEdge
        <3> QED
            BY <3>1, <3>2
    <2> HIDE DEF ps, n
    <2>6. AtFirstEdge'
        BY <1>5, <2>4, <2>5 DEF AtFirstEdge
    <2> QED
        BY <1>4, <1>5, <2>2, <2>3, <2>4, <2>6 DEF Aligned
<1> QED
    BY <1>6, <1>7, <1>8 DEF IInv

LEMMA SplitAtInv ==
    ASSUME IInv, NEW x \in Blocks, NEW new \in Blocks, SplitAt(x, new)
    PROVE  IInv'
<1> USE DEF SplitAt, CreateFor
<1>1. TypeOK /\ preds \in Lists /\ succs \in Lists /\ EdgesInside /\ EdgesAgree /\ x # new
      /\ inputs \in Seq(Blocks \cup {None})
    BY DEF IInv, TypeOK
<1>2. /\ (created \in Seq(Blocks))' /\ MadeOnce'
      /\ \A y : IsBlock(y)' <=> IsBlock(y) \/ y = new
    BY MadeNext
<1>3. \A s \in Blocks : succs[s] \in Seq(Blocks) /\ preds[s] \in Seq(Blocks)
    BY <1>1 DEF Lists
<1>4. \A y, z \in Blocks : Count(succs[z], y) \in Nat /\ Count(preds[y], z) \in Nat
                           /\ Count(succs[z], y) = Count(preds[y], z)
    BY <1>1, <1>3, PlacesAreFinite DEF EdgesAgree
<1>5. \A y \in Blocks : Count(succs[new], y) = 0 /\ Count(preds[y], new) = 0
    BY <1>1, <1>4 DEF EdgesInside
<1>6. \A y \in Blocks : y \in Range(succs[x]) <=> Count(succs[x], y) # 0
    BY <1>3, Listed
<1>7. succs' \in Lists
      /\ \A z \in Blocks : succs'[z] = IF z = x THEN <<>> ELSE IF z = new THEN succs[x] ELSE succs[z]
    <2>1. <<>> \in Seq(Blocks)
        OBVIOUS
    <2> QED
        BY <1>1, <1>3, <2>1 DEF Lists
<1>8. ASSUME NEW s \in Blocks
      PROVE  /\ ReplaceAll(preds[s], x, new) \in Seq(Blocks)
             /\ Len(ReplaceAll(preds[s], x, new)) = Len(preds[s])
             /\ \A z \in Blocks : Count(ReplaceAll(preds[s], x, new), z) =
                                     IF z = x THEN 0
                                     ELSE IF z = new THEN Count(preds[s], x) + Count(preds[s], new)
                                     ELSE Count(preds[s], z)
    <2> HIDE DEF SplitAt
    <2> DEFINE list == preds[s]
    <2>1. list \in Seq(Blocks)
        BY <1>3
    <2> HIDE DEF list
    <2>2. /\ ReplaceAll(list, x, new) \in Seq(Blocks)
          /\ Len(ReplaceAll(list, x, new)) = Len(list)
        BY <1>1, <2>1, CountReplaced
    <2>3. \A z \in Blocks : Count(ReplaceAll(list, x, new), z) =
                                IF z = x THEN 0
                                ELSE IF z = new THEN Count(list, x) + Count(list, new)
                                ELSE Count(list, z)
        BY <1>1, <2>1, CountReplaced
    <2> QED
        BY <2>2, <2>3 DEF list
<1>9. \A s \in Blocks : preds'[s] = IF s \in Range(succs[x]) THEN ReplaceAll(preds[s], x, new) ELSE preds[s]
    BY DEF TakeOver
<1>10. preds' \in Lists
    BY <1>3, <1>8 DEF TakeOver, Lists
<1>11. inputs' \in Seq(Blocks \cup {None})
    <2>1. ReplaceAll(inputs, x, new) \in Seq(Blocks \cup {None})
        BY <1>1, CountReplaced
    <2> QED
        BY <1>1, <2>1
<1>12. TypeOK'
    BY <1>2, <1>7, <1>10, <1>11 DEF IInv, TypeOK
<1>13. EdgesAgree'
    <2> SUFFICES ASSUME NEW y \in Blocks, NEW z \in Blocks
                 PROVE  Count(succs'[z], y) = Count(preds'[y], z)
        BY DEF EdgesAgree
    <2>1. CASE y \in Range(succs[x])
        <3>1. Count(preds'[y], z) = IF z = x THEN 0
                                    ELSE IF z = new THEN Count(preds[y], x) + Count(preds[y], new)
                                    ELSE Count(preds[y], z)
            BY <1>8, <1>9, <2>1
        <3>2. CASE z = x
            <4>1. succs'[z] = <<>>
                BY <1>7, <3>2
            <4>2. Count(succs'[z], y) = 0
                BY <4>1, CountNone
            <4> QED
                BY <3>1, <3>2, <4>2
        <3>3. CASE z = new
            <4>1. succs'[z] = succs[x]
                BY <1>1, <1>7, <3>3
            <4>2. Count(preds'[y], z) = Count(preds[y], x) + Count(preds[y], new)
                BY <1>1, <3>1, <3>3
            <4>3. Count(preds[y], new) = 0 /\ Count(preds[y], x) \in Nat /\ Count(succs[x], y) = Count(preds[y], x)
                BY <1>4, <1>5
            <4> HIDE DEF SplitAt
            <4> QED
                BY <4>1, <4>2, <4>3
        <3>4. CASE z # x /\ z # new
            <4>1. succs'[z] = succs[z]
                BY <1>7, <3>4
            <4> QED
                BY <1>4, <3>1, <3>4, <4>1
        <3> QED
            BY <3>2, <3>3, <3>4
    <2>2. CASE y \notin Range(succs[x])
        <3>1. preds'[y] = preds[y] /\ Count(succs[x], y) = 0
            BY <1>6, <1>9, <2>2
        <3>2. Count(preds[y], x) = 0
            BY <1>4, <3>1
        <3>3. CASE z = x
            <4>1. succs'[z] = <<>>
                BY <1>7, <3>3
            <4>2. Count(succs'[z], y) = 0
                BY <4>1, CountNone
            <4> QED
                BY <3>1, <3>2, <3>3, <4>2
        <3>4. CASE z = new
            BY <1>1, <1>5, <1>7, <3>1, <3>4
        <3>5. CASE z # x /\ z # new
            <4>1. succs'[z] = succs[z]
                BY <1>7, <3>5
            <4> QED
                BY <1>4, <3>1, <3>5, <4>1
        <3> QED
            BY <3>3, <3>4, <3>5
    <2> QED
        BY <2>1, <2>2
<1>14. EdgesInside'
    <2> SUFFICES ASSUME NEW z \in Blocks, NEW y \in Blocks, Count(succs'[z], y) # 0
                 PROVE  IsBlock(z)' /\ IsBlock(y)'
        BY DEF EdgesInside
    <2>1. z # x
        BY <1>7, CountNone
    <2>2. CASE z = new
        BY <1>1, <1>2, <1>7, <2>1, <2>2 DEF EdgesInside
    <2>3. CASE z # new
        BY <1>1, <1>2, <1>7, <2>1, <2>3 DEF EdgesInside
    <2> QED
        BY <2>2, <2>3
<1>15. PhiInputsAligned'
    <2> SUFFICES ASSUME cut' = {}, ~inlined
                 PROVE  Aligned' /\ AtFirstEdge' /\ (Len(inputs) <= Len(preds[PhiBlock]))'
        BY DEF PhiInputsAligned
    <2> DEFINE ps == preds[PhiBlock]
    <2>1. cut = {}
        OBVIOUS
    <2>2. Aligned /\ AtFirstEdge /\ Len(inputs) <= Len(ps)
        BY <2>1 DEF IInv, PhiInputsAligned
    <2>3. PhiBlock \in Blocks /\ ps \in Seq(Blocks) /\ x # None
        BY <1>3, ControlFlowAssumption
    <2>4. CASE PhiBlock \notin Range(succs[x])
        <3>1. inputs' = inputs /\ preds'[PhiBlock] = ps
            BY <1>9, <2>3, <2>4
        <3> QED
            BY <2>2, <3>1 DEF Aligned, AtFirstEdge
    <2>5. CASE PhiBlock \in Range(succs[x])
        <3>1. inputs' = ReplaceAll(inputs, x, new) /\ preds'[PhiBlock] = ReplaceAll(ps, x, new)
            BY <1>9, <2>3, <2>5
        <3>2. DOMAIN inputs' = DOMAIN inputs /\ Len(inputs') = Len(inputs)
              /\ \A k \in DOMAIN inputs : inputs'[k] = IF inputs[k] = x THEN new ELSE inputs[k]
            BY <1>1, <3>1 DEF ReplaceAll
        <3>3. DOMAIN preds'[PhiBlock] = DOMAIN ps /\ Len(preds'[PhiBlock]) = Len(ps)
              /\ \A k \in DOMAIN ps : preds'[PhiBlock][k] = IF ps[k] = x THEN new ELSE ps[k]
            BY <2>3, <3>1 DEF ReplaceAll
        <3>4. \A k \in DOMAIN inputs \cap DOMAIN ps : inputs[k] # None => inputs[k] = ps[k]
            BY <2>2 DEF Aligned
        <3>6. \A k \in DOMAIN inputs \cap DOMAIN ps : inputs[k] # None => \A e \in 1 .. k - 1 : ps[e] # ps[k]
            BY <2>2 DEF AtFirstEdge
        <3>7. \A e \in DOMAIN ps : ps[e] # new
            <4>1. Count(ps, new) = 0
                BY <1>5, <2>3
            <4>2. new \notin Range(ps)
                BY <2>3, <4>1, Listed
            <4> QED
                BY <4>2 DEF Range
        <3>8. DOMAIN ps = 1 .. Len(ps) /\ Len(ps) \in Nat
            BY <2>3
        <3> HIDE DEF ps
        <3>5. \A k \in DOMAIN inputs' \cap DOMAIN preds'[PhiBlock] :
                 inputs'[k] # None => inputs'[k] = preds'[PhiBlock][k]
            BY <2>3, <3>2, <3>3, <3>4
        <3>9. AtFirstEdge'
            <4> SUFFICES ASSUME NEW k \in DOMAIN inputs \cap DOMAIN ps, inputs'[k] # None, NEW e \in 1 .. k - 1
                         PROVE  preds'[PhiBlock][e] # preds'[PhiBlock][k]
                BY <3>2, <3>3 DEF AtFirstEdge
            <4>1. inputs[k] # None
                BY <2>3, <3>2
            <4>2. e \in DOMAIN ps /\ ps[e] # ps[k]
                BY <3>6, <3>8, <4>1
            <4> HIDE DEF SplitAt
            <4> QED
                BY <3>3, <3>7, <4>2
        <3> QED
            BY <2>2, <3>2, <3>3, <3>5, <3>9 DEF Aligned
    <2> QED
        BY <2>4, <2>5
<1> QED
    BY <1>2, <1>12, <1>13, <1>14, <1>15 DEF IInv

LEMMA ClearSuccessorsInv ==
    ASSUME IInv, NEW x \in Blocks, ClearSuccessors(x)
    PROVE  IInv'
<1> USE DEF ClearSuccessors
<1>1. TypeOK /\ preds \in Lists /\ succs \in Lists /\ EdgesInside /\ EdgesAgree /\ succs[x] \in Seq(Blocks)
    BY DEF IInv, TypeOK, Lists
<1>2. /\ preds' \in Lists
      /\ \A y, z \in Blocks : Count(preds'[y], z) = IF z = x THEN 0 ELSE Count(preds[y], z)
    <2> DEFINE targets == succs[x]
    <2>1. \A y \in Blocks : Count(targets, y) = Count(preds[y], x)
        BY <1>1 DEF EdgesAgree
    <2>2. targets \in Seq(Blocks) /\ preds' = Leave(preds, x, targets)
        BY <1>1
    <2> HIDE DEF targets
    <2> QED
        BY <1>1, <2>1, <2>2, Leaves
<1>3. succs' \in Lists /\ \A z \in Blocks : succs'[z] = IF z = x THEN <<>> ELSE succs[z]
    <2>1. <<>> \in Seq(Blocks)
        OBVIOUS
    <2> QED
        BY <1>1, <2>1 DEF Lists
<1>4. TypeOK' /\ MadeOnce'
    BY <1>2, <1>3 DEF IInv, TypeOK, MadeOnce
<1>5. EdgesAgree'
    BY <1>1, <1>2, <1>3, CountNone DEF EdgesAgree
<1>6. EdgesInside'
    BY <1>1, <1>3, CountNone DEF EdgesInside, IsBlock
<1>7. PhiInputsAligned'
    <2>1. cut' # {}
        OBVIOUS
    <2> QED
        BY <2>1 DEF PhiInputsAligned
<1> QED
    BY <1>4, <1>5, <1>6, <1>7 DEF IInv

LEMMA ConnectCFGInv ==
    ASSUME IInv, ConnectCFG
    PROVE  IInv'
<1> USE DEF ConnectCFG
<1>1. TypeOK /\ MadeOnce /\ created \in Seq(Blocks) /\ succs \in Lists /\ EdgesInside
    BY DEF IInv, TypeOK
<1>2. /\ preds' \in Lists
      /\ \A y, z \in Blocks : Count(preds'[y], z) = IF IsBlock(z) THEN Count(succs[z], y) ELSE 0
    BY <1>1, EnteredCounts
<1>3. TypeOK' /\ MadeOnce'
    BY <1>2 DEF IInv, TypeOK, MadeOnce
<1>4. EdgesAgree' /\ EdgesInside'
    BY <1>1, <1>2 DEF EdgesAgree, EdgesInside, IsBlock
<1>5. PhiInputsAligned'
    BY DEF PhiInputsAligned
<1> QED
    BY <1>3, <1>4, <1>5 DEF IInv

LEMMA NextInv == IInv /\ [Next]_vars => IInv'
<1> SUFFICES ASSUME IInv, [Next]_vars
             PROVE  IInv'
    OBVIOUS
<1>1. CASE UNCHANGED vars
    BY <1>1 DEF vars, IInv, TypeOK, MadeOnce, EdgesInside, EdgesAgree, PhiInputsAligned, Aligned, AtFirstEdge, IsBlock
<1>2. CASE Next
    BY <1>2, CreateBasicBlockInv, CreateJumpInv, CreateBranchInv, AddIncomingInv, SplitAtInv,
       ClearSuccessorsInv, ConnectCFGInv DEF Next
<1> QED
    BY <1>1, <1>2

-----------------------------------------------------------------------------

(***************************************************************************)
(* What is known of the lists between any two calls of basic_block.cpp,    *)
(* the builder and the inliner.                                            *)
(***************************************************************************)
THEOREM InductiveInvariant == Spec => []IInv
<1> QED
    BY InitInv, NextInv, PTL DEF Spec

(***************************************************************************)
(* predecessors_ and successors_ say the same: an edge is in both lists    *)
(* equally often, for graphs of any size and any sequence of jumps,        *)
(* branches, splits, cut-offs and clonings.                                *)
(***************************************************************************)
THEOREM EdgesStayInBothLists == Spec => []EdgesAgree
<1>1. IInv => EdgesAgree
    BY DEF IInv
<1> QED
    BY <1>1, InductiveInvariant, PTL

(***************************************************************************)
(* No list of edges names a block that the graph does not have: what a     *)
(* walk along the edges meets is in blocks_.                               *)
(***************************************************************************)
THEOREM EdgesStayInside == Spec => [](\A x \in Blocks : Range(succs[x]) \cup Range(preds[x]) \subseteq Range(created))
<1> DEFINE Inside == \A x \in Blocks : Range(succs[x]) \cup Range(preds[x]) \subseteq Range(created)
<1>1. IInv => Inside
    <2> SUFFICES ASSUME IInv, NEW x \in Blocks, NEW y \in Range(succs[x]) \cup Range(preds[x])
                 PROVE  y \in Range(created)
        BY DEF Inside
    <2>1. succs[x] \in Seq(Blocks) /\ preds[x] \in Seq(Blocks)
        BY DEF IInv, TypeOK, Lists
    <2>2. y \in Blocks
        BY <2>1 DEF Range
    <2>3. Count(succs[x], y) # 0 \/ Count(preds[x], y) # 0
        BY <2>1, Listed
    <2>4. Count(succs[x], y) # 0 \/ Count(succs[y], x) # 0
        BY <2>2, <2>3 DEF IInv, EdgesAgree
    <2> QED
        BY <2>2, <2>4 DEF IInv, EdgesInside, IsBlock
<1> QED
    BY <1>1, InductiveInvariant, PTL

(***************************************************************************)
(* PhiInst::AddIncoming puts an input where the later readers look for it: *)
(* as long as no block is cut off and the graph is no clone, the input at  *)
(* a position is the one of the predecessor at that position, and at its   *)
(* first, whatever edges were added and however often the predecessors     *)
(* were split.                                                             *)
(***************************************************************************)
THEOREM InputsStayWithPredecessors == Spec => []PhiInputsAligned
<1>1. IInv => PhiInputsAligned
    BY DEF IInv
<1> QED
    BY <1>1, InductiveInvariant, PTL

=============================================================================
