------------------------- MODULE GraphAnalysesProofs -------------------------
(***************************************************************************)
(* Proofs about GraphAnalyses for every graph and every program.  First    *)
(* DominatorTree, as it runs in it and alone: ComputeRPO leaves a reverse  *)
(* postorder, the fingers of the intersection stay on the tree, and the    *)
(* tree BuildDominatorTree stops with is that of dominance on paths.  Then *)
(* what it hands on, and EliminateDominatedChecks and                      *)
(* LoopAnalyzer::Analyze that read it.                                     *)
(***************************************************************************)
EXTENDS GraphAnalyses, FiniteSetTheorems, WellFoundedInduction, TLAPS

-----------------------------------------------------------------------------
(* Lemmas on reachability, which is the least closed set. *)

LEMMA ReachFromIsClosed ==
    ASSUME NEW G, NEW S, NEW Within
    PROVE  /\ S \subseteq ReachFrom(G, S, Within)
           /\ ReachFrom(G, S, Within) \subseteq S \cup Within
           /\ \A x \in ReachFrom(G, S, Within) : G[x] \cap Within \subseteq ReachFrom(G, S, Within)
<1>1. \A R \in ClosedSets(G, S, Within) : S \subseteq R /\ \A x \in R : G[x] \cap Within \subseteq R
    BY DEF ClosedSets
<1> QED
    BY <1>1 DEF ReachFrom

\* To show that what is reached has a property, show that the property is closed.
LEMMA ReachFromIsLeast ==
    ASSUME NEW G, NEW S, NEW Within, NEW R,
           S \subseteq R, \A x \in R : x \in S \cup Within => G[x] \cap Within \subseteq R
    PROVE  ReachFrom(G, S, Within) \subseteq R
<1> DEFINE T == (R \cap Within) \ S
<1>1. S \cup T = R \cap (S \cup Within)
    OBVIOUS
<1>2. S \cup T \in ClosedSets(G, S, Within)
    BY <1>1 DEF ClosedSets
<1> QED
    BY <1>1, <1>2 DEF ReachFrom

LEMMA ReachFromIsMonotonic ==
    ASSUME NEW G, NEW S, NEW Within, NEW T, NEW Wider, S \subseteq T, Within \subseteq Wider
    PROVE  ReachFrom(G, S, Within) \subseteq ReachFrom(G, T, Wider)
<1> DEFINE R == ReachFrom(G, T, Wider)
<1>1. T \subseteq R /\ \A x \in R : G[x] \cap Wider \subseteq R
    BY ReachFromIsClosed
<1> HIDE DEF R
<1>2. ReachFrom(G, S, Within) \subseteq R
    BY <1>1, ReachFromIsLeast
<1> QED
    BY <1>2 DEF R

\* Every set of numbers has a least element.
LEMMA LeastNumber ==
    ASSUME NEW T \in SUBSET Nat, T # {}
    PROVE  \E n \in T : \A m \in T : n <= m
<1>1. PICK n \in T : \A m \in T : ~ <<m, n>> \in OpToRel(<, Nat)
    BY NatLessThanWellFounded, WFMin
<1>2. \A m \in T : ~ (m < n)
    BY <1>1 DEF OpToRel
<1> QED
    BY <1>2

-----------------------------------------------------------------------------
(* The search. *)

TypeOK ==
    /\ succs \in [Blocks -> SUBSET Blocks]
    /\ pc \in {"dfs", "pass", "merge", "walk", "done"}
    /\ stack \in Seq(Blocks)
    /\ visited \in SUBSET Blocks
    /\ order \in Seq(Blocks)
    /\ idom \in [Blocks -> Blocks \cup {None}]

\* Blocks are visited once, and those of open calls are not yet in the order.
VisitedOnce ==
    /\ visited = Range(stack) \cup Range(order)
    /\ Range(stack) \cap Range(order) = {}
    /\ \A i, j \in 1 .. Len(stack) : stack[i] = stack[j] => i = j
    /\ \A i, j \in 1 .. Len(order) : order[i] = order[j] => i = j

OnlyReachableVisited == Start \in visited /\ visited \subseteq Reachable

\* What has returned, and the open calls from the i-th on.
Within(i) == Range(order) \cup {stack[n] : n \in i .. Len(stack)}

\* Each open call was made on the way of those below it.
StackIsPath ==
    /\ stack # <<>> => stack[1] = Start
    /\ \A i \in 2 .. Len(stack) : stack[i] \in succs[stack[i - 1]]
    /\ \A i \in 1 .. Len(stack) : \A j \in i .. Len(stack) :
          stack[j] \in ReachFrom(succs, {stack[i]}, Within(i))

ReturnedIsExplored == \A y \in Range(order) : succs[y] \subseteq visited

\* An edge back to an open call closes a cycle.
EdgesIntoStack ==
    \A y \in Range(order), i \in 1 .. Len(stack) :
        stack[i] \in succs[y] => y \in ReachFrom(succs, {stack[i]}, Within(i))

UpTo(k) == {order[n] : n \in 1 .. k}

\* An edge to a block that returned later closes a cycle too.
EdgesInPostorder ==
    \A k \in 1 .. Len(order) : \A j \in 1 .. k :
        order[k] \in succs[order[j]] => order[j] \in ReachFrom(succs, {order[k]}, UpTo(k))

\* The block that called for order[k] is still open or returned later.
CallersReturnLater ==
    \A k \in 1 .. Len(order) :
        \/ order[k] = Start
        \/ \E i \in 1 .. Len(stack) : order[k] \in succs[stack[i]]
        \/ \E j \in (k + 1) .. Len(order) : order[k] \in succs[order[j]]

StartReturnsLast == stack = <<>> => Len(order) > 0 /\ order[Len(order)] = Start

SearchInv ==
    /\ VisitedOnce
    /\ OnlyReachableVisited
    /\ StackIsPath
    /\ ReturnedIsExplored
    /\ EdgesIntoStack
    /\ EdgesInPostorder
    /\ CallersReturnLater
    /\ StartReturnsLast

LEMMA InitSearch == Init => TypeOK /\ SearchInv
<1> SUFFICES ASSUME Init
             PROVE  TypeOK /\ SearchInv
    OBVIOUS
<1> USE BlocksAssumption DEF Init
<1>1. TypeOK
    BY DEF TypeOK
<1>2. /\ Len(stack) = 1 /\ stack[1] = Start /\ DOMAIN stack = {1}
      /\ Len(order) = 0 /\ DOMAIN order = {}
    OBVIOUS
<1>3. Range(stack) = {Start} /\ Range(order) = {}
    BY <1>2 DEF Range
<1>4. VisitedOnce
    BY <1>2, <1>3 DEF VisitedOnce
<1>5. Start \in Reachable
    BY ReachFromIsClosed DEF Reachable, ReachableIn
<1>6. StackIsPath
    <2>1. ASSUME NEW i \in 1 .. Len(stack), NEW j \in i .. Len(stack)
          PROVE  stack[j] \in ReachFrom(succs, {stack[i]}, Within(i))
        <3>1. stack[j] = stack[i]
            BY <1>2
        <3> QED
            BY <3>1, ReachFromIsClosed
    <2> QED
        BY <1>2, <2>1 DEF StackIsPath
<1>7. EdgesIntoStack /\ ReturnedIsExplored
    BY <1>3 DEF EdgesIntoStack, ReturnedIsExplored
<1>8. EdgesInPostorder /\ CallersReturnLater /\ StartReturnsLast
    BY <1>2 DEF EdgesInPostorder, CallersReturnLater, StartReturnsLast
<1> QED
    BY <1>1, <1>4, <1>5, <1>6, <1>7, <1>8 DEF SearchInv, OnlyReachableVisited

LEMMA DescendSearch ==
    ASSUME TypeOK, SearchInv, Descend
    PROVE  TypeOK' /\ SearchInv'
<1> DEFINE n == Len(stack)
<1>1. PICK x \in succs[Last(stack)] \ visited :
        stack' = Append(stack, x) /\ visited' = visited \cup {x}
    BY DEF Descend
<1>2. UNCHANGED <<succs, pc, order, idom>>
    BY DEF Descend, tree
<1>3. /\ n \in Nat /\ n > 0
      /\ stack[n] \in Blocks /\ x \in succs[stack[n]] /\ x \in Blocks
      /\ DOMAIN stack = 1 .. n
    BY <1>1 DEF Descend, TypeOK, Last
<1>4. /\ stack' \in Seq(Blocks) /\ Len(stack') = n + 1 /\ DOMAIN stack' = 1 .. n + 1
      /\ \A i \in 1 .. n : stack'[i] = stack[i]
      /\ stack'[n + 1] = x
    BY <1>1, <1>3 DEF TypeOK
<1>5. TypeOK'
    BY <1>1, <1>2, <1>3, <1>4 DEF TypeOK
<1>6. /\ Range(stack) = {stack[i] : i \in 1 .. n}
      /\ Range(stack') = {stack'[i] : i \in 1 .. n + 1}
    BY <1>3, <1>4 DEF Range
<1> HIDE DEF n
<1>7. Range(stack') = Range(stack) \cup {x}
    BY <1>3, <1>4, <1>6
<1>8. VisitedOnce'
    <2>1. \A i \in 1 .. n : stack[i] # x
        BY <1>1, <1>6 DEF SearchInv, VisitedOnce
    <2>2. \A i, j \in 1 .. n + 1 : stack'[i] = stack'[j] => i = j
        BY <1>3, <1>4, <2>1 DEF SearchInv, VisitedOnce, n
    <2> QED
        BY <1>1, <1>2, <1>4, <1>7, <2>2 DEF SearchInv, VisitedOnce
<1>9. OnlyReachableVisited'
    <2>1. stack[n] \in Reachable
        BY <1>3, <1>6 DEF SearchInv, VisitedOnce, OnlyReachableVisited
    <2>2. x \in Reachable
        BY <1>3, <2>1, ReachFromIsClosed DEF Reachable, ReachableIn, TypeOK
    <2> QED
        BY <1>1, <1>2, <2>2 DEF SearchInv, OnlyReachableVisited, Reachable
<1>10. \A i \in 1 .. n + 1 : Within(i)' = Within(i) \cup {x}
    <2> SUFFICES ASSUME NEW i \in 1 .. n + 1
                 PROVE  {stack'[k] : k \in i .. n + 1} = {stack[k] : k \in i .. n} \cup {x}
        BY <1>2, <1>4 DEF Within, n
    <2> QED
        BY <1>3, <1>4
<1>11. \A y : \A i \in 1 .. n : y \in ReachFrom(succs, {stack[i]}, Within(i))
                                => y \in ReachFrom(succs, {stack[i]}, Within(i)')
    BY <1>3, <1>10, ReachFromIsMonotonic
<1>12. StackIsPath'
    <2>1. stack'[1] = Start
        BY <1>3, <1>4 DEF SearchInv, StackIsPath, n
    <2>2. \A i \in 2 .. n + 1 : stack'[i] \in succs[stack'[i - 1]]
        BY <1>3, <1>4 DEF SearchInv, StackIsPath, n
    <2>3. ASSUME NEW i \in 1 .. n, NEW j \in i .. n
          PROVE  stack'[j] \in ReachFrom(succs, {stack'[i]}, Within(i)')
        BY <1>3, <1>4, <1>11 DEF SearchInv, StackIsPath, n
    <2>4. ASSUME NEW i \in 1 .. n
          PROVE  x \in ReachFrom(succs, {stack'[i]}, Within(i)')
        <3>1. stack[n] \in ReachFrom(succs, {stack'[i]}, Within(i)')
            BY <1>3, <1>4, <2>3
        <3>2. x \in Within(i)'
            BY <1>3, <1>10
        <3> QED
            BY <1>3, <3>1, <3>2, ReachFromIsClosed
    <2>5. ASSUME NEW i \in 1 .. n + 1, NEW j \in i .. n + 1
          PROVE  stack'[j] \in ReachFrom(succs, {stack'[i]}, Within(i)')
        <3>1. CASE i \in 1 .. n /\ j \in i .. n
            BY <2>3, <3>1
        <3>2. CASE i \in 1 .. n /\ j = n + 1
            BY <1>4, <2>4, <3>2
        <3>3. CASE i = n + 1 /\ j = n + 1
            <4>1. stack'[j] = stack'[i]
                BY <3>3
            <4> QED
                BY <4>1, ReachFromIsClosed
        <3> QED
            BY <1>3, <3>1, <3>2, <3>3
    <2> QED
        BY <1>2, <1>4, <2>1, <2>2, <2>5 DEF StackIsPath
<1>13. ReturnedIsExplored'
    BY <1>1, <1>2 DEF SearchInv, ReturnedIsExplored
<1>14. EdgesIntoStack'
    <2>1. ASSUME NEW y \in Range(order), NEW i \in 1 .. n + 1, stack'[i] \in succs[y]
          PROVE  y \in ReachFrom(succs, {stack'[i]}, Within(i)')
        <3>1. stack'[i] # x
            BY <1>1, <2>1 DEF SearchInv, ReturnedIsExplored
        <3>2. i \in 1 .. n /\ stack'[i] = stack[i]
            BY <1>3, <1>4, <3>1
        <3> QED
            BY <1>11, <2>1, <3>2 DEF SearchInv, EdgesIntoStack, n
    <2> QED
        BY <1>2, <1>4, <2>1 DEF EdgesIntoStack
<1>15. EdgesInPostorder'
    BY <1>2 DEF SearchInv, EdgesInPostorder, UpTo
<1>16. CallersReturnLater'
    <2> SUFFICES ASSUME NEW k \in 1 .. Len(order),
                        NEW i \in 1 .. n, order[k] \in succs[stack[i]]
                 PROVE  \E j \in 1 .. n + 1 : order[k] \in succs[stack'[j]]
        BY <1>2, <1>4 DEF SearchInv, CallersReturnLater, n
    <2> QED
        BY <1>3, <1>4
<1>17. StartReturnsLast'
    BY <1>3, <1>4 DEF StartReturnsLast
<1> QED
    BY <1>5, <1>8, <1>9, <1>12, <1>13, <1>14, <1>15, <1>16, <1>17 DEF SearchInv

LEMMA AscendSearch ==
    ASSUME TypeOK, SearchInv, Ascend
    PROVE  TypeOK' /\ SearchInv'
<1> DEFINE n == Len(stack)
           m == Len(order)
           z == stack[n]
<1>1. /\ n \in Nat /\ n > 0 /\ DOMAIN stack = 1 .. n
      /\ m \in Nat /\ DOMAIN order = 1 .. m
      /\ z \in Blocks /\ succs[z] \subseteq visited
    BY DEF Ascend, TypeOK, Last
<1>2. /\ UNCHANGED <<succs, pc, visited, idom>>
      /\ order' = Append(order, z)
      /\ stack' = SubSeq(stack, 1, n - 1)
    BY DEF Ascend, Last, Front
<1>3. /\ stack' \in Seq(Blocks) /\ Len(stack') = n - 1 /\ DOMAIN stack' = 1 .. n - 1
      /\ \A i \in 1 .. n - 1 : stack'[i] = stack[i]
    BY <1>1, <1>2 DEF TypeOK
<1>4. /\ order' \in Seq(Blocks) /\ Len(order') = m + 1 /\ DOMAIN order' = 1 .. m + 1
      /\ \A i \in 1 .. m : order'[i] = order[i]
      /\ order'[m + 1] = z
    BY <1>1, <1>2 DEF TypeOK
<1>5. TypeOK'
    BY <1>2, <1>3, <1>4 DEF TypeOK
<1>6. /\ Range(stack) = {stack[i] : i \in 1 .. n}
      /\ Range(stack') = {stack'[i] : i \in 1 .. n - 1}
      /\ Range(order) = {order[i] : i \in 1 .. m}
      /\ Range(order') = {order'[i] : i \in 1 .. m + 1}
    BY <1>1, <1>3, <1>4 DEF Range
<1>7. /\ \A i, j \in 1 .. n : stack[i] = stack[j] => i = j
      /\ \A i, j \in 1 .. m : order[i] = order[j] => i = j
    BY DEF SearchInv, VisitedOnce
<1> HIDE DEF n, m, z
<1>8. Range(order') = Range(order) \cup {z} /\ Range(stack) = Range(stack') \cup {z} /\ z \notin Range(stack')
    BY <1>1, <1>3, <1>4, <1>6, <1>7 DEF z
<1>9. VisitedOnce'
    <2>1. z \notin Range(order)
        BY <1>8 DEF SearchInv, VisitedOnce
    <2>2. \A i, j \in 1 .. m + 1 : order'[i] = order'[j] => i = j
        BY <1>1, <1>4, <1>6, <1>7, <2>1
    <2>3. \A i, j \in 1 .. n - 1 : stack'[i] = stack'[j] => i = j
        BY <1>1, <1>3, <1>7
    <2> QED
        BY <1>2, <1>3, <1>4, <1>8, <2>1, <2>2, <2>3 DEF SearchInv, VisitedOnce
<1>10. OnlyReachableVisited'
    BY <1>2 DEF SearchInv, OnlyReachableVisited, Reachable
<1>11. \A i \in 1 .. n - 1 : Within(i)' = Within(i)
    <2> SUFFICES ASSUME NEW i \in 1 .. n - 1
                 PROVE  {z} \cup {stack'[k] : k \in i .. n - 1} = {stack[k] : k \in i .. n}
        BY <1>3, <1>8 DEF Within, n
    <2> QED
        BY <1>1, <1>3 DEF z
<1>12. StackIsPath'
    <2>1. stack' # <<>> => stack'[1] = Start
        BY <1>1, <1>3 DEF SearchInv, StackIsPath
    <2>2. \A i \in 2 .. n - 1 : stack'[i] \in succs[stack'[i - 1]]
        BY <1>1, <1>3 DEF SearchInv, StackIsPath, n
    <2>3. ASSUME NEW i \in 1 .. n - 1, NEW j \in i .. n - 1
          PROVE  stack'[j] \in ReachFrom(succs, {stack'[i]}, Within(i)')
        <3>1. i \in 1 .. n /\ j \in i .. n /\ stack'[i] = stack[i] /\ stack'[j] = stack[j]
            BY <1>1, <1>3
        <3>2. stack[j] \in ReachFrom(succs, {stack[i]}, Within(i))
            BY <3>1 DEF SearchInv, StackIsPath, n
        <3> QED
            BY <1>11, <3>1, <3>2
    <2> QED
        BY <1>2, <1>3, <2>1, <2>2, <2>3 DEF StackIsPath
<1>13. ReturnedIsExplored'
    BY <1>1, <1>2, <1>8 DEF SearchInv, ReturnedIsExplored
<1>14. EdgesIntoStack'
    <2>1. ASSUME NEW y \in Range(order'), NEW i \in 1 .. n - 1, stack'[i] \in succs[y]
          PROVE  y \in ReachFrom(succs, {stack'[i]}, Within(i)')
        <3>1. i \in 1 .. n /\ n \in i .. n /\ stack'[i] = stack[i] /\ Within(i)' = Within(i)
            BY <1>1, <1>3, <1>11
        <3>2. CASE y \in Range(order)
            BY <2>1, <3>1, <3>2 DEF SearchInv, EdgesIntoStack, n
        <3>3. CASE y = z
            BY <3>1, <3>3 DEF SearchInv, StackIsPath, n, z
        <3> QED
            BY <1>8, <3>2, <3>3
    <2> QED
        BY <1>2, <1>3, <2>1 DEF EdgesIntoStack
<1>15. EdgesInPostorder'
    <2>1. \A k \in 1 .. m : UpTo(k)' = UpTo(k)
        BY <1>1, <1>4 DEF UpTo
    <2>2. ASSUME NEW k \in {m + 1}
          PROVE  UpTo(k)' = Range(order) \cup {z}
        BY <1>6, <1>8 DEF UpTo
    <2>3. Within(n) = Range(order) \cup {z}
        BY <1>1 DEF Within, z, n
    <2>4. ASSUME NEW k \in 1 .. m + 1, NEW j \in 1 .. k, order'[k] \in succs[order'[j]]
          PROVE  order'[j] \in ReachFrom(succs, {order'[k]}, UpTo(k)')
        <3>1. CASE k \in 1 .. m
            <4>1. j \in 1 .. m /\ order'[k] = order[k] /\ order'[j] = order[j]
                BY <1>1, <1>4, <3>1
            <4> QED
                BY <2>1, <2>4, <3>1, <4>1 DEF SearchInv, EdgesInPostorder, m
        <3>2. CASE j = m + 1
            <4>1. order'[j] = order'[k]
                BY <1>1, <3>2
            <4> QED
                BY <4>1, ReachFromIsClosed
        <3>3. CASE k = m + 1 /\ j \in 1 .. m
            <4>1. order'[k] = z /\ order'[j] = order[j] /\ order[j] \in Range(order)
                BY <1>4, <1>6, <3>3
            <4>2. order[j] \in ReachFrom(succs, {stack[n]}, Within(n))
                BY <1>1, <2>4, <4>1 DEF SearchInv, EdgesIntoStack, n, z
            <4>3. UpTo(k)' = Within(n)
                BY <2>2, <2>3, <3>3
            <4> QED
                BY <4>1, <4>2, <4>3 DEF z
        <3> QED
            BY <1>1, <3>1, <3>2, <3>3
    <2> QED
        BY <1>2, <1>4, <2>4 DEF EdgesInPostorder
<1>16. CallersReturnLater'
    <2>1. ASSUME NEW k \in 1 .. m + 1, order'[k] # Start
          PROVE  \/ \E i \in 1 .. n - 1 : order'[k] \in succs[stack'[i]]
                 \/ \E j \in (k + 1) .. m + 1 : order'[k] \in succs[order'[j]]
        <3>1. CASE k = m + 1
            <4>1. n > 1 /\ stack[n] \in succs[stack[n - 1]]
                BY <1>1, <1>4, <2>1, <3>1 DEF SearchInv, StackIsPath, n, z
            <4> QED
                BY <1>1, <1>3, <1>4, <3>1, <4>1 DEF z
        <3>2. CASE k \in 1 .. m
            <4>1. CASE \E i \in 1 .. n : order[k] \in succs[stack[i]]
                <5>1. PICK i \in 1 .. n : order[k] \in succs[stack[i]]
                    BY <4>1
                <5>2. CASE i = n
                    BY <1>1, <1>4, <3>2, <5>1, <5>2 DEF z
                <5>3. CASE i \in 1 .. n - 1
                    BY <1>1, <1>3, <1>4, <3>2, <5>1, <5>3
                <5> QED
                    BY <1>1, <5>2, <5>3
            <4>2. CASE \E j \in (k + 1) .. m : order[k] \in succs[order[j]]
                BY <1>1, <1>4, <3>2, <4>2
            <4>3. order[k] # Start
                BY <1>4, <2>1, <3>2
            <4> QED
                BY <3>2, <4>1, <4>2, <4>3 DEF SearchInv, CallersReturnLater, n, m
        <3> QED
            BY <1>1, <3>1, <3>2
    <2> QED
        BY <1>2, <1>3, <1>4, <2>1 DEF CallersReturnLater
<1>17. StartReturnsLast'
    BY <1>1, <1>3, <1>4 DEF SearchInv, StackIsPath, StartReturnsLast, z
<1> QED
    BY <1>5, <1>9, <1>10, <1>12, <1>13, <1>14, <1>15, <1>16, <1>17 DEF SearchInv

-----------------------------------------------------------------------------
(* The order. *)

\* What IsReversePostorder says of the order, and that it starts with Start.
OrderInv ==
    /\ Len(order) > 0 /\ order[1] = Start
    /\ \A i, j \in 1 .. Len(order) : order[i] = order[j] => i = j
    /\ Range(order) = Reachable
    /\ \A k \in 2 .. Len(order) : \E j \in 1 .. (k - 1) : order[k] \in succs[order[j]]
    /\ \A j \in 1 .. Len(order) : \A k \in j .. Len(order) :
          order[j] \in succs[order[k]] => order[k] \in ReachFrom(succs, {order[j]}, Numbered(j))

LEMMA OrderUnchanged ==
    ASSUME OrderInv, UNCHANGED <<succs, order>>
    PROVE  OrderInv' /\ Reachable' = Reachable /\ \A y : Number(y)' = Number(y)
<1>1. Reachable' = Reachable
    BY DEF Reachable
<1>2. \A j : Numbered(j)' = Numbered(j)
    BY DEF Numbered
<1>3. \A y : Number(y)' = Number(y)
    BY DEF Number
<1>4. /\ (Len(order) > 0 /\ order[1] = Start)'
      /\ (\A i, j \in 1 .. Len(order) : order[i] = order[j] => i = j)'
    BY DEF OrderInv
<1>5. (Range(order) = Reachable)'
    BY <1>1 DEF OrderInv, Range
<1>6. (\A k \in 2 .. Len(order) : \E j \in 1 .. (k - 1) : order[k] \in succs[order[j]])'
    BY DEF OrderInv
<1>7. (\A j \in 1 .. Len(order) : \A k \in j .. Len(order) :
          order[j] \in succs[order[k]] => order[k] \in ReachFrom(succs, {order[j]}, Numbered(j)))'
    BY <1>2 DEF OrderInv
<1> QED
    BY <1>1, <1>3, <1>4, <1>5, <1>6, <1>7 DEF OrderInv

\* When no call is open, what was visited is what is reachable.
LEMMA SearchIsComplete ==
    ASSUME TypeOK, SearchInv, stack = <<>>
    PROVE  Range(order) = Reachable
<1>1. Range(stack) = {}
    BY DEF Range
<1>2. visited = Range(order)
    BY <1>1 DEF SearchInv, VisitedOnce
<1>3. Start \in visited /\ \A x \in visited : succs[x] \subseteq visited
    BY <1>2 DEF SearchInv, OnlyReachableVisited, ReturnedIsExplored
<1>4. Reachable \subseteq visited
    BY <1>3, ReachFromIsLeast DEF Reachable, ReachableIn
<1> QED
    BY <1>2, <1>4 DEF SearchInv, OnlyReachableVisited

LEMMA ReversalOrders ==
    ASSUME TypeOK, SearchInv, StartFixpoint
    PROVE  order' \in Seq(Blocks) /\ OrderInv'
<1> DEFINE m == Len(order)
           Back(k) == m - k + 1
<1>1. /\ m \in Nat /\ m > 0 /\ order[m] = Start
      /\ DOMAIN order = 1 .. m /\ \A k \in 1 .. m : order[k] \in Blocks
    BY DEF StartFixpoint, TypeOK, SearchInv, StartReturnsLast
<1>2. order' = [k \in 1 .. m |-> order[m - k + 1]] /\ succs' = succs
    BY DEF StartFixpoint, ReversePostorder, Reverse
<1>3. /\ order' \in Seq(Blocks) /\ Len(order') = m /\ DOMAIN order' = 1 .. m
      /\ \A k \in 1 .. m : order'[k] = order[Back(k)]
    BY <1>1, <1>2
<1>4. \A k \in 1 .. m : Back(k) \in 1 .. m /\ Back(Back(k)) = k
    BY <1>1
<1>5. stack = <<>>
    BY DEF StartFixpoint
<1> HIDE DEF m
<1>6. order'[1] = Start
    BY <1>1, <1>3
<1>7. \A i, j \in 1 .. m : order'[i] = order'[j] => i = j
    <2>1. \A i, j \in 1 .. m : order[i] = order[j] => i = j
        BY DEF SearchInv, VisitedOnce, m
    <2> QED
        BY <1>1, <1>3, <2>1
<1>8. Range(order') = Reachable /\ Reachable' = Reachable
    <2>1. Range(order') = Range(order)
        BY <1>1, <1>3, <1>4 DEF Range
    <2> QED
        BY <1>2, <1>5, <2>1, SearchIsComplete DEF Reachable
<1>9. ASSUME NEW k \in 2 .. m
      PROVE  \E j \in 1 .. k - 1 : order'[k] \in succs[order'[j]]
    <2>1. Back(k) \in 1 .. m /\ order[Back(k)] = order'[k]
        BY <1>1, <1>3
    <2>2. order[Back(k)] # Start
        BY <1>1, <1>3, <1>6, <1>7, <2>1
    <2>3. Len(stack) = 0
        BY <1>5
    <2>4. PICK j \in Back(k) + 1 .. m : order[Back(k)] \in succs[order[j]]
        BY <2>1, <2>2, <2>3 DEF SearchInv, CallersReturnLater, m
    <2>5. Back(j) \in 1 .. k - 1 /\ order'[Back(j)] = order[j]
        BY <1>1, <1>3, <2>4
    <2> QED
        BY <2>1, <2>4, <2>5
<1>10. ASSUME NEW j \in 1 .. m, NEW k \in j .. m, order'[j] \in succs[order'[k]]
       PROVE  order'[k] \in ReachFrom(succs, {order'[j]}, Numbered(j)')
    <2>1. /\ Back(j) \in 1 .. m /\ Back(k) \in 1 .. Back(j)
          /\ order'[j] = order[Back(j)] /\ order'[k] = order[Back(k)]
        BY <1>1, <1>3
    <2>2. order[Back(k)] \in ReachFrom(succs, {order[Back(j)]}, UpTo(Back(j)))
        BY <1>10, <2>1 DEF SearchInv, EdgesInPostorder, m
    <2>3. UpTo(Back(j)) = Numbered(j)'
        <3>1. UpTo(Back(j)) = {order[n] : n \in 1 .. Back(j)}
            BY DEF UpTo
        <3>2. Numbered(j)' = {order'[n] : n \in j .. m}
            BY <1>3 DEF Numbered
        <3>3. \A n \in 1 .. Back(j) : Back(n) \in j .. m /\ order'[Back(n)] = order[n]
            BY <1>1, <1>3
        <3>4. \A n \in j .. m : Back(n) \in 1 .. Back(j) /\ order[Back(n)] = order'[n]
            BY <1>1, <1>3
        <3> HIDE DEF Back
        <3> QED
            BY <3>1, <3>2, <3>3, <3>4
    <2> QED
        BY <2>1, <2>2, <2>3
<1> QED
    BY <1>1, <1>2, <1>3, <1>6, <1>7, <1>8, <1>9, <1>10 DEF OrderInv

LEMMA NumbersAreOrder ==
    ASSUME TypeOK, OrderInv
    PROVE  /\ \A k \in 1 .. Len(order) : Number(order[k]) = k /\ order[k] \in Reachable
           /\ \A x \in Reachable : Number(x) \in 1 .. Len(order) /\ order[Number(x)] = x
           /\ Len(order) \in Nat /\ Reachable \subseteq Blocks
           /\ Start \in Reachable /\ Number(Start) = 1
<1>1. DOMAIN order = 1 .. Len(order) /\ Len(order) \in Nat
    BY DEF TypeOK
<1>2. \A k \in 1 .. Len(order) : Number(order[k]) = k
    BY DEF Number, OrderInv
<1>3. Reachable = {order[k] : k \in 1 .. Len(order)}
    BY <1>1 DEF OrderInv, Range
<1>4. \A k \in 1 .. Len(order) : order[k] \in Blocks
    BY <1>1 DEF TypeOK
<1>5. Start = order[1] /\ 1 \in 1 .. Len(order)
    BY <1>1 DEF OrderInv
<1> QED
    BY <1>1, <1>2, <1>3, <1>4, <1>5

LEMMA OrderIsCounted ==
    ASSUME TypeOK, OrderInv
    PROVE  Len(order) = Cardinality(Reachable)
<1>1. /\ order \in [1 .. Len(order) -> Reachable]
      /\ \A x \in Reachable : \E k \in 1 .. Len(order) : order[k] = x
      /\ \A i, j \in 1 .. Len(order) : order[i] = order[j] => i = j
    <2>1. order \in [1 .. Len(order) -> Blocks]
        BY DEF TypeOK
    <2>2. \A k \in 1 .. Len(order) : order[k] \in Reachable
        BY NumbersAreOrder
    <2>3. \A x \in Reachable : \E k \in 1 .. Len(order) : order[k] = x
        BY NumbersAreOrder
    <2> QED
        BY <2>1, <2>2, <2>3 DEF OrderInv
<1>2. order \in Bijection(1 .. Len(order), Reachable)
    BY <1>1 DEF Bijection, Injection, Surjection, IsInjective
<1>3. ExistsBijection(1 .. Len(order), Reachable)
    BY <1>2 DEF ExistsBijection
<1>4. IsFiniteSet(1 .. Len(order)) /\ Cardinality(1 .. Len(order)) = Len(order)
    BY FS_Interval, NumbersAreOrder
<1> QED
    BY <1>3, <1>4, FS_Bijection

-----------------------------------------------------------------------------
(* Dominance, as it is defined on paths. *)

Dom(d, x) == DominatesIn(succs, Start, d, x)

LEMMA ReachableIsClosed ==
    ASSUME TypeOK
    PROVE  /\ Start \in Reachable
           /\ \A x \in Reachable : x \in Blocks /\ succs[x] \subseteq Reachable
<1>1. DOMAIN succs = Blocks /\ \A x \in Blocks : succs[x] \subseteq Blocks
    BY DEF TypeOK
<1>2. /\ {Start} \subseteq Reachable
      /\ Reachable \subseteq {Start} \cup Blocks
      /\ \A x \in Reachable : succs[x] \cap Blocks \subseteq Reachable
    BY <1>1, ReachFromIsClosed DEF Reachable, ReachableIn
<1> QED
    BY <1>1, <1>2, BlocksAssumption

\* What strictly dominates a block dominates its predecessors.
LEMMA DominatorsComeBefore ==
    ASSUME TypeOK, NEW d \in Blocks, NEW x \in Blocks, d # x, Dom(d, x), NEW p \in Preds(x)
    PROVE  Dom(d, p)
<1> DEFINE R == ReachFrom(succs, {Start} \ {d}, DOMAIN succs \ {d})
<1>1. \A y \in R : succs[y] \cap (DOMAIN succs \ {d}) \subseteq R
    BY ReachFromIsClosed
<1>2. x \in succs[p] /\ x \in DOMAIN succs \ {d}
    BY DEF Preds, PredsIn, TypeOK
<1>3. x \notin R
    BY DEF Dom, DominatesIn
<1> HIDE DEF R
<1>4. p \notin R
    BY <1>1, <1>2, <1>3
<1> QED
    BY <1>4 DEF Dom, DominatesIn, R

\* Each block is reached through blocks with smaller numbers, so one with a larger number cannot dominate it.
LEMMA DominatorsHaveSmallerNumbers ==
    ASSUME TypeOK, OrderInv, NEW d \in Reachable, NEW x \in Reachable, d # x, Dom(d, x)
    PROVE  Number(d) < Number(x)
<1> DEFINE R == ReachFrom(succs, {Start} \ {d}, DOMAIN succs \ {d})
           T == {k \in 1 .. Number(x) : order[k] \notin R}
<1>1. SUFFICES ASSUME ~ (Number(d) < Number(x))
               PROVE  FALSE
    OBVIOUS
<1>2. /\ Number(d) \in 1 .. Len(order) /\ Number(x) \in 1 .. Len(order)
      /\ order[Number(d)] = d /\ order[Number(x)] = x
      /\ Len(order) \in Nat /\ order[1] = Start /\ 1 \in 1 .. Len(order)
    BY NumbersAreOrder DEF OrderInv
<1>3. Number(x) < Number(d)
    BY <1>1, <1>2
<1>4. \A k \in 1 .. Number(x) : order[k] # d /\ k \in 1 .. Len(order)
    BY <1>2, <1>3 DEF OrderInv
<1>5. /\ {Start} \ {d} \subseteq R
      /\ \A y \in R : succs[y] \cap (DOMAIN succs \ {d}) \subseteq R
    BY ReachFromIsClosed
<1>6. x \notin R
    BY DEF Dom, DominatesIn
<1> HIDE DEF R
<1>7. Number(x) \in T
    BY <1>2, <1>6
<1>8. PICK k \in T : \A j \in T : k <= j
    <2>1. T \in SUBSET Nat /\ T # {}
        BY <1>2, <1>7
    <2> QED
        BY <2>1, LeastNumber
<1>9. k # 1
    BY <1>2, <1>4, <1>5, <1>8
<1>10. PICK j \in 1 .. (k - 1) : order[k] \in succs[order[j]]
    BY <1>2, <1>4, <1>8, <1>9 DEF OrderInv
<1>11. order[j] \in R
    BY <1>2, <1>8, <1>10
<1>12. order[k] \in DOMAIN succs
    BY <1>4, <1>8 DEF TypeOK
<1> QED
    BY <1>4, <1>5, <1>8, <1>10, <1>11, <1>12

-----------------------------------------------------------------------------
(* The tree while it is being built. *)

TreeInv ==
    /\ idom[Start] = Start
    /\ \A x \in Blocks \ {Start} : Processed(x) =>
          /\ x \in Reachable /\ idom[x] \in Reachable /\ Processed(idom[x])
          /\ Number(idom[x]) < Number(x)
    /\ \A x \in Blocks \ {Start} : Processed(x) => \A d \in StrictDominators(x) : Dom(d, idom[x])

\* The chains of any tree t, of which idom is one: every edge leads to a smaller number.
Tree(t) ==
    /\ t \in [Blocks -> Blocks \cup {None}]
    /\ t[Start] = Start
    /\ \A x \in Blocks \ {Start} : t[x] # None =>
          /\ x \in Reachable /\ t[x] \in Reachable /\ t[t[x]] # None
          /\ Number(t[x]) < Number(x)

Chain(t, x) == ChainIn(t, None, x)

LEMMA ChainIsClosed ==
    ASSUME NEW t \in [Blocks -> Blocks \cup {None}], NEW x
    PROVE  /\ x \in Chain(t, x)
           /\ \A y \in Chain(t, x) : y \in Blocks /\ t[y] # None => t[y] \in Chain(t, x)
<1> DEFINE up == [y \in DOMAIN t |-> {t[y]} \ {None}]
<1>1. /\ {x} \subseteq ReachFrom(up, {x}, DOMAIN t)
      /\ \A y \in ReachFrom(up, {x}, DOMAIN t) :
            up[y] \cap DOMAIN t \subseteq ReachFrom(up, {x}, DOMAIN t)
    BY ReachFromIsClosed
<1>2. Chain(t, x) = ReachFrom(up, {x}, DOMAIN t)
    BY DEF Chain, ChainIn
<1>3. \A y \in Blocks : t[y] # None => up[y] = {t[y]} /\ t[y] \in DOMAIN t
    OBVIOUS
<1> HIDE DEF up
<1> QED
    BY <1>1, <1>2, <1>3

\* A set that holds x and the parents of its members holds the chain of x.
LEMMA ChainIsLeast ==
    ASSUME NEW t \in [Blocks -> Blocks \cup {None}], NEW x \in Blocks, NEW R, x \in R,
           \A y \in R : y \in Blocks /\ t[y] # None => t[y] \in R
    PROVE  Chain(t, x) \subseteq R
<1> DEFINE up == [y \in DOMAIN t |-> {t[y]} \ {None}]
<1>1. \A y \in R : y \in {x} \cup DOMAIN t => up[y] \cap DOMAIN t \subseteq R
    OBVIOUS
<1> HIDE DEF up
<1>2. ReachFrom(up, {x}, DOMAIN t) \subseteq R
    BY <1>1, ReachFromIsLeast
<1> QED
    BY <1>2 DEF Chain, ChainIn, up

LEMMA ChainOfTree ==
    ASSUME TypeOK, OrderInv, NEW t, Tree(t), NEW x \in Reachable, t[x] # None
    PROVE  /\ \A y \in Chain(t, x) : y \in Reachable /\ t[y] # None /\ Number(y) <= Number(x)
           /\ \A y \in Chain(t, x) : Chain(t, y) \subseteq Chain(t, x)
           /\ \A y \in Chain(t, x) : y = x \/ y \in Chain(t, t[x])
           /\ x # Start => t[x] \in Reachable /\ t[t[x]] # None /\ Number(t[x]) < Number(x)
<1>1. \A y \in Reachable : y \in Blocks /\ Number(y) \in Nat
    BY NumbersAreOrder
<1>2. \A y \in Reachable : t[y] # None =>
        /\ t[y] \in Reachable /\ t[t[y]] # None /\ Number(t[y]) <= Number(y)
        /\ y # Start => Number(t[y]) < Number(y)
    BY <1>1 DEF Tree
<1>3. \A y \in Chain(t, x) : y \in Reachable /\ t[y] # None /\ Number(y) <= Number(x)
    <2> DEFINE R == {y \in Reachable : t[y] # None /\ Number(y) <= Number(x)}
    <2>1. x \in R /\ \A y \in R : t[y] \in R
        BY <1>1, <1>2
    <2> HIDE DEF R
    <2>2. Chain(t, x) \subseteq R
        BY <1>1, <2>1, ChainIsLeast DEF Tree
    <2> QED
        BY <2>2 DEF R
<1>4. ASSUME NEW y \in Chain(t, x)
      PROVE  Chain(t, y) \subseteq Chain(t, x)
    BY <1>1, <1>3, ChainIsClosed, ChainIsLeast DEF Tree
<1>5. Chain(t, x) \subseteq {x} \cup Chain(t, t[x])
    <2> DEFINE R == {x} \cup Chain(t, t[x])
    <2>1. x \in R /\ \A y \in R : y \in Blocks /\ t[y] # None => t[y] \in R
        BY ChainIsClosed DEF Tree
    <2> HIDE DEF R
    <2>2. Chain(t, x) \subseteq R
        BY <1>1, <2>1, ChainIsLeast DEF Tree
    <2> QED
        BY <2>2 DEF R
<1> QED
    BY <1>2, <1>3, <1>4, <1>5

\* The same of the tree that is being built.
LEMMA IdomIsTree == TypeOK /\ TreeInv => Tree(idom)
BY DEF TypeOK, TreeInv, Tree, Processed

LEMMA IdomChainIsClosed ==
    ASSUME TypeOK, NEW x
    PROVE  /\ x \in IdomChain(x)
           /\ \A y \in IdomChain(x) : y \in Blocks /\ Processed(y) => idom[y] \in IdomChain(x)
BY ChainIsClosed DEF TypeOK, IdomChain, Chain, Processed

LEMMA IdomChainIsLeast ==
    ASSUME TypeOK, NEW x \in Blocks, NEW R, x \in R,
           \A y \in R : y \in Blocks /\ Processed(y) => idom[y] \in R
    PROVE  IdomChain(x) \subseteq R
<1>1. \A y \in R : y \in Blocks /\ idom[y] # None => idom[y] \in R
    BY DEF Processed
<1> QED
    BY <1>1, ChainIsLeast DEF TypeOK, IdomChain, Chain

LEMMA ChainOfTheTree ==
    ASSUME TypeOK, OrderInv, TreeInv, NEW x \in Reachable, Processed(x)
    PROVE  /\ \A y \in IdomChain(x) : y \in Reachable /\ Processed(y) /\ Number(y) <= Number(x)
           /\ \A y \in IdomChain(x) : IdomChain(y) \subseteq IdomChain(x)
           /\ \A y \in IdomChain(x) : y = x \/ y \in IdomChain(idom[x])
BY IdomIsTree, ChainOfTree DEF IdomChain, Chain, Processed

(***************************************************************************)
(* Where every edge of the tree keeps the dominators, so do its paths: the *)
(* dominators of a block that are not on its chain would be dominators of  *)
(* every block on the chain, down to the smallest number.                  *)
(***************************************************************************)
LEMMA ChainKeepsDominators ==
    ASSUME TypeOK, OrderInv, TreeInv, NEW x \in Reachable, Processed(x)
    PROVE  StrictDominators(x) \subseteq IdomChain(x)
<1> SUFFICES ASSUME NEW d \in StrictDominators(x), d \notin IdomChain(x)
             PROVE  FALSE
    OBVIOUS
<1> DEFINE R == {y \in IdomChain(x) : d \in StrictDominators(y)}
           T == {Number(y) : y \in R}
<1>1. \A y \in IdomChain(x) : y \in Reachable /\ Processed(y) /\ y \in Blocks /\ Number(y) \in Nat
    BY ChainOfTheTree, NumbersAreOrder
<1>2. x \in R
    BY IdomChainIsClosed
<1>3. T \in SUBSET Nat /\ T # {}
    BY <1>1, <1>2
<1>4. PICK y \in R : \A z \in R : Number(y) <= Number(z)
    <2>1. PICK k \in T : \A j \in T : k <= j
        BY <1>3, LeastNumber
    <2> QED
        BY <2>1
<1>5. d \in Reachable /\ d # y /\ Dom(d, y)
    BY <1>4 DEF StrictDominators, Dom
<1>6. y # Start
    BY <1>1, <1>4, <1>5, NumbersAreOrder, DominatorsHaveSmallerNumbers
<1>7. idom[y] \in IdomChain(x) /\ Number(idom[y]) < Number(y) /\ Dom(d, idom[y])
    BY <1>1, <1>4, <1>6, IdomChainIsClosed DEF TreeInv
<1>8. idom[y] \in R
    BY <1>1, <1>5, <1>7 DEF StrictDominators, Dom
<1> QED
    BY <1>1, <1>4, <1>7, <1>8

-----------------------------------------------------------------------------
(* The fixpoint. *)

AllProcessed == \A x \in Reachable : Processed(x)

\* The dominator of x is on the chain of each predecessor that has one.
Settled(x) == \A p \in Preds(x) : Processed(p) => idom[x] \in IdomChain(p)

PassInv ==
    /\ index \in 2 .. Len(order) + 1
    /\ changed \in BOOLEAN
    /\ \A k \in 1 .. index - 1 : Processed(order[k])
    /\ AllProcessed \/ ((changed \/ index = 2) /\ \A k \in index .. Len(order) : ~Processed(order[k]))
    /\ ~changed => \A k \in 2 .. index - 1 : Settled(order[k])

\* A block on the tree that all strict dominators of the block at hand dominate.
Candidate(x) == x \in Reachable /\ Processed(x) /\ \A d \in StrictDominators(block) : Dom(d, x)

MergeInv ==
    /\ index \in 2 .. Len(order)
    /\ todo \subseteq Preds(block)
    /\ Candidate(newIdom)

\* The candidate is on the chains of the predecessors seen so far.
MergedInv == \A p \in Preds(block) \ todo : Processed(p) => newIdom \in IdomChain(p)

WalkInv ==
    /\ Candidate(a) /\ Candidate(b)
    /\ a \in IdomChain(newIdom)
    /\ \A p \in Preds(block) \ todo : Processed(p) => newIdom \in IdomChain(p) \/ b \in IdomChain(p)

Inv ==
    /\ TypeOK
    /\ pc = "dfs" => SearchInv /\ idom = [x \in Blocks |-> None]
    /\ pc # "dfs" => OrderInv /\ TreeInv
    /\ pc \in {"pass", "merge", "walk"} => PassInv
    /\ pc \in {"merge", "walk"} => MergeInv
    /\ pc = "merge" => MergedInv
    /\ pc = "walk" => WalkInv
    /\ pc = "done" => AllProcessed /\ \A x \in Reachable \ {Start} : Settled(x)

\* A step that changes neither the graph nor the order nor the tree keeps what is known of them.
LEMMA TreeUnchanged ==
    ASSUME TypeOK, OrderInv, TreeInv, UNCHANGED <<succs, order, idom>>
    PROVE  /\ OrderInv' /\ TreeInv' /\ Reachable' = Reachable
           /\ \A x : Processed(x)' <=> Processed(x)
           /\ \A x : IdomChain(x)' = IdomChain(x) /\ Preds(x)' = Preds(x) /\ Number(x)' = Number(x)
           /\ \A x : StrictDominators(x)' = StrictDominators(x)
           /\ \A d, x : Dom(d, x)' <=> Dom(d, x)
<1>1. Reachable' = Reachable
    BY DEF Reachable
<1>2. OrderInv'
    BY OrderUnchanged
<1>3. \A x : Processed(x)' <=> Processed(x)
    BY DEF Processed
<1>4. \A x : IdomChain(x)' = IdomChain(x) /\ Preds(x)' = Preds(x) /\ Number(x)' = Number(x)
    BY DEF IdomChain, Preds, Number
<1>5. \A d, x : Dom(d, x)' <=> Dom(d, x)
    BY DEF Dom
<1>6. \A x : StrictDominators(x)' = StrictDominators(x)
    BY <1>1 DEF StrictDominators
<1>7. TreeInv'
    BY <1>1, <1>3, <1>4, <1>5, <1>6 DEF TreeInv
<1> QED
    BY <1>1, <1>2, <1>3, <1>4, <1>5, <1>6, <1>7

LEMMA StartFixpointInv == Inv /\ StartFixpoint => Inv'
<1> SUFFICES ASSUME Inv, StartFixpoint
             PROVE  Inv'
    OBVIOUS
<1>1. /\ pc = "dfs" /\ TypeOK /\ SearchInv /\ idom = [x \in Blocks |-> None]
      /\ pc' = "pass" /\ index' = 2 /\ changed' = FALSE
      /\ idom' = [idom EXCEPT ![Start] = Start]
      /\ UNCHANGED <<succs, search>>
    BY DEF Inv, StartFixpoint
<1>2. order' \in Seq(Blocks) /\ OrderInv'
    BY <1>1, ReversalOrders
<1>3. TypeOK'
    BY <1>1, <1>2, BlocksAssumption DEF TypeOK, search
<1>4. idom'[Start] = Start /\ \A x \in Blocks \ {Start} : idom'[x] = None
    BY <1>1, BlocksAssumption
<1>5. TreeInv'
    BY <1>4 DEF TreeInv, Processed
<1>6. /\ Len(order') \in Nat /\ Len(order') > 0 /\ order'[1] = Start
      /\ \A i, j \in 1 .. Len(order') : order'[i] = order'[j] => i = j
      /\ \A k \in 1 .. Len(order') : order'[k] \in Blocks
    BY <1>2 DEF OrderInv
<1>7. \A k \in 2 .. Len(order') : order'[k] \in Blocks \ {Start}
    BY <1>6
<1>8. /\ \A k \in 1 .. index' - 1 : idom'[order'[k]] # None
      /\ \A k \in index' .. Len(order') : idom'[order'[k]] = None
    <2>1. \A k \in 1 .. index' - 1 : order'[k] = Start
        BY <1>1, <1>6
    <2> QED
        BY <1>1, <1>4, <1>7, <2>1, BlocksAssumption
<1>9. index' \in 2 .. Len(order') + 1 /\ \A k \in 2 .. index' - 1 : FALSE
    BY <1>1, <1>6
<1>10. PassInv'
    BY <1>1, <1>8, <1>9 DEF PassInv, Processed
<1> QED
    BY <1>1, <1>2, <1>3, <1>5, <1>10 DEF Inv

\* The block at hand, and the predecessor of it that every pass has been to before.
LEMMA BlockAtHand ==
    ASSUME TypeOK, OrderInv, TreeInv, PassInv, index <= Len(order)
    PROVE  /\ block \in Reachable \ {Start} /\ block \in Blocks /\ Number(block) = index
           /\ \E p \in Preds(block) : Processed(p) /\ Number(p) < index
           /\ \A p \in Preds(block) : Processed(p) => p \in Reachable
<1>1. index \in 2 .. Len(order) /\ Len(order) \in Nat
    BY NumbersAreOrder DEF PassInv
<1>2. block \in Reachable /\ block \in Blocks /\ Number(block) = index
    BY <1>1, NumbersAreOrder DEF block
<1>3. block # Start
    BY <1>1, <1>2, NumbersAreOrder
<1>4. PICK j \in 1 .. (index - 1) : block \in succs[order[j]]
    BY <1>1 DEF OrderInv, block
<1>5. order[j] \in Blocks /\ Number(order[j]) = j
    BY <1>1, NumbersAreOrder
<1>6. order[j] \in Preds(block) /\ Processed(order[j])
    BY <1>4, <1>5 DEF Preds, PredsIn, TypeOK, PassInv
<1>7. \A p \in Preds(block) : Processed(p) => p \in Reachable
    BY NumbersAreOrder DEF Preds, PredsIn, TypeOK, TreeInv
<1> QED
    BY <1>1, <1>2, <1>3, <1>5, <1>6, <1>7

\* Every processed predecessor of the block at hand is a candidate.
LEMMA PredsAreCandidates ==
    ASSUME TypeOK, OrderInv, TreeInv, PassInv, index <= Len(order),
           NEW p \in Preds(block), Processed(p)
    PROVE  Candidate(p)
<1>1. \A d \in StrictDominators(block) : d \in Blocks /\ d # block /\ Dom(d, block)
    BY NumbersAreOrder DEF StrictDominators, Dom
<1> QED
    BY <1>1, BlockAtHand, DominatorsComeBefore DEF Candidate

\* The steps of a merge change nothing but the fingers, the candidate and what is left to do.
LEMMA MergeStep ==
    ASSUME Inv, pc \in {"pass", "merge", "walk"}, pc' \in {"pass", "merge", "walk"},
           UNCHANGED <<succs, search, tree>>
    PROVE  /\ TypeOK' /\ OrderInv' /\ TreeInv' /\ PassInv'
           /\ \A x : Processed(x)' <=> Processed(x)
           /\ \A x : IdomChain(x)' = IdomChain(x) /\ Preds(x)' = Preds(x)
           /\ \A x : Candidate(x)' <=> Candidate(x)
           /\ block' = block
<1>1. /\ TypeOK /\ OrderInv /\ TreeInv /\ PassInv
      /\ UNCHANGED <<succs, order, idom, changed, index, stack, visited>>
    BY DEF Inv, search, tree
<1>2. /\ OrderInv' /\ TreeInv' /\ Reachable' = Reachable
      /\ \A x : Processed(x)' <=> Processed(x)
      /\ \A x : IdomChain(x)' = IdomChain(x) /\ Preds(x)' = Preds(x)
      /\ \A x : StrictDominators(x)' = StrictDominators(x)
      /\ \A d, x : Dom(d, x)' <=> Dom(d, x)
    BY <1>1, TreeUnchanged
<1>3. block' = block
    BY <1>1 DEF block
<1>4. \A x : Candidate(x)' <=> Candidate(x)
    BY <1>2, <1>3 DEF Candidate, StrictDominators, Dom
<1>5. \A x : Settled(x)' <=> Settled(x)
    BY <1>1 DEF Settled, Preds, Processed, IdomChain
<1>6. PassInv'
    BY <1>1, <1>2, <1>5 DEF PassInv, AllProcessed
<1>7. TypeOK'
    BY <1>1 DEF TypeOK
<1> QED
    BY <1>2, <1>3, <1>4, <1>6, <1>7

LEMMA VisitBlockInv == Inv /\ VisitBlock => Inv'
<1> SUFFICES ASSUME Inv, VisitBlock
             PROVE  Inv'
    OBVIOUS
<1>1. /\ pc = "pass" /\ TypeOK /\ OrderInv /\ TreeInv /\ PassInv /\ index <= Len(order)
    BY DEF Inv, VisitBlock
<1>2. /\ block \in Reachable \ {Start} /\ Number(block) = index
      /\ \E p \in Preds(block) : Processed(p)
    BY <1>1, BlockAtHand
<1>3. PICK p \in Preds(block) :
        /\ Processed(p) /\ newIdom' = p /\ todo' = Preds(block) \ {p}
        /\ pc' = "merge" /\ UNCHANGED <<succs, search, tree>>
    BY <1>2 DEF VisitBlock, tree
<1>4. /\ TypeOK' /\ OrderInv' /\ TreeInv' /\ PassInv'
      /\ \A x : IdomChain(x)' = IdomChain(x) /\ Preds(x)' = Preds(x)
      /\ \A x : Candidate(x)' <=> Candidate(x)
      /\ block' = block
    BY <1>1, <1>3, MergeStep
<1>5. Candidate(p)
    BY <1>1, <1>3, PredsAreCandidates
<1>6. index' \in 2 .. Len(order')
    BY <1>1, <1>3, NumbersAreOrder DEF PassInv, tree
<1>7. MergeInv'
    BY <1>3, <1>4, <1>5, <1>6 DEF MergeInv
<1>8. MergedInv'
    BY <1>1, <1>3, <1>4, IdomChainIsClosed DEF MergedInv
<1> QED
    BY <1>3, <1>4, <1>7, <1>8 DEF Inv

LEMMA SkipPredInv == Inv /\ SkipPred => Inv'
<1> SUFFICES ASSUME Inv, SkipPred
             PROVE  Inv'
    OBVIOUS
<1>1. /\ pc = "merge" /\ TypeOK /\ OrderInv /\ TreeInv /\ PassInv /\ MergeInv /\ MergedInv
    BY DEF Inv, SkipPred
<1>2. PICK p \in todo : PassOver(p) /\ todo' = todo \ {p}
    BY DEF SkipPred
<1>3. pc' = "merge" /\ newIdom' = newIdom /\ UNCHANGED <<succs, search, tree>>
    BY <1>1 DEF SkipPred
<1>4. /\ TypeOK' /\ OrderInv' /\ TreeInv' /\ PassInv'
      /\ \A x : Processed(x)' <=> Processed(x)
      /\ \A x : IdomChain(x)' = IdomChain(x) /\ Preds(x)' = Preds(x)
      /\ \A x : Candidate(x)' <=> Candidate(x)
      /\ block' = block
    BY <1>1, <1>3, MergeStep
<1>5. MergeInv'
    BY <1>1, <1>2, <1>3, <1>4 DEF MergeInv, tree
<1>6. MergedInv'
    <2> SUFFICES ASSUME NEW q \in Preds(block) \ todo', Processed(q)
                 PROVE  newIdom \in IdomChain(q)
        BY <1>3, <1>4 DEF MergedInv
    <2>1. CASE q \in todo
        BY <1>1, <1>2, <2>1, IdomChainIsClosed DEF PassOver
    <2>2. CASE q \notin todo
        BY <1>1, <2>2 DEF MergedInv
    <2> QED
        BY <2>1, <2>2
<1> QED
    BY <1>3, <1>4, <1>5, <1>6 DEF Inv

LEMMA StartWalkInv == Inv /\ StartWalk => Inv'
<1> SUFFICES ASSUME Inv, StartWalk
             PROVE  Inv'
    OBVIOUS
<1>1. /\ pc = "merge" /\ TypeOK /\ OrderInv /\ TreeInv /\ PassInv /\ MergeInv /\ MergedInv
    BY DEF Inv, StartWalk
<1>2. PICK p \in todo : ~PassOver(p) /\ b' = p /\ todo' = todo \ {p}
    BY DEF StartWalk
<1>3. pc' = "walk" /\ a' = newIdom /\ newIdom' = newIdom /\ UNCHANGED <<succs, search, tree>>
    BY DEF StartWalk
<1>4. /\ TypeOK' /\ OrderInv' /\ TreeInv' /\ PassInv'
      /\ \A x : Processed(x)' <=> Processed(x)
      /\ \A x : IdomChain(x)' = IdomChain(x) /\ Preds(x)' = Preds(x)
      /\ \A x : Candidate(x)' <=> Candidate(x)
      /\ block' = block
    BY <1>1, <1>3, MergeStep
<1>5. MergeInv'
    BY <1>1, <1>2, <1>3, <1>4 DEF MergeInv, tree
<1>6. Candidate(p) /\ Candidate(newIdom)
    BY <1>1, <1>2, NumbersAreOrder, PredsAreCandidates DEF MergeInv, PassOver
<1>7. \A q \in Preds(block) \ todo' : Processed(q) => newIdom \in IdomChain(q) \/ p \in IdomChain(q)
    BY <1>1, <1>2, IdomChainIsClosed DEF MergedInv
<1>8. newIdom \in IdomChain(newIdom)
    BY <1>1, IdomChainIsClosed
<1>9. WalkInv'
    BY <1>2, <1>3, <1>4, <1>6, <1>7, <1>8 DEF WalkInv
<1> QED
    BY <1>3, <1>4, <1>5, <1>9 DEF Inv

(***************************************************************************)
(* A finger that is raised stays on the tree and below all strict          *)
(* dominators of the block at hand: it is none of them itself, since the   *)
(* other finger has a smaller number.                                      *)
(***************************************************************************)
LEMMA RaisedIsCandidate ==
    ASSUME TypeOK, OrderInv, TreeInv, NEW x, NEW y, Candidate(x), Candidate(y), Number(x) < Number(y)
    PROVE  Candidate(idom[y])
<1>1. /\ x \in Reachable /\ y \in Reachable /\ Processed(y)
      /\ Number(x) \in Nat /\ Number(y) \in Nat /\ Number(x) >= 1
    BY NumbersAreOrder DEF Candidate
<1>2. y # Start /\ y \in Blocks
    BY <1>1, NumbersAreOrder
<1>3. idom[y] \in Reachable /\ Processed(idom[y]) /\ \A d \in StrictDominators(y) : Dom(d, idom[y])
    BY <1>1, <1>2 DEF TreeInv
<1>4. ASSUME NEW d \in StrictDominators(block)
      PROVE  Dom(d, idom[y])
    <2>1. d \in Reachable /\ Dom(d, x) /\ Dom(d, y)
        BY DEF StrictDominators, Candidate
    <2>2. d # y
        <3>1. SUFFICES ASSUME d = y
                       PROVE  FALSE
            OBVIOUS
        <3>2. d # x /\ Number(d) < Number(x)
            BY <1>1, <2>1, <3>1, DominatorsHaveSmallerNumbers
        <3> QED
            BY <1>1, <3>1, <3>2
    <2>3. d \in StrictDominators(y)
        BY <2>1, <2>2 DEF StrictDominators, Dom
    <2> QED
        BY <1>3, <2>3
<1> QED
    BY <1>3, <1>4 DEF Candidate

LEMMA RaiseInv == Inv /\ (RaiseA \/ RaiseB) => Inv'
<1> SUFFICES ASSUME Inv, RaiseA \/ RaiseB
             PROVE  Inv'
    OBVIOUS
<1>1. /\ pc = "walk" /\ TypeOK /\ OrderInv /\ TreeInv /\ PassInv /\ MergeInv /\ WalkInv
    BY DEF Inv, RaiseA, RaiseB
<1>2. /\ pc' = "walk" /\ UNCHANGED <<succs, search, tree>>
      /\ newIdom' = newIdom /\ todo' = todo
    BY <1>1 DEF RaiseA, RaiseB
<1>3. /\ TypeOK' /\ OrderInv' /\ TreeInv' /\ PassInv'
      /\ \A x : Processed(x)' <=> Processed(x)
      /\ \A x : IdomChain(x)' = IdomChain(x) /\ Preds(x)' = Preds(x)
      /\ \A x : Candidate(x)' <=> Candidate(x)
      /\ block' = block
    BY <1>1, <1>2, MergeStep
<1>4. MergeInv'
    BY <1>1, <1>2, <1>3 DEF MergeInv, tree
<1>5. \A x \in {a, b} : x \in Blocks /\ Processed(x)
    BY <1>1, NumbersAreOrder DEF WalkInv, Candidate
<1>6. CASE RaiseB
    <2>1. Number(a) < Number(b) /\ b' = idom[b] /\ a' = a
        BY <1>6 DEF RaiseB
    <2>2. Candidate(idom[b])
        BY <1>1, <2>1, RaisedIsCandidate DEF WalkInv
    <2>3. \A q : b \in IdomChain(q) => idom[b] \in IdomChain(q)
        BY <1>1, <1>5, IdomChainIsClosed
    <2>4. WalkInv'
        BY <1>1, <1>2, <1>3, <2>1, <2>2, <2>3 DEF WalkInv
    <2> QED
        BY <1>2, <1>3, <1>4, <2>4 DEF Inv
<1>7. CASE RaiseA
    <2>1. Number(b) < Number(a) /\ a' = idom[a] /\ b' = b
        BY <1>7 DEF RaiseA
    <2>2. Candidate(idom[a])
        BY <1>1, <2>1, RaisedIsCandidate DEF WalkInv
    <2>3. idom[a] \in IdomChain(newIdom)
        BY <1>1, <1>5, IdomChainIsClosed DEF WalkInv
    <2>4. WalkInv'
        BY <1>1, <1>2, <1>3, <2>1, <2>2, <2>3 DEF WalkInv
    <2> QED
        BY <1>2, <1>3, <1>4, <2>4 DEF Inv
<1> QED
    BY <1>6, <1>7

LEMMA EndWalkInv == Inv /\ EndWalk => Inv'
<1> SUFFICES ASSUME Inv, EndWalk
             PROVE  Inv'
    OBVIOUS
<1>1. /\ pc = "walk" /\ TypeOK /\ OrderInv /\ TreeInv /\ PassInv /\ MergeInv /\ WalkInv
      /\ a = b
    BY DEF Inv, EndWalk
<1>2. /\ pc' = "merge" /\ UNCHANGED <<succs, search, tree>>
      /\ newIdom' = a /\ todo' = todo
    BY DEF EndWalk
<1>3. /\ TypeOK' /\ OrderInv' /\ TreeInv' /\ PassInv'
      /\ \A x : Processed(x)' <=> Processed(x)
      /\ \A x : IdomChain(x)' = IdomChain(x) /\ Preds(x)' = Preds(x)
      /\ \A x : Candidate(x)' <=> Candidate(x)
      /\ block' = block
    BY <1>1, <1>2, MergeStep
<1>4. MergeInv'
    BY <1>1, <1>2, <1>3 DEF MergeInv, WalkInv, tree
<1>5. ASSUME NEW q \in Preds(block) \ todo, Processed(q)
      PROVE  a \in IdomChain(q)
    <2>1. q \in Reachable
        BY <1>1, <1>5, BlockAtHand, NumbersAreOrder DEF MergeInv
    <2>2. CASE newIdom \in IdomChain(q)
        BY <1>1, <1>5, <2>1, <2>2, ChainOfTheTree DEF WalkInv
    <2>3. CASE b \in IdomChain(q)
        BY <1>1, <2>3
    <2> QED
        BY <1>1, <1>5, <2>2, <2>3 DEF WalkInv
<1>6. MergedInv'
    BY <1>2, <1>3, <1>5 DEF MergedInv
<1> QED
    BY <1>2, <1>3, <1>4, <1>6 DEF Inv

\* The merged candidate is on the chain of a predecessor with a smaller number.
LEMMA MergedIsSmaller ==
    ASSUME TypeOK, OrderInv, TreeInv, PassInv, MergeInv, MergedInv, todo = {}
    PROVE  Number(newIdom) < Number(block)
<1>1. index <= Len(order) /\ index \in Nat
    BY NumbersAreOrder DEF MergeInv
<1>2. PICK p \in Preds(block) : Processed(p) /\ p \in Reachable /\ Number(p) < index
    BY <1>1, BlockAtHand
<1>3. Number(newIdom) <= Number(p) /\ newIdom \in Reachable
    BY <1>2, ChainOfTheTree DEF MergedInv
<1>4. Number(newIdom) \in Nat /\ Number(p) \in Nat /\ Number(block) = index
    BY <1>1, <1>2, <1>3, NumbersAreOrder, BlockAtHand
<1> QED
    BY <1>1, <1>2, <1>3, <1>4

LEMMA SetIdomInv == Inv /\ SetIdom => Inv'
<1> SUFFICES ASSUME Inv, SetIdom
             PROVE  Inv'
    OBVIOUS
<1>1. /\ TypeOK /\ OrderInv /\ TreeInv /\ PassInv /\ MergeInv /\ MergedInv
      /\ todo = {}
    BY DEF Inv, SetIdom
<1>2. /\ pc' = "pass" /\ index' = index + 1
      /\ idom' = [idom EXCEPT ![block] = newIdom]
      /\ changed' = (changed \/ idom[block] # newIdom)
      /\ UNCHANGED <<succs, stack, visited, order>>
    BY DEF SetIdom, search
<1> DEFINE x == block
           m == newIdom
<1>3. /\ index \in 2 .. Len(order) /\ Len(order) \in Nat
      /\ x \in Reachable \ {Start} /\ x \in Blocks /\ Number(x) = index
      /\ order[index] = x
    BY <1>1, NumbersAreOrder, BlockAtHand DEF MergeInv, block
<1>4. m \in Reachable /\ m \in Blocks /\ m # None /\ Processed(m) /\ Number(m) < Number(x)
    BY <1>1, MergedIsSmaller, NumbersAreOrder, BlocksAssumption DEF MergeInv, Candidate
<1>5. \A d \in StrictDominators(x) : Dom(d, m)
    BY <1>1 DEF MergeInv, Candidate
<1> HIDE DEF x, m
<1>6. idom' = [idom EXCEPT ![x] = m]
    BY <1>2 DEF x, m
<1>7. idom'[x] = m /\ \A y \in Blocks \ {x} : idom'[y] = idom[y]
    BY <1>1, <1>3, <1>6 DEF TypeOK
<1>8. TypeOK'
    BY <1>1, <1>2, <1>4, <1>6 DEF TypeOK
<1>9. Reachable' = Reachable /\ OrderInv' /\ \A y : Number(y)' = Number(y)
    BY <1>1, <1>2, OrderUnchanged
<1>10. \A y \in Blocks : Processed(y)' <=> (Processed(y) \/ y = x)
    BY <1>4, <1>7 DEF Processed
<1>11. /\ \A y : StrictDominators(y)' = StrictDominators(y)
       /\ \A d, y : Dom(d, y)' <=> Dom(d, y)
    BY <1>2, <1>9 DEF StrictDominators, Dom
<1>12. Reachable \subseteq Blocks
    BY <1>1, NumbersAreOrder
<1>13. TreeInv'
    <2>1. idom'[Start] = Start
        BY <1>1, <1>3, <1>7, BlocksAssumption DEF TreeInv
    <2>2. ASSUME NEW y \in Blocks \ {Start}, Processed(y)'
          PROVE  /\ y \in Reachable /\ idom'[y] \in Reachable /\ idom'[idom'[y]] # None
                 /\ Number(idom'[y]) < Number(y)
                 /\ \A d \in StrictDominators(y) : Dom(d, idom'[y])
        <3>1. CASE y = x
            <4>1. idom'[m] # None
                BY <1>4, <1>7 DEF Processed
            <4> QED
                BY <1>3, <1>4, <1>5, <1>7, <3>1, <4>1
        <3>2. CASE y # x
            <4>1. Processed(y) /\ idom'[y] = idom[y]
                BY <1>7, <1>10, <2>2, <3>2
            <4>2. /\ y \in Reachable /\ idom[y] \in Reachable /\ Processed(idom[y])
                  /\ Number(idom[y]) < Number(y)
                  /\ \A d \in StrictDominators(y) : Dom(d, idom[y])
                BY <1>1, <4>1 DEF TreeInv
            <4>3. idom'[idom[y]] # None
                BY <1>4, <1>7, <1>12, <4>2 DEF Processed
            <4> QED
                BY <4>1, <4>2, <4>3 DEF Processed
        <3> QED
            BY <3>1, <3>2
    <2> QED
        BY <1>9, <1>11, <2>1, <2>2 DEF TreeInv, Processed
<1>14. PassInv'
    <2>1. index' \in 2 .. Len(order') + 1 /\ changed' \in BOOLEAN
        BY <1>1, <1>2, <1>3 DEF PassInv
    <2>2. \A k \in 1 .. Len(order) : order[k] \in Blocks /\ (order[k] = x => k = index)
        BY <1>1, <1>3, NumbersAreOrder
    <2>3. \A k \in 1 .. index' - 1 : Processed(order[k])'
        BY <1>1, <1>2, <1>3, <1>10, <2>2 DEF PassInv
    <2>4. AllProcessed' \/ ((changed' \/ index' = 2) /\ \A k \in index' .. Len(order') : ~Processed(order[k])')
        <3>1. CASE AllProcessed
            BY <1>9, <1>10, <1>12, <3>1 DEF AllProcessed
        <3>2. CASE \A k \in index .. Len(order) : ~Processed(order[k])
            <4>1. idom[x] = None
                BY <1>3, <3>2 DEF Processed
            <4>2. changed'
                BY <1>2, <1>4, <4>1 DEF x, m
            <4>3. \A k \in index + 1 .. Len(order) : ~Processed(order[k])'
                BY <1>2, <1>3, <1>7, <2>2, <3>2 DEF Processed
            <4> QED
                BY <1>2, <4>2, <4>3
        <3> QED
            BY <1>1, <3>1, <3>2 DEF PassInv
    <2>5. ASSUME ~changed', NEW k \in 2 .. index
          PROVE  Settled(order[k])'
        <3>1. ~changed /\ idom[x] = m
            BY <1>1, <1>2, <2>5 DEF PassInv, x, m
        <3>2. idom' = idom
            BY <1>1, <1>3, <1>6, <3>1 DEF TypeOK
        <3>3. Settled(order[k])' <=> Settled(order[k])
            BY <1>2, <3>2 DEF Settled, Preds, Processed, IdomChain
        <3>4. CASE k = index
            BY <1>1, <1>3, <3>1, <3>3, <3>4 DEF MergedInv, Settled, x, m
        <3>5. CASE k # index
            BY <1>1, <1>3, <3>1, <3>3, <3>5 DEF PassInv
        <3> QED
            BY <3>4, <3>5
    <2> QED
        BY <1>2, <1>3, <2>1, <2>3, <2>4, <2>5 DEF PassInv
<1> QED
    BY <1>2, <1>8, <1>9, <1>13, <1>14 DEF Inv

LEMMA EndOfPassInv == Inv /\ (AnotherPass \/ Finish) => Inv'
<1> SUFFICES ASSUME Inv, AnotherPass \/ Finish
             PROVE  Inv'
    OBVIOUS
<1>1. /\ pc = "pass" /\ TypeOK /\ OrderInv /\ TreeInv /\ PassInv /\ index > Len(order)
      /\ UNCHANGED <<succs, stack, visited, order, idom>>
    BY DEF Inv, AnotherPass, Finish, search, tree
<1>2. Len(order) \in Nat /\ Len(order) >= 1 /\ index = Len(order) + 1
    BY <1>1, NumbersAreOrder DEF PassInv, OrderInv
<1>3. /\ OrderInv' /\ TreeInv' /\ Reachable' = Reachable
      /\ \A x : Processed(x)' <=> Processed(x)
      /\ \A x : IdomChain(x)' = IdomChain(x) /\ Preds(x)' = Preds(x)
    BY <1>1, TreeUnchanged
<1>4. AllProcessed
    <2>1. \A x \in Reachable : Number(x) \in 1 .. Len(order) /\ order[Number(x)] = x
        BY <1>1, NumbersAreOrder
    <2> QED
        BY <1>1, <1>2, <2>1 DEF AllProcessed, PassInv
<1>5. AllProcessed'
    BY <1>3, <1>4 DEF AllProcessed
<1>6. CASE AnotherPass
    <2>1. pc' = pc /\ changed' = FALSE /\ index' = 2
        BY <1>6 DEF AnotherPass
    <2>2. TypeOK'
        BY <1>1, <2>1 DEF TypeOK
    <2>3. \A k \in 1 .. index' - 1 : Processed(order[k])'
        <3>1. idom[order[1]] # None
            BY <1>1, <1>2 DEF PassInv, Processed
        <3>2. \A k \in 1 .. index' - 1 : k = 1
            BY <2>1
        <3> QED
            BY <1>1, <3>1, <3>2 DEF Processed
    <2>4. index' \in 2 .. Len(order') + 1 /\ \A k \in 2 .. index' - 1 : FALSE
        BY <1>1, <1>2, <2>1
    <2>5. PassInv'
        BY <1>5, <2>1, <2>3, <2>4 DEF PassInv
    <2> QED
        BY <1>1, <1>3, <2>1, <2>2, <2>5 DEF Inv
<1>7. CASE Finish
    <2>1. pc' = "done" /\ ~changed
        BY <1>7 DEF Finish
    <2>2. TypeOK'
        BY <1>1, <2>1 DEF TypeOK
    <2>3. \A x \in Reachable \ {Start} : Settled(x)
        <3>1. \A k \in 2 .. Len(order) : Settled(order[k])
            BY <1>1, <1>2, <2>1 DEF PassInv
        <3>2. \A x \in Reachable \ {Start} : Number(x) \in 2 .. Len(order) /\ order[Number(x)] = x
            BY <1>1, <1>2, NumbersAreOrder DEF OrderInv
        <3> QED
            BY <3>1, <3>2
    <2>4. \A x : Settled(x)' <=> Settled(x)
        BY <1>1 DEF Settled, Preds, Processed, IdomChain
    <2> QED
        BY <1>3, <1>5, <2>1, <2>2, <2>3, <2>4 DEF Inv
<1> QED
    BY <1>6, <1>7

LEMMA InitInv == Init => Inv
<1>1. Init => pc = "dfs" /\ idom = [x \in Blocks |-> None]
    BY DEF Init
<1> QED
    BY <1>1, InitSearch DEF Inv

LEMMA SearchStepInv == Inv /\ (Descend \/ Ascend) => Inv'
<1> SUFFICES ASSUME Inv, Descend \/ Ascend
             PROVE  Inv'
    OBVIOUS
<1>1. TypeOK /\ SearchInv /\ idom = [x \in Blocks |-> None] /\ pc = "dfs"
    BY DEF Inv, Descend, Ascend
<1>2. idom' = idom /\ pc' = pc
    BY DEF Descend, Ascend, tree
<1>3. TypeOK' /\ SearchInv'
    BY <1>1, DescendSearch, AscendSearch
<1> QED
    BY <1>1, <1>2, <1>3 DEF Inv

LEMMA StutterInv == Inv /\ UNCHANGED vars => Inv'
<1> SUFFICES ASSUME Inv, UNCHANGED vars
             PROVE  Inv'
    OBVIOUS
<1>1. /\ UNCHANGED <<succs, pc, stack, visited, order, idom, changed, index>>
      /\ UNCHANGED <<newIdom, todo, a, b>>
    BY DEF vars, search, tree, walk
<1>2. TypeOK' <=> TypeOK
    BY <1>1 DEF TypeOK
<1>3. SearchInv' <=> SearchInv
    BY <1>1 DEF SearchInv, VisitedOnce, OnlyReachableVisited, StackIsPath, ReturnedIsExplored,
                EdgesIntoStack, EdgesInPostorder, CallersReturnLater, StartReturnsLast, Within,
                UpTo, Reachable
<1>4. (OrderInv' <=> OrderInv) /\ (TreeInv' <=> TreeInv)
    BY <1>1 DEF OrderInv, TreeInv, Processed, Number, StrictDominators, Dom, Reachable, Numbered
<1>5. (PassInv' <=> PassInv) /\ (AllProcessed' <=> AllProcessed)
    BY <1>1 DEF PassInv, AllProcessed, Settled, Processed, Preds, IdomChain, Reachable
<1>6. (MergeInv' <=> MergeInv) /\ (MergedInv' <=> MergedInv) /\ (WalkInv' <=> WalkInv)
    BY <1>1 DEF MergeInv, MergedInv, WalkInv, Candidate, Processed, Preds, IdomChain, Reachable,
                StrictDominators, Dom, block
<1>7. \A x \in Reachable : Settled(x)' <=> Settled(x)
    BY <1>1 DEF Settled, Processed, Preds, IdomChain
<1>8. Reachable' = Reachable
    BY <1>1 DEF Reachable
<1> QED
    BY <1>1, <1>2, <1>3, <1>4, <1>5, <1>6, <1>7, <1>8 DEF Inv

LEMMA NextInv == Inv /\ [Next]_vars => Inv'
BY SearchStepInv, StartFixpointInv, VisitBlockInv, SkipPredInv, StartWalkInv, RaiseInv, EndWalkInv,
   SetIdomInv, EndOfPassInv, StutterInv DEF Next, Finished

-----------------------------------------------------------------------------

(***************************************************************************)
(* The inductive invariant of GraphAnalyzer: the search keeps an order in  *)
(* which what closes a cycle is known, and from then on each edge of the   *)
(* tree leads to a block that the remaining dominators still dominate.     *)
(***************************************************************************)
THEOREM InductiveInvariant == Spec => []Inv
BY InitInv, NextInv, PTL DEF Spec

(***************************************************************************)
(* The order ComputeRPO leaves is a reverse postorder of the reachable     *)
(* blocks of any graph.                                                    *)
(***************************************************************************)
THEOREM OrderIsReversePostorder == Spec => []IsReversePostorder
<1>1. ASSUME Inv
      PROVE  IsReversePostorder
    <2>1. CASE pc \in {"dfs", "done"}
        BY <2>1 DEF IsReversePostorder
    <2>2. CASE pc \notin {"dfs", "done"}
        <3>1. TypeOK /\ OrderInv
            BY <1>1, <2>2 DEF Inv
        <3>2. Len(order) = Cardinality(Reachable)
            BY <3>1, OrderIsCounted
        <3> QED
            BY <3>1, <3>2 DEF IsReversePostorder, OrderInv
    <2> QED
        BY <2>1, <2>2
<1> QED
    BY <1>1, InductiveInvariant, PTL

(***************************************************************************)
(* The fingers of BuildDominatorTree never leave the tree, and every edge  *)
(* of it leads to a smaller number.                                        *)
(***************************************************************************)
THEOREM FingersStayOnTheTree == Spec => []FingersStandOnTheTree
<1>1. ASSUME Inv
      PROVE  FingersStandOnTheTree
    <2>1. CASE pc = "dfs"
        BY <2>1 DEF FingersStandOnTheTree
    <2>2. CASE pc # "dfs"
        <3>1. TypeOK /\ OrderInv /\ TreeInv /\ Range(order) = Reachable
            BY <1>1, <2>2 DEF Inv, OrderInv
        <3>2. pc = "walk" => WalkInv
            BY <1>1 DEF Inv
        <3> QED
            BY <3>1, <3>2 DEF FingersStandOnTheTree, TreeInv, WalkInv, Candidate
    <2> QED
        BY <2>1, <2>2
<1> QED
    BY <1>1, InductiveInvariant, PTL

(***************************************************************************)
(* No iteration of BuildDominatorTree takes a strict dominator of a block  *)
(* off its way up the tree.                                                *)
(***************************************************************************)
THEOREM DominatorsAreKept == Spec => []NoDominatorLost
<1>1. ASSUME Inv
      PROVE  NoDominatorLost
    <2> SUFFICES ASSUME pc \notin {"dfs", "done"}, NEW x \in Range(order), Processed(x)
                 PROVE  StrictDominators(x) \subseteq IdomChain(x)
        BY DEF NoDominatorLost
    <2> QED
        BY <1>1, ChainKeepsDominators DEF Inv, OrderInv
<1> QED
    BY <1>1, InductiveInvariant, PTL

-----------------------------------------------------------------------------

(***************************************************************************)
(* What the tree says when the fixpoint is reached: a block that is on the *)
(* chain of x without being a dominator would be missed by some path from  *)
(* the start to x, but it is on the chain of no block on such a path.      *)
(***************************************************************************)
LEMMA FixpointIsDominance ==
    ASSUME Inv, pc = "done", NEW x \in Reachable
    PROVE  {d \in Blocks : Dominates(d, x)} = {x} \cup StrictDominators(x)
<1>1. /\ TypeOK /\ OrderInv /\ TreeInv
      /\ \A y \in Reachable : Processed(y)
      /\ \A y \in Reachable \ {Start} : Settled(y)
    BY DEF Inv, AllProcessed
<1>2. /\ \A y \in Reachable : y \in Blocks /\ Processed(y) /\ succs[y] \subseteq Reachable
      /\ Start \in Reachable
    BY <1>1, ReachableIsClosed
<1>3. {x} \cup StrictDominators(x) \subseteq {d \in Blocks : Dominates(d, x)}
    <2>1. StrictDominators(x) \subseteq IdomChain(x) /\ x \in IdomChain(x)
        BY <1>1, ChainKeepsDominators, IdomChainIsClosed
    <2> QED
        BY <1>2, <2>1 DEF Dominates, StrictDominators
<1>4. ASSUME NEW d \in Blocks, d \in IdomChain(x), d # x
      PROVE  d \in StrictDominators(x)
    <2> DEFINE R == ReachFrom(succs, {Start} \ {d}, DOMAIN succs \ {d})
               T == {y \in Reachable : d \notin IdomChain(y)}
    <2>1. d \in Reachable
        BY <1>1, <1>4, ChainOfTheTree
    <2>2. {Start} \ {d} \subseteq T
        <3>1. IdomChain(Start) \subseteq {Start}
            BY <1>1, <1>2, IdomChainIsLeast DEF TreeInv
        <3> QED
            BY <1>2, <3>1
    <2>3. ASSUME NEW y \in T, NEW z \in succs[y] \cap (DOMAIN succs \ {d})
          PROVE  z \in T
        <3>1. z \in Reachable /\ y \in Reachable /\ y \in Preds(z) /\ z # d
            BY <1>1, <1>2 DEF Preds, PredsIn, TypeOK
        <3>2. CASE z = Start
            BY <2>2, <3>1, <3>2
        <3>3. CASE z # Start
            <4>1. idom[z] \in IdomChain(y)
                BY <1>1, <1>2, <3>1, <3>3 DEF Settled
            <4>2. IdomChain(idom[z]) \subseteq IdomChain(y)
                BY <1>1, <1>2, <3>1, <4>1, ChainOfTheTree
            <4>3. d \notin IdomChain(z)
                BY <1>1, <1>2, <3>1, <4>2, ChainOfTheTree
            <4> QED
                BY <3>1, <4>3
        <3> QED
            BY <3>2, <3>3
    <2> HIDE DEF T
    <2>4. R \subseteq T
        BY <2>2, <2>3, ReachFromIsLeast
    <2>5. x \notin R
        BY <1>4, <2>4 DEF T
    <2> QED
        BY <1>4, <2>1, <2>5 DEF StrictDominators, DominatesIn
<1> QED
    BY <1>3, <1>4 DEF Dominates

(***************************************************************************)
(* When BuildDominatorTree has returned, Dominates answers for every       *)
(* reachable block of any graph as dominance on paths does.                *)
(***************************************************************************)
THEOREM TreeIsDominance ==
    Spec => [](pc = "done" => \A x \in Reachable :
                 {d \in Blocks : Dominates(d, x)} = {x} \cup StrictDominators(x))
<1>1. Inv => (pc = "done" => \A x \in Reachable :
                {d \in Blocks : Dominates(d, x)} = {x} \cup StrictDominators(x))
    BY FixpointIsDominance
<1> QED
    BY <1>1, InductiveInvariant, PTL

-----------------------------------------------------------------------------
(***************************************************************************)
(* Dominators only climb.  A pass computes the dominator of a block from   *)
(* chains that the pass has made shorter and chains that it has not come   *)
(* to, and the dominator a block has until then may be one that is on none *)
(* of the shorter ones.  What is known of it is known of the tree that the *)
(* pass began with, old.                                                   *)
(***************************************************************************)

\* The parent of x is on the chains of the predecessors that a pass visits before x.
Fresh(t, x) == \A p \in Preds(x) \cap Reachable : Number(p) < Number(x) => t[x] \in Chain(t, p)

\* What the chains of all predecessors of x share is on the chain of its parent.
Lowest(t, x) ==
    \A u \in Reachable : (\A p \in Preds(x) : t[p] # None => u \in Chain(t, p)) => u \in Chain(t, t[x])

PassFrom(old) ==
    /\ Tree(old)
    /\ (\A x \in Reachable : old[x] # None) \/ (\A x \in Reachable \ {Start} : old[x] = None)
    /\ \A k \in index .. Len(order) : old[order[k]] = idom[order[k]]
    /\ \A x \in Reachable : old[x] # None => idom[x] # None /\ Chain(idom, x) \subseteq Chain(old, x)
    /\ \A x \in Reachable \ {Start} : old[x] # None => Fresh(old, x) /\ Lowest(old, x)
    /\ \A k \in 2 .. index - 1 : Fresh(idom, order[k]) /\ Lowest(idom, order[k])

\* On the chains of all predecessors that the merge has been to.
Shared(u) == \A p \in Preds(block) \ todo : idom[p] # None => u \in Chain(idom, p)

ClimbInv ==
    /\ pc \in {"pass", "merge", "walk"} => \E old \in [Blocks -> Blocks \cup {None}] : PassFrom(old)
    /\ pc = "merge" => \A u \in Reachable : Shared(u) => u \in Chain(idom, newIdom)
    /\ pc = "walk" => \A u \in Reachable : Shared(u) => u \in Chain(idom, a) /\ u \in Chain(idom, b)

\* Each reachable block but the first is entered from one with a smaller number.
LEMMA SmallerPred ==
    ASSUME TypeOK, OrderInv, NEW x \in Reachable \ {Start}
    PROVE  \E p \in Preds(x) \cap Reachable : Number(p) < Number(x)
<1>1. /\ Number(x) \in 2 .. Len(order) /\ order[Number(x)] = x /\ Len(order) \in Nat
    <2>1. Number(x) \in 1 .. Len(order) /\ order[Number(x)] = x /\ Len(order) \in Nat
        BY NumbersAreOrder
    <2>2. order[1] = Start
        BY DEF OrderInv
    <2> QED
        BY <2>1, <2>2
<1>2. PICK j \in 1 .. (Number(x) - 1) : x \in succs[order[j]]
    BY <1>1 DEF OrderInv
<1>3. order[j] \in Reachable /\ order[j] \in Blocks /\ Number(order[j]) = j
    BY <1>1, NumbersAreOrder
<1>4. order[j] \in Preds(x) \cap Reachable /\ Number(order[j]) < Number(x)
    BY <1>1, <1>2, <1>3 DEF Preds, PredsIn, TypeOK
<1> QED
    BY <1>4

(***************************************************************************)
(* Where v was on the way up from w and u on the way up from v, u is still *)
(* above v if it is still above w and the pass has been to w: going down   *)
(* from w by predecessors with smaller numbers, u and v stay above, until  *)
(* v itself is met.                                                        *)
(***************************************************************************)
LEMMA StillAbove ==
    ASSUME TypeOK, OrderInv, TreeInv, PassInv,
           NEW old \in [Blocks -> Blocks \cup {None}], PassFrom(old),
           \A x \in Reachable : old[x] # None,
           NEW v \in Reachable, NEW u \in Reachable, u \in Chain(old, v),
           NEW w \in Reachable, Number(w) < index, v \in Chain(old, w), u \in Chain(idom, w)
    PROVE  u \in Chain(idom, v)
<1>1. SUFFICES ASSUME u \notin Chain(idom, v)
               PROVE  FALSE
    OBVIOUS
<1> DEFINE Below == {y \in Reachable : Number(y) < index /\ v \in Chain(old, y) /\ u \in Chain(idom, y)}
           T == {Number(y) : y \in Below}
<1>2. \A y \in Reachable : Number(y) \in Nat /\ Number(y) >= 1 /\ order[Number(y)] = y /\ y \in Blocks
    BY NumbersAreOrder
<1>3. T \in SUBSET Nat /\ T # {}
    BY <1>2
<1>4. PICK y \in Below : \A z \in Below : Number(y) <= Number(z)
    <2>1. PICK k \in T : \A j \in T : k <= j
        BY <1>3, LeastNumber
    <2> QED
        BY <2>1
<1>5. Tree(old) /\ Tree(idom) /\ old[y] # None /\ idom[y] # None
    BY <1>4, IdomIsTree DEF PassFrom
<1>6. y # v
    BY <1>1, <1>4
<1>7. Number(v) <= Number(y)
    BY <1>4, <1>5, ChainOfTree
<1>8. y # Start
    BY <1>2, <1>4, <1>6, <1>7, NumbersAreOrder
<1>9. /\ v \in Chain(old, old[y]) /\ Number(v) <= Number(old[y])
      /\ old[y] \in Reachable /\ Number(old[y]) < Number(y)
    <2>1. v \in Chain(old, old[y]) /\ old[y] \in Reachable /\ old[old[y]] # None /\ Number(old[y]) < Number(y)
        BY <1>4, <1>5, <1>6, <1>8, ChainOfTree
    <2> QED
        BY <1>5, <2>1, ChainOfTree
<1>10. Number(u) <= Number(v)
    BY <1>5, ChainOfTree
<1>11. u \in Chain(idom, idom[y])
    BY <1>2, <1>4, <1>5, <1>9, <1>10, ChainOfTree
<1>12. PICK p \in Preds(y) \cap Reachable : Number(p) < Number(y)
    BY <1>4, <1>8, SmallerPred
<1>13. Fresh(old, y) /\ Fresh(idom, y)
    <2>1. index \in Nat
        BY NumbersAreOrder DEF PassInv
    <2>2. Number(y) \in 2 .. index - 1 /\ order[Number(y)] = y
        BY <1>2, <1>4, <1>8, <2>1, NumbersAreOrder DEF OrderInv
    <2>3. Fresh(idom, y)
        BY <2>2 DEF PassFrom
    <2> QED
        BY <1>4, <1>8, <2>3 DEF PassFrom
<1>14. old[y] \in Chain(old, p) /\ idom[y] \in Chain(idom, p)
    BY <1>12, <1>13 DEF Fresh
<1>15. idom[p] # None /\ old[p] # None
    BY <1>12 DEF PassFrom
<1>16. v \in Chain(old, p) /\ u \in Chain(idom, p)
    BY <1>5, <1>9, <1>11, <1>12, <1>14, <1>15, ChainOfTree
<1>17. p \in Below
    <2>1. index \in Nat
        BY NumbersAreOrder DEF PassInv
    <2> QED
        BY <1>2, <1>4, <1>12, <1>16, <2>1
<1> QED
    BY <1>2, <1>4, <1>12, <1>17

\* So what the predecessors of the block at hand share is above the dominator it still has.
LEMMA SharedIsAbove ==
    ASSUME TypeOK, OrderInv, TreeInv, PassInv, index <= Len(order),
           NEW old \in [Blocks -> Blocks \cup {None}], PassFrom(old), idom[block] # None
    PROVE  Lowest(idom, block)
<1>1. /\ block \in Reachable \ {Start} /\ Number(block) = index /\ order[index] = block
      /\ index \in Nat /\ Len(order) \in Nat
    BY BlockAtHand, NumbersAreOrder DEF PassInv, block
<1>2. old[block] = idom[block]
    BY <1>1 DEF PassFrom
<1>3. \A x \in Reachable : old[x] # None
    BY <1>1, <1>2 DEF PassFrom
<1>4. Fresh(old, block) /\ Lowest(old, block) /\ Tree(old)
    BY <1>1, <1>3 DEF PassFrom
<1>5. SUFFICES ASSUME NEW u \in Reachable,
                      \A p \in Preds(block) : idom[p] # None => u \in Chain(idom, p)
               PROVE  u \in Chain(idom, idom[block])
    BY DEF Lowest
<1>6. ASSUME NEW p \in Preds(block), old[p] # None
      PROVE  u \in Chain(old, p)
    <2>1. p \in Reachable
        BY <1>4, <1>6, NumbersAreOrder DEF Tree, Preds, PredsIn, TypeOK
    <2> QED
        BY <1>5, <1>6, <2>1 DEF PassFrom
<1>7. u \in Chain(old, old[block])
    BY <1>4, <1>6 DEF Lowest
<1>8. PICK p \in Preds(block) \cap Reachable : Number(p) < Number(block)
    BY <1>1, SmallerPred
<1>9. old[block] \in Chain(old, p) /\ idom[p] # None
    BY <1>3, <1>4, <1>8 DEF Fresh, PassFrom
<1>10. old[block] \in Reachable
    BY <1>1, <1>3, <1>4, ChainOfTree
<1>11. u \in Chain(idom, p)
    BY <1>5, <1>8, <1>9
<1>12. u \in Chain(idom, old[block])
    BY <1>1, <1>3, <1>7, <1>8, <1>9, <1>10, <1>11, StillAbove
<1> QED
    BY <1>2, <1>12

(***************************************************************************)
(* A block x that is given a dominator m from its own chain: chains only   *)
(* lose blocks, and those below x in the order stay what they are.         *)
(***************************************************************************)
LEMMA ChainsClimb ==
    ASSUME TypeOK, OrderInv, TreeInv,
           NEW x \in Reachable \ {Start}, NEW m \in Reachable, idom[m] # None,
           Number(m) < Number(x), idom[x] # None => m \in Chain(idom, idom[x]),
           NEW t \in [Blocks -> Blocks \cup {None}], t[x] = m, \A y \in Blocks \ {x} : t[y] = idom[y]
    PROVE  /\ Tree(t)
           /\ \A y \in Reachable : idom[y] # None => Chain(t, y) \subseteq Chain(idom, y)
           /\ \A y \in Reachable : idom[y] # None /\ Number(y) < Number(x) => Chain(t, y) = Chain(idom, y)
<1>1. /\ \A y \in Reachable : y \in Blocks /\ Number(y) \in Nat
      /\ Tree(idom) /\ m # None /\ m \in Blocks /\ x \in Blocks /\ x # Start
    BY NumbersAreOrder, IdomIsTree, BlocksAssumption
<1>2. /\ idom \in [Blocks -> Blocks \cup {None}]
      /\ \A y \in Blocks \ {x} : t[y] = idom[y]
    BY <1>1 DEF TypeOK
<1>3. \A y \in Blocks : idom[y] # None => t[y] # None
    BY <1>1, <1>2
<1>4. Tree(t)
    <2>1. t[Start] = Start
        BY <1>1, <1>2, BlocksAssumption DEF Tree
    <2>2. ASSUME NEW y \in Blocks \ {Start}, t[y] # None
          PROVE  y \in Reachable /\ t[y] \in Reachable /\ t[t[y]] # None /\ Number(t[y]) < Number(y)
        <3>1. CASE y = x
            BY <1>1, <1>3, <3>1
        <3>2. CASE y # x
            BY <1>1, <1>2, <1>3, <2>2, <3>2 DEF Tree
        <3> QED
            BY <3>1, <3>2
    <2> QED
        BY <2>1, <2>2 DEF Tree
<1>5. ASSUME NEW y \in Reachable, idom[y] # None
      PROVE  Chain(t, y) \subseteq Chain(idom, y)
    <2>1. ASSUME NEW z \in Chain(idom, y), z \in Blocks, t[z] # None
          PROVE  t[z] \in Chain(idom, y)
        <3>1. z \in Reachable /\ idom[z] # None /\ Chain(idom, z) \subseteq Chain(idom, y)
            BY <1>1, <1>5, ChainOfTree
        <3>2. idom[z] \in Chain(idom, y)
            BY <1>1, <2>1, <3>1, ChainIsClosed DEF TypeOK
        <3>3. CASE z = x
            <4>1. m \in Chain(idom, idom[z])
                BY <3>1, <3>3
            <4> QED
                BY <1>1, <1>2, <1>5, <3>2, <3>3, <4>1, ChainOfTree
        <3> QED
            BY <1>2, <2>1, <3>2, <3>3
    <2>2. y \in Chain(idom, y) /\ y \in Blocks
        BY <1>1, ChainIsClosed DEF TypeOK
    <2> QED
        BY <1>2, <2>1, <2>2, ChainIsLeast
<1>6. ASSUME NEW y \in Reachable, idom[y] # None, Number(y) < Number(x)
      PROVE  Chain(idom, y) \subseteq Chain(t, y)
    <2>1. ASSUME NEW z \in Chain(t, y), z \in Blocks, idom[z] # None
          PROVE  idom[z] \in Chain(t, y)
        <3>1. t[y] # None
            BY <1>1, <1>3, <1>6
        <3>2. z \in Reachable /\ Number(z) <= Number(y)
            BY <1>4, <3>1, ChainOfTree
        <3>3. z # x
            BY <1>1, <1>6, <3>2
        <3> QED
            BY <1>2, <1>3, <2>1, <3>3, ChainIsClosed
    <2>2. y \in Chain(t, y) /\ y \in Blocks /\ idom \in [Blocks -> Blocks \cup {None}]
        BY <1>1, <1>2, ChainIsClosed DEF TypeOK
    <2> QED
        BY <2>1, <2>2, ChainIsLeast
<1> QED
    BY <1>4, <1>5, <1>6

\* What the merge has come to is above the dominator that the block has.
LEMMA MergedIsAbove ==
    ASSUME Inv, ClimbInv, SetIdom
    PROVE  idom[block] # None => newIdom \in Chain(idom, idom[block])
<1>1. /\ TypeOK /\ OrderInv /\ TreeInv /\ PassInv /\ MergeInv /\ MergedInv
      /\ todo = {} /\ pc = "merge"
    BY DEF Inv, SetIdom
<1>2. PICK old \in [Blocks -> Blocks \cup {None}] : PassFrom(old)
    BY <1>1 DEF ClimbInv
<1>3. SUFFICES ASSUME idom[block] # None
               PROVE  newIdom \in Chain(idom, idom[block])
    OBVIOUS
<1>4. Lowest(idom, block)
    BY <1>1, <1>2, <1>3, SharedIsAbove, NumbersAreOrder DEF MergeInv
<1>5. newIdom \in Reachable /\ \A p \in Preds(block) : idom[p] # None => newIdom \in Chain(idom, p)
    BY <1>1 DEF MergeInv, Candidate, MergedInv, Processed, IdomChain, Chain
<1> QED
    BY <1>4, <1>5 DEF Lowest

\* A step that leaves the tree and the position in the order leaves what is known of the pass.
LEMMA PassKept ==
    ASSUME UNCHANGED <<succs, order, idom, index>>
    PROVE  /\ \A old : PassFrom(old)' <=> PassFrom(old)
           /\ \A p, x : (x \in Chain(idom, p))' <=> x \in Chain(idom, p)
           /\ Preds(block)' = Preds(block) /\ Reachable' = Reachable
<1>1. Reachable' = Reachable
    BY DEF Reachable
<1>2. \A x : Preds(x)' = Preds(x) /\ Number(x)' = Number(x)
    BY DEF Preds, Number
<1>3. \A t, x : Chain(t, x)' = Chain(t, x)
    BY DEF Chain
<1>4. \A t, x : (Fresh(t, x)' <=> Fresh(t, x)) /\ (Lowest(t, x)' <=> Lowest(t, x))
    BY <1>1, <1>2, <1>3 DEF Fresh, Lowest
<1>5. \A t : Tree(t)' <=> Tree(t)
    BY <1>1, <1>2 DEF Tree
<1>6. \A x : (Fresh(idom, x)' <=> Fresh(idom, x)) /\ (Lowest(idom, x)' <=> Lowest(idom, x))
    BY <1>1, <1>2 DEF Fresh, Lowest, Chain
<1>7. \A p, x : (x \in Chain(idom, p))' <=> x \in Chain(idom, p)
    BY DEF Chain
<1>8. \A p : Chain(idom, p)' = Chain(idom, p)
    BY DEF Chain
<1>9. \A old : PassFrom(old)' <=> PassFrom(old)
    BY <1>1, <1>3, <1>4, <1>5, <1>6, <1>8 DEF PassFrom
<1>10. Preds(block)' = Preds(block)
    BY DEF Preds, block
<1> QED
    BY <1>1, <1>7, <1>9, <1>10

LEMMA MergeClimbs ==
    ASSUME Inv, ClimbInv, VisitBlock \/ SkipPred \/ StartWalk \/ RaiseA \/ RaiseB \/ EndWalk
    PROVE  ClimbInv'
<1>1. /\ pc \in {"pass", "merge", "walk"} /\ pc' \in {"pass", "merge", "walk"}
      /\ TypeOK /\ OrderInv /\ TreeInv /\ PassInv
    BY DEF Inv, VisitBlock, SkipPred, StartWalk, RaiseA, RaiseB, EndWalk
<1>2. VisitBlock => pc' = "merge" /\ UNCHANGED index
    BY <1>1, BlockAtHand DEF VisitBlock
<1>3. UNCHANGED <<succs, order, idom, index>>
    BY <1>2 DEF VisitBlock, SkipPred, StartWalk, RaiseA, RaiseB, EndWalk, tree
<1>4. /\ \A old : PassFrom(old)' <=> PassFrom(old)
      /\ \A p, x : (x \in Chain(idom, p))' <=> x \in Chain(idom, p)
      /\ Preds(block)' = Preds(block) /\ Reachable' = Reachable
    BY <1>3, PassKept
<1>5. \E old \in [Blocks -> Blocks \cup {None}] : PassFrom(old)'
    BY <1>1, <1>4 DEF ClimbInv
<1>6. \A u : Shared(u)' <=>
        \A p \in Preds(block) \ todo' : idom[p] # None => u \in Chain(idom, p)
    BY <1>3, <1>4 DEF Shared
<1>7. ASSUME NEW u \in Reachable, Shared(u)'
      PROVE  /\ pc' = "merge" => u \in Chain(idom, newIdom')
             /\ pc' = "walk" => u \in Chain(idom, a') /\ u \in Chain(idom, b')
    <2>1. CASE VisitBlock
        BY <1>1, <1>2, <1>6, <1>7, <2>1, BlockAtHand DEF VisitBlock, Processed
    <2>2. CASE SkipPred
        <3>1. pc = "merge" /\ pc' = "merge" /\ newIdom' = newIdom /\ todo' \subseteq todo
            BY <2>2 DEF SkipPred
        <3>2. Shared(u)
            BY <1>6, <1>7, <3>1 DEF Shared
        <3> QED
            BY <3>1, <3>2 DEF ClimbInv
    <2>3. CASE StartWalk
        <3>1. PICK p \in todo : ~PassOver(p) /\ b' = p /\ todo' = todo \ {p}
            BY <2>3 DEF StartWalk
        <3>2. pc = "merge" /\ pc' = "walk" /\ a' = newIdom /\ MergeInv
            BY <2>3 DEF StartWalk, Inv
        <3>3. u \in Chain(idom, newIdom)
            BY <1>6, <1>7, <3>1, <3>2 DEF Shared, ClimbInv
        <3>4. u \in Chain(idom, p)
            BY <1>6, <1>7, <3>1, <3>2 DEF PassOver, Processed, MergeInv
        <3> QED
            BY <3>1, <3>2, <3>3, <3>4
    <2>4. CASE RaiseA \/ RaiseB
        <3>1. /\ pc = "walk" /\ pc' = "walk" /\ todo' = todo
              /\ Candidate(a) /\ Candidate(b)
            BY <2>4 DEF RaiseA, RaiseB, Inv, WalkInv
        <3>2. u \in Chain(idom, a) /\ u \in Chain(idom, b)
            BY <1>6, <1>7, <3>1 DEF Shared, ClimbInv
        <3>3. \A x \in {a, b} : x \in Reachable /\ idom[x] # None /\ Number(x) \in Nat
            BY <1>1, <3>1, NumbersAreOrder DEF Candidate, Processed
        <3>4. /\ Number(u) <= Number(a) /\ Number(u) <= Number(b) /\ Number(u) \in Nat
              /\ u = a \/ u \in Chain(idom, idom[a])
              /\ u = b \/ u \in Chain(idom, idom[b])
            BY <1>1, <3>2, <3>3, IdomIsTree, ChainOfTree, NumbersAreOrder
        <3>5. CASE RaiseB
            <4>1. Number(a) < Number(b) /\ b' = idom[b] /\ a' = a
                BY <3>5 DEF RaiseB
            <4>2. u # b
                BY <3>3, <3>4, <4>1
            <4> QED
                BY <3>1, <3>2, <3>4, <4>1, <4>2
        <3>6. CASE RaiseA
            <4>1. Number(b) < Number(a) /\ a' = idom[a] /\ b' = b
                BY <3>6 DEF RaiseA
            <4>2. u # a
                BY <3>3, <3>4, <4>1
            <4> QED
                BY <3>1, <3>2, <3>4, <4>1, <4>2
        <3> QED
            BY <2>4, <3>5, <3>6
    <2>5. CASE EndWalk
        <3>1. pc = "walk" /\ pc' = "merge" /\ newIdom' = a /\ todo' = todo
            BY <2>5 DEF EndWalk
        <3> QED
            BY <1>6, <1>7, <3>1 DEF Shared, ClimbInv
    <2> QED
        BY <2>1, <2>2, <2>3, <2>4, <2>5
<1>8. /\ pc' = "merge" => \A u \in Reachable : Shared(u)' => (u \in Chain(idom, newIdom))'
      /\ pc' = "walk" => \A u \in Reachable : Shared(u)' => (u \in Chain(idom, a))' /\ (u \in Chain(idom, b))'
    BY <1>3, <1>7 DEF Chain
<1> QED
    BY <1>4, <1>5, <1>8 DEF ClimbInv

(***************************************************************************)
(* The block at hand is now one that the pass has been to: the merge made  *)
(* its dominator the lowest that its predecessors share.                   *)
(***************************************************************************)
LEMMA SetIdomClimbs ==
    ASSUME Inv, ClimbInv, SetIdom
    PROVE  ClimbInv'
<1>1. /\ TypeOK /\ OrderInv /\ TreeInv /\ PassInv /\ MergeInv /\ MergedInv
      /\ todo = {} /\ pc = "merge"
    BY DEF Inv, SetIdom
<1>2. /\ pc' = "pass" /\ index' = index + 1
      /\ idom' = [idom EXCEPT ![block] = newIdom]
      /\ UNCHANGED <<succs, order>>
    BY DEF SetIdom
<1>3. PICK old \in [Blocks -> Blocks \cup {None}] : PassFrom(old)
    BY <1>1 DEF ClimbInv
<1>4. /\ index \in 2 .. Len(order) /\ Len(order) \in Nat
      /\ block \in Reachable \ {Start} /\ Number(block) = index
      /\ order[index] = block
      /\ newIdom \in Reachable /\ idom[newIdom] # None /\ Number(newIdom) < Number(block)
    BY <1>1, NumbersAreOrder, BlockAtHand, MergedIsSmaller DEF MergeInv, Candidate, Processed, block
<1>5. /\ idom[block] # None => newIdom \in Chain(idom, idom[block])
      /\ \A u \in Reachable :
            (\A p \in Preds(block) : idom[p] # None => u \in Chain(idom, p)) => u \in Chain(idom, newIdom)
      /\ \A p \in Preds(block) : idom[p] # None => newIdom \in Chain(idom, p)
    BY <1>1, MergedIsAbove DEF ClimbInv, Shared, MergedInv, Processed, IdomChain, Chain
<1>6. PICK x, m, t : x = block /\ m = newIdom /\ t = idom'
    OBVIOUS
<1>7. /\ x = block /\ m = newIdom /\ t = idom'
      /\ t \in [Blocks -> Blocks \cup {None}] /\ t[x] = m /\ \A y \in Blocks \ {x} : t[y] = idom[y]
    <2>1. /\ x = block /\ m = newIdom /\ t = idom' /\ t = [idom EXCEPT ![x] = m]
        BY <1>2, <1>6
    <2>2. x \in Blocks /\ m \in Blocks /\ idom \in [Blocks -> Blocks \cup {None}]
        BY <1>1, <1>4, <2>1, NumbersAreOrder DEF TypeOK
    <2> QED
        BY <2>1, <2>2
<1>8. /\ Tree(t) /\ Tree(idom)
      /\ \A y \in Reachable : idom[y] # None => Chain(t, y) \subseteq Chain(idom, y)
      /\ \A y \in Reachable : idom[y] # None /\ Number(y) < Number(x) => Chain(t, y) = Chain(idom, y)
    <2>1. /\ x \in Reachable \ {Start} /\ m \in Reachable /\ idom[m] # None /\ Number(m) < Number(x)
          /\ idom[x] # None => m \in Chain(idom, idom[x])
        BY <1>4, <1>5, <1>7
    <2> QED
        BY <1>1, <1>7, <2>1, ChainsClimb, IdomIsTree
<1>9. /\ \A y \in Reachable : y \in Blocks /\ Number(y) \in 1 .. Len(order) /\ order[Number(y)] = y
      /\ \A k \in 1 .. Len(order) : Number(order[k]) = k /\ order[k] \in Reachable
      /\ m # None
    BY <1>1, <1>4, <1>7, NumbersAreOrder, BlocksAssumption
<1>10. /\ t[x] = m
       /\ \A y \in Blocks \ {x} : t[y] = idom[y]
       /\ \A y \in Blocks : idom[y] # None => t[y] # None
    BY <1>7, <1>9
<1>11. \A y \in Reachable : Number(y) < Number(x) => idom[y] # None
    BY <1>1, <1>4, <1>7, <1>9 DEF PassInv, Processed
<1>12. \A y, p : p \in Preds(y) /\ idom[p] # None => p \in Reachable
    BY <1>8, <1>9, NumbersAreOrder, <1>1 DEF Tree, Preds, PredsIn, TypeOK
<1>13. \A k \in index + 1 .. Len(order) : old[order[k]] = t[order[k]]
    <2> SUFFICES ASSUME NEW k \in index + 1 .. Len(order)
                 PROVE  old[order[k]] = t[order[k]]
        OBVIOUS
    <2>1. order[k] # x /\ order[k] \in Blocks /\ old[order[k]] = idom[order[k]]
        BY <1>3, <1>4, <1>7, <1>9 DEF PassFrom
    <2> QED
        BY <1>10, <2>1
<1>14. \A y \in Reachable : old[y] # None => t[y] # None /\ Chain(t, y) \subseteq Chain(old, y)
    BY <1>3, <1>8, <1>9, <1>10 DEF PassFrom
<1>15. ASSUME NEW k \in 2 .. index, NEW y, y = order[k]
       PROVE  Fresh(t, y) /\ Lowest(t, y)
    <2>1. y \in Reachable /\ Number(y) = k /\ Number(y) <= Number(x)
        BY <1>4, <1>7, <1>9, <1>15
    <2>2. CASE k = index
        <3>1. y = x
            BY <1>4, <1>7, <1>15, <2>2
        <3>2. Fresh(t, y)
            BY <1>5, <1>7, <1>8, <1>10, <1>11, <3>1 DEF Fresh
        <3>3. ASSUME NEW u \in Reachable, \A p \in Preds(y) : t[p] # None => u \in Chain(t, p)
              PROVE  u \in Chain(t, t[y])
            <4>1. \A p \in Preds(y) : idom[p] # None => u \in Chain(idom, p)
                BY <1>8, <1>9, <1>10, <1>12, <3>3
            <4>2. u \in Chain(idom, m)
                BY <1>5, <1>7, <3>1, <4>1
            <4> QED
                BY <1>4, <1>7, <1>8, <1>10, <3>1, <4>2
        <3> QED
            BY <3>2, <3>3 DEF Lowest
    <2>3. CASE k # index
        <3>1. k \in 2 .. index - 1 /\ Number(y) < Number(x) /\ y # x
            BY <1>4, <1>7, <2>1, <2>3
        <3>2. Fresh(idom, y) /\ Lowest(idom, y) /\ idom[y] # None /\ t[y] = idom[y]
            BY <1>3, <1>9, <1>10, <1>11, <1>15, <2>1, <3>1 DEF PassFrom
        <3>3. y # Start
            BY <1>1, <2>1, <3>1, NumbersAreOrder
        <3>4. idom[y] \in Reachable /\ idom[idom[y]] # None /\ Number(idom[y]) < Number(y)
            BY <1>8, <1>9, <2>1, <3>2, <3>3 DEF Tree
        <3>5. Chain(t, idom[y]) = Chain(idom, idom[y])
            <4>1. Number(idom[y]) < Number(x)
                BY <1>4, <1>7, <1>9, <2>1, <3>1, <3>4
            <4> QED
                BY <1>8, <3>4, <4>1
        <3>6. ASSUME NEW p \in Preds(y) \cap Reachable, Number(p) < Number(y)
              PROVE  t[y] \in Chain(t, p)
            <4>1. Number(p) < Number(x)
                BY <1>4, <1>7, <1>9, <2>1, <3>1, <3>6
            <4> QED
                BY <1>8, <1>11, <3>2, <3>6, <4>1 DEF Fresh
        <3>7. ASSUME NEW u \in Reachable, \A p \in Preds(y) : t[p] # None => u \in Chain(t, p)
              PROVE  u \in Chain(t, t[y])
            <4>1. \A p \in Preds(y) : idom[p] # None => u \in Chain(idom, p)
                BY <1>8, <1>9, <1>10, <1>12, <3>7
            <4> QED
                BY <3>2, <3>5, <4>1 DEF Lowest
        <3> QED
            BY <3>6, <3>7 DEF Fresh, Lowest
    <2> QED
        BY <2>2, <2>3
<1>16. Reachable' = Reachable
    BY <1>2 DEF Reachable
<1>17. \A y : Number(y)' = Number(y) /\ Preds(y)' = Preds(y)
    BY <1>2 DEF Number, Preds
<1>18. /\ \A c, y : Chain(c, y)' = Chain(c, y)
       /\ \A c : Tree(c)' <=> Tree(c)
       /\ \A c, y : (Fresh(c, y)' <=> Fresh(c, y)) /\ (Lowest(c, y)' <=> Lowest(c, y))
    BY <1>16, <1>17 DEF Chain, Tree, Fresh, Lowest
<1>19. /\ \A y : Chain(idom, y)' = Chain(t, y)
       /\ \A y : (Fresh(idom, y)' <=> Fresh(t, y)) /\ (Lowest(idom, y)' <=> Lowest(t, y))
    BY <1>7, <1>16, <1>17 DEF Chain, Fresh, Lowest
<1>20. PassFrom(old)'
    <2>1. Tree(old)' /\ \A y \in Reachable \ {Start} : old[y] # None => Fresh(old, y)' /\ Lowest(old, y)'
        BY <1>3, <1>18 DEF PassFrom
    <2>2. (\A y \in Reachable : old[y] # None) \/ (\A y \in Reachable \ {Start} : old[y] = None)
        BY <1>3 DEF PassFrom
    <2>3. \A k \in index' .. Len(order') : old[order'[k]] = idom'[order'[k]]
        BY <1>2, <1>7, <1>13
    <2>4. \A y \in Reachable : old[y] # None => idom'[y] # None /\ Chain(idom, y)' \subseteq Chain(old, y)'
        BY <1>7, <1>14, <1>18, <1>19
    <2>5. index' - 1 = index
        BY <1>2, <1>4
    <2>6. \A k \in 2 .. index' - 1 : Fresh(t, order[k]) /\ Lowest(t, order[k])
        BY <1>15, <2>5
    <2>7. \A k \in 2 .. index' - 1 : Fresh(idom, order[k])' /\ Lowest(idom, order[k])'
        <3>1. \A k : /\ Fresh(idom, order[k])' <=> Fresh(t, order[k])
                     /\ Lowest(idom, order[k])' <=> Lowest(t, order[k])
            BY <1>2, <1>7, <1>16, <1>17 DEF Fresh, Lowest, Chain
        <3> QED
            BY <2>6, <3>1
    <2> QED
        BY <1>16, <2>1, <2>2, <2>3, <2>4, <2>7 DEF PassFrom
<1> QED
    BY <1>2, <1>20 DEF ClimbInv

\* A pass begins with the tree as it is.
LEMMA PassBeginsClimbing ==
    ASSUME Inv, ClimbInv, StartFixpoint \/ AnotherPass
    PROVE  ClimbInv'
<1>1. Inv' /\ pc' = "pass" /\ index' = 2 /\ idom' \in [Blocks -> Blocks \cup {None}]
    <2>1. Inv'
        BY StartFixpointInv, EndOfPassInv
    <2> QED
        BY <2>1 DEF StartFixpoint, AnotherPass, Inv, TypeOK
<1>2. PICK old \in [Blocks -> Blocks \cup {None}] : old = idom'
    BY <1>1
<1>3. Tree(old)'
    <2>1. (TypeOK /\ TreeInv)' => Tree(idom)'
        BY DEF TypeOK, TreeInv, Tree, Processed
    <2>2. Tree(idom)'
        BY <1>1, <2>1 DEF Inv
    <2> QED
        BY <1>2, <2>2 DEF Tree
<1>4. \A k \in 2 .. index' - 1 : FALSE
    BY <1>1
<1>5. \A x : Chain(idom, x)' = Chain(old, x)'
    BY <1>2 DEF Chain
<1>6. /\ (\A x \in Reachable' : old[x] # None) \/ (\A x \in Reachable' \ {Start} : old[x] = None)
      /\ \A x \in Reachable' \ {Start} : old[x] # None => Fresh(old, x)' /\ Lowest(old, x)'
    <2>1. CASE StartFixpoint
        <3>1. idom = [x \in Blocks |-> None] /\ idom' = [idom EXCEPT ![Start] = Start]
            BY <2>1 DEF StartFixpoint, Inv
        <3>2. Reachable' \subseteq Blocks
            BY <2>1, ReachableIsClosed DEF StartFixpoint, Inv, Reachable
        <3> QED
            BY <1>2, <3>1, <3>2
    <2>2. CASE AnotherPass
        <3>1. /\ pc = "pass" /\ TypeOK /\ OrderInv /\ TreeInv /\ PassInv /\ index > Len(order)
              /\ UNCHANGED <<succs, order, idom>>
            BY <2>2 DEF Inv, AnotherPass
        <3>2. PICK before \in [Blocks -> Blocks \cup {None}] : PassFrom(before)
            BY <3>1 DEF ClimbInv
        <3>3. /\ index \in 2 .. Len(order) + 1 /\ Len(order) \in Nat
              /\ \A x \in Reachable : Number(x) \in 1 .. Len(order) /\ order[Number(x)] = x
              /\ order[1] = Start
            BY <3>1, NumbersAreOrder DEF PassInv, OrderInv
        <3>4. \A x \in Reachable \ {Start} : Number(x) \in 2 .. index - 1
            BY <3>1, <3>3
        <3>5. \A x \in Reachable \ {Start} : Fresh(idom, x) /\ Lowest(idom, x)
            BY <3>2, <3>3, <3>4 DEF PassFrom
        <3>6. \A x \in Reachable : idom[x] # None
            BY <3>1, <3>3 DEF PassInv, Processed
        <3>7. Reachable' = Reachable /\ \A x : Number(x)' = Number(x) /\ Preds(x)' = Preds(x)
            BY <3>1 DEF Reachable, Number, Preds
        <3>8. \A x : (Fresh(old, x)' <=> Fresh(idom, x)) /\ (Lowest(old, x)' <=> Lowest(idom, x))
            BY <1>2, <3>1, <3>7 DEF Fresh, Lowest, Chain
        <3> QED
            BY <1>2, <3>1, <3>5, <3>6, <3>7, <3>8
    <2> QED
        BY <2>1, <2>2
<1>7. PassFrom(old)'
    BY <1>2, <1>3, <1>4, <1>5, <1>6 DEF PassFrom
<1> QED
    BY <1>1, <1>2, <1>7 DEF ClimbInv

LEMMA NextClimbs == Inv /\ ClimbInv /\ [Next]_vars => ClimbInv'
<1> SUFFICES ASSUME Inv, ClimbInv, [Next]_vars
             PROVE  ClimbInv'
    OBVIOUS
<1>1. CASE Descend \/ Ascend \/ Finish
    <2>1. pc' \in {"dfs", "done"}
        BY <1>1 DEF Descend, Ascend, Finish
    <2> QED
        BY <2>1 DEF ClimbInv
<1>2. CASE UNCHANGED vars
    <2>1. UNCHANGED <<succs, pc, order, idom, index, newIdom, todo, a, b>>
        BY <1>2 DEF vars, tree, walk
    <2>2. \A old : PassFrom(old)' <=> PassFrom(old)
        BY <2>1, PassKept
    <2>3. Reachable' = Reachable /\ \A u : Shared(u)' <=> Shared(u)
        BY <2>1 DEF Reachable, Shared, Chain, Preds, block
    <2> QED
        BY <2>1, <2>2, <2>3 DEF ClimbInv, Chain
<1> QED
    BY <1>1, <1>2, MergeClimbs, SetIdomClimbs, PassBeginsClimbing DEF Next, Finished

(***************************************************************************)
(* Once BuildDominatorTree has given a block a dominator it only ever      *)
(* replaces it by one with a smaller number, in any graph: the loop around *)
(* the passes has only so many changes to wait for.                        *)
(***************************************************************************)
THEOREM DominatorsOnlyClimb == Spec => IdomsOnlyClimb
<1>1. Init => Inv /\ ClimbInv
    BY InitInv DEF Init, ClimbInv
<1>2. Inv /\ ClimbInv /\ [Next]_vars => Inv' /\ ClimbInv'
    BY NextInv, NextClimbs
<1>3. ASSUME Inv, ClimbInv, [Next]_vars
      PROVE  [pc # "dfs" => \A x \in Blocks :
                Processed(x) /\ idom'[x] # idom[x] => Number(idom'[x]) < Number(idom[x])]_vars
    <2> SUFFICES ASSUME pc # "dfs", NEW x \in Blocks, Processed(x), idom'[x] # idom[x]
                 PROVE  Number(idom'[x]) < Number(idom[x])
        OBVIOUS
    <2>1. SetIdom
        BY <1>3 DEF Next, Descend, Ascend, StartFixpoint, VisitBlock, SkipPred, StartWalk, RaiseA,
                    RaiseB, EndWalk, AnotherPass, Finish, Finished, vars, tree
    <2>2. /\ TypeOK /\ OrderInv /\ TreeInv /\ PassInv /\ MergeInv
          /\ idom' = [idom EXCEPT ![block] = newIdom]
        BY <1>3, <2>1 DEF Inv, SetIdom
    <2>3. x = block /\ idom'[x] = newIdom
        BY <2>2 DEF TypeOK
    <2>4. newIdom \in Chain(idom, idom[x]) /\ newIdom # idom[x]
        BY <1>3, <2>1, <2>3, MergedIsAbove DEF Processed
    <2>5. x \in Reachable /\ idom[x] \in Reachable /\ idom[idom[x]] # None
        BY <2>2, <2>3, NumbersAreOrder, BlockAtHand DEF MergeInv, TreeInv, Processed
    <2>6. newIdom \in Reachable /\ Number(newIdom) <= Number(idom[x])
        BY <2>2, <2>4, <2>5, IdomIsTree, ChainOfTree
    <2>7. /\ order[Number(newIdom)] = newIdom /\ order[Number(idom[x])] = idom[x]
          /\ Number(newIdom) \in Nat /\ Number(idom[x]) \in Nat
        BY <2>2, <2>5, <2>6, NumbersAreOrder
    <2> QED
        BY <2>3, <2>4, <2>6, <2>7
<1> QED
    BY <1>1, <1>2, <1>3, PTL DEF Spec, IdomsOnlyClimb


-----------------------------------------------------------------------------
(* The readers change nothing of the tree. *)

LEMMA ReadersOnlyRead == [AnalysesNext]_allVars => [Next]_vars
BY DEF AnalysesNext, BuildDominatorTree, Analyze, StartChecks, EliminateChecks, allVars

(***************************************************************************)
(* GraphAnalyzer runs as it does alone, whichever analysis follows it, so  *)
(* that what is proved of it holds of the whole.                           *)
(***************************************************************************)
THEOREM AnalysesRunTheDominatorTree == AnalysesSpec => Spec
<1>1. AnalysesInit => Init
    BY DEF AnalysesInit
<1> QED
    BY <1>1, ReadersOnlyRead, PTL DEF AnalysesSpec, Spec

(***************************************************************************)
(* What BuildDominatorTree hands on answers dominance, for every graph.    *)
(***************************************************************************)
THEOREM DominanceIsHandedOn == AnalysesSpec => []DominatesIsDominance
<1>1. Inv => DominatesIsDominance
    BY FixpointIsDominance DEF DominatesIsDominance
<1> QED
    BY <1>1, AnalysesRunTheDominatorTree, InductiveInvariant, PTL

-----------------------------------------------------------------------------
(* Dominance between blocks and between instructions. *)

\* DominatedChecks speaks of the same reachability and the same chains.
LEMMA SameGraphs ==
    /\ \A G, S, W : C!ReachFrom(G, S, W) = ReachFrom(G, S, W)
    /\ \A t, x : C!ChainIn(t, None, x) = Chain(t, x)
BY DEF C!ReachFrom, C!ClosedSets, ReachFrom, ClosedSets, C!ChainIn, ChainIn, Chain

\* Strict dominance, as the finished tree answers it.
LEMMA StrictDominanceIsAnOrder ==
    ASSUME Inv, pc = "done", NEW x \in Reachable, NEW y \in Reachable, NEW z \in Reachable,
           x \in Chain(idom, y), y \in Chain(idom, z)
    PROVE  /\ x \in Chain(idom, z)
           /\ x = z => x = y
<1>1. /\ TypeOK /\ OrderInv /\ Tree(idom)
      /\ \A u \in Reachable : idom[u] # None
    BY IdomIsTree DEF Inv, AllProcessed, Processed
<1>2. x \in Chain(idom, z)
    BY <1>1, ChainOfTree
<1>3. Number(x) <= Number(y) /\ Number(y) <= Number(z)
    BY <1>1, ChainOfTree
<1>4. x = z => Number(x) = Number(y)
    BY <1>1, <1>3, NumbersAreOrder
<1> QED
    BY <1>1, <1>2, <1>4, NumbersAreOrder

LEMMA ChainIsDominance ==
    ASSUME Inv, pc = "done", NEW x \in Reachable, NEW d \in Reachable, d # x
    PROVE  d \in Chain(idom, x) <=> x \notin ReachFrom(succs, {Start} \ {d}, Blocks \ {d})
<1>1. {e \in Blocks : e \in Chain(idom, x)} = {x} \cup StrictDominators(x)
    BY FixpointIsDominance DEF Dominates, IdomChain, Chain
<1>2. d \in Blocks /\ DOMAIN succs = Blocks
    BY ReachableIsClosed DEF Inv, TypeOK
<1> QED
    BY <1>1, <1>2 DEF StrictDominators, DominatesIn

\* A program that is being looked at stands in reachable blocks.
Placed ==
    /\ pc = "done"
    /\ Len(code) \in Nat /\ DOMAIN code = 1 .. Len(code)
    /\ \A i \in DOMAIN code : C!Block(i) \in Reachable

LEMMA InstructionDominance ==
    ASSUME Inv, Placed, NEW i \in C!Insts, NEW j \in C!Insts, NEW k \in C!Insts
    PROVE  /\ ~C!Dominates(i, i)
           /\ C!Dominates(i, j) /\ C!Dominates(j, k) => C!Dominates(i, k)
           /\ C!Dominates(i, j) => i # j /\ ~C!Dominates(j, i)
<1>1. \A m \in {i, j, k} : m \in Nat /\ C!Block(m) \in Reachable
    BY DEF Placed, C!Insts
<1>2. ~C!Dominates(i, i)
    BY <1>1 DEF C!Dominates
<1>3. \A m, n : C!Dominates(m, n) <=>
        IF C!Block(m) = C!Block(n) THEN m < n ELSE C!Block(m) \in Chain(idom, C!Block(n))
    BY SameGraphs DEF C!Dominates
<1>4. \A x, y, z \in Reachable : x \in Chain(idom, y) /\ y \in Chain(idom, z) =>
        x \in Chain(idom, z) /\ (x = z => x = y)
    BY StrictDominanceIsAnOrder DEF Placed
<1>5. ASSUME C!Dominates(i, j), C!Dominates(j, k)
      PROVE  C!Dominates(i, k)
    <2>1. CASE C!Block(i) = C!Block(j) /\ C!Block(j) = C!Block(k)
        BY <1>1, <1>3, <1>5, <2>1
    <2>2. CASE C!Block(i) = C!Block(j) /\ C!Block(j) # C!Block(k)
        BY <1>3, <1>5, <2>2
    <2>3. CASE C!Block(i) # C!Block(j) /\ C!Block(j) = C!Block(k)
        BY <1>3, <1>5, <2>3
    <2>4. CASE C!Block(i) # C!Block(j) /\ C!Block(j) # C!Block(k)
        BY <1>1, <1>3, <1>4, <1>5, <2>4
    <2> QED
        BY <2>1, <2>2, <2>3, <2>4
<1>6. C!Dominates(i, j) => ~C!Dominates(j, i)
    BY <1>1, <1>3, <1>4
<1> QED
    BY <1>2, <1>5, <1>6

\* One instruction is on every path to another exactly if it dominates it.
LEMMA DominatesIsOnEveryPath ==
    ASSUME Inv, Placed, NEW d \in C!Insts, NEW i \in C!Insts
    PROVE  /\ C!OnEveryPath({d}, i) <=> C!Dominates(d, i)
           /\ C!Dominates(d, i) => \A D \in SUBSET C!Insts : d \in D => C!OnEveryPath(D, i)
<1>1. C!Block(d) \in Reachable /\ C!Block(i) \in Reachable /\ Inv /\ pc = "done"
    BY DEF Placed, C!Insts
<1>2. C!Dominates(d, i) <=>
        IF C!Block(d) = C!Block(i) THEN d < i ELSE C!Block(d) \in Chain(idom, C!Block(i))
    BY SameGraphs DEF C!Dominates
<1>3. Reachable = ReachFrom(succs, {Start}, Blocks)
    BY DEF Reachable, ReachableIn, Inv, TypeOK
<1>4. C!OnEveryPath({d}, i) <=> C!Dominates(d, i)
    <2>1. CASE C!Block(d) = C!Block(i)
        <3>1. {C!Block(e) : e \in {d}} \ {C!Block(i)} = {}
            BY <2>1
        <3>2. {Start} \ {} = {Start} /\ Blocks \ {} = Blocks
            OBVIOUS
        <3> QED
            BY <1>1, <1>2, <1>3, <2>1, <3>1, <3>2, SameGraphs DEF C!OnEveryPath
    <2>2. CASE C!Block(d) # C!Block(i)
        <3>1. {C!Block(e) : e \in {d}} \ {C!Block(i)} = {C!Block(d)}
            BY <2>2
        <3>2. C!OnEveryPath({d}, i) <=>
                C!Block(i) \notin ReachFrom(succs, {Start} \ {C!Block(d)}, Blocks \ {C!Block(d)})
            BY <2>2, <3>1, SameGraphs DEF C!OnEveryPath
        <3> QED
            BY <1>1, <1>2, <2>2, <3>2, ChainIsDominance
    <2> QED
        BY <2>1, <2>2
<1>5. ASSUME C!Dominates(d, i), NEW D \in SUBSET C!Insts, d \in D
      PROVE  C!OnEveryPath(D, i)
    <2>1. CASE C!Block(d) = C!Block(i)
        BY <1>2, <1>5, <2>1 DEF C!OnEveryPath
    <2>2. CASE C!Block(d) # C!Block(i)
        <3> DEFINE Stops == {C!Block(e) : e \in D} \ {C!Block(i)}
        <3>1. C!Block(i) \notin ReachFrom(succs, {Start} \ {C!Block(d)}, Blocks \ {C!Block(d)})
            BY <1>1, <1>2, <1>5, <2>2, ChainIsDominance
        <3>2. C!Block(d) \in Stops
            BY <1>5, <2>2
        <3> HIDE DEF Stops
        <3>3. ReachFrom(succs, {Start} \ Stops, Blocks \ Stops)
                \subseteq ReachFrom(succs, {Start} \ {C!Block(d)}, Blocks \ {C!Block(d)})
            <4>1. {Start} \ Stops \subseteq {Start} \ {C!Block(d)} /\ Blocks \ Stops \subseteq Blocks \ {C!Block(d)}
                BY <3>2
            <4> QED
                BY <4>1, ReachFromIsMonotonic
        <3>4. C!Block(i) \notin ReachFrom(succs, {Start} \ Stops, Blocks \ Stops)
            BY <3>1, <3>3
        <3> QED
            BY <3>4, SameGraphs DEF C!OnEveryPath, Stops
    <2> QED
        BY <2>1, <2>2
<1> QED
    BY <1>4, <1>5

-----------------------------------------------------------------------------
(* EliminateDominatedChecks. *)

\* What makes up for the removal of check i: what the code takes for an access, too.
Replaces(d, i) == (C!Covers(d, i) \/ code[d].op = "STORE") /\ C!Dominates(d, i)

\* What is to be removed is replaced by what is not, so also by what is left in the end.
RemovedIsReplaced ==
    /\ toRemove \subseteq C!Insts
    /\ \A i \in toRemove : C!IsCheck(i) /\ \E d \in C!Insts \ toRemove : Replaces(d, i)

\* The walk has been to check c, and left it nothing to remove.
CheckIsDone(c) ==
    /\ code[c].op = "NULL_CHECK" => \A u \in C!Insts \ toRemove :
          code[u].op \in C!PointerUses => ~C!Dominates(u, c)
    /\ code[c].op = "BOUNDS_CHECK" => \A i \in C!Insts \ toRemove :
          code[i].op = code[c].op /\ code[i].len = code[c].len => ~C!Dominates(c, i)

WalkIsDone == \A c \in 1 .. walked : c \notin toRemove => CheckIsDone(c)

ChecksInv ==
    /\ phase \in {"idle", "walk", "done"}
    /\ phase = "idle" => toRemove = {} /\ walked = 0
    /\ phase # "idle" => Placed /\ walked \in 0 .. Len(code) /\ RemovedIsReplaced /\ WalkIsDone
    /\ phase # "done" => gone = {}
    /\ phase = "done" => gone = toRemove /\ walked = Len(code)

LEMMA StartChecksInv == Inv /\ ChecksInv /\ StartChecks => ChecksInv'
<1> SUFFICES ASSUME Inv, ChecksInv, StartChecks
             PROVE  ChecksInv'
    OBVIOUS
<1>1. PICK p \in Programs :
        /\ \A i \in DOMAIN p : p[i].at <= Len(order)
        /\ C!EliminateDominatedChecks(p)
    BY DEF StartChecks
<1>2. /\ code' = p /\ phase' = "walk" /\ walked' = 0 /\ toRemove' = {} /\ gone' = {}
      /\ UNCHANGED <<pc, succs, order, idom>> /\ pc = "done"
    BY <1>1 DEF C!EliminateDominatedChecks, StartChecks, ChecksInv, vars, tree
<1>3. Len(p) \in Nat /\ DOMAIN p = 1 .. Len(p) /\ \A i \in DOMAIN p : p[i].at \in 1 .. Len(order)
    BY <1>1, ProgramsAssumption, NumbersAreOrder, <1>2 DEF Inv
<1>4. \A k \in 1 .. Len(order) : order[k] \in Reachable
    BY <1>2, NumbersAreOrder DEF Inv
<1>5. Reachable' = Reachable
    BY <1>2 DEF Reachable
<1>6. Placed'
    BY <1>2, <1>3, <1>4, <1>5 DEF Placed, C!Block
<1>7. RemovedIsReplaced' /\ WalkIsDone'
    BY <1>2 DEF RemovedIsReplaced, WalkIsDone
<1> QED
    BY <1>2, <1>3, <1>6, <1>7 DEF ChecksInv

(***************************************************************************)
(* One check: what it removes it replaces itself, or what made it needless *)
(* does, and so with what was replaced by anything that now goes.          *)
(***************************************************************************)
LEMMA VisitKeepsReplaced ==
    ASSUME Inv, Placed, RemovedIsReplaced, NEW c \in C!Insts \ toRemove, c = C!current,
           C!VisitNullCheck \/ C!VisitBoundsCheck, code' = code, UNCHANGED <<succs, order, idom>>
    PROVE  /\ RemovedIsReplaced'
           /\ toRemove \subseteq toRemove'
           /\ c \notin toRemove' => CheckIsDone(c)'
<1> DEFINE before == {u \in C!Users : code[u].op \in C!PointerUses /\ C!Dominates(u, c)}
<1>1. /\ \A i, j, k \in C!Insts : C!Dominates(i, j) /\ C!Dominates(j, k) => C!Dominates(i, k)
      /\ \A i, j \in C!Insts : C!Dominates(i, j) => i # j /\ ~C!Dominates(j, i)
    BY InstructionDominance
<1>2. /\ C!Insts' = C!Insts
      /\ \A d, i : (C!Dominates(d, i)' <=> C!Dominates(d, i)) /\ (Replaces(d, i)' <=> Replaces(d, i))
      /\ \A i : C!IsCheck(i)' <=> C!IsCheck(i)
    BY DEF C!Insts, C!Dominates, Replaces, C!Block, C!Covers, C!IsCheck
<1>3. \A i \in C!Repeats : /\ i \in C!Insts \ toRemove /\ i # c /\ C!Dominates(c, i)
                           /\ code[i].op = code[c].op /\ code[i].len = code[c].len
    BY DEF C!Repeats, C!Users, C!SameCheck
<1>4. code[c].op \in {"NULL_CHECK", "BOUNDS_CHECK"}
    BY DEF C!VisitNullCheck, C!VisitBoundsCheck
<1>5. CASE toRemove' = toRemove \cup C!Repeats /\ (code[c].op = "NULL_CHECK" => before = {})
    <2>1. c \in C!Insts \ toRemove'
        BY <1>3, <1>5
    <2>2. \A i \in C!Repeats : C!IsCheck(i) /\ Replaces(c, i)
        BY <1>3, <1>4 DEF C!IsCheck, Replaces, C!Covers
    <2>3. ASSUME NEW i \in toRemove
          PROVE  C!IsCheck(i) /\ \E d \in C!Insts \ toRemove' : Replaces(d, i)
        <3>1. PICK d \in C!Insts \ toRemove : Replaces(d, i)
            BY DEF RemovedIsReplaced
        <3>2. CASE d \in C!Repeats
            <4>1. C!Dominates(c, i)
                BY <1>1, <1>3, <3>1, <3>2, <2>1 DEF Replaces, RemovedIsReplaced
            <4>2. Replaces(c, i)
                BY <1>3, <1>4, <3>1, <3>2, <4>1 DEF Replaces, C!Covers
            <4> QED
                BY <2>1, <4>2 DEF RemovedIsReplaced
        <3> QED
            BY <1>5, <3>1, <3>2 DEF RemovedIsReplaced
    <2>4. RemovedIsReplaced'
        BY <1>2, <1>3, <1>5, <2>1, <2>2, <2>3 DEF RemovedIsReplaced
    <2>5. ASSUME code[c].op = "NULL_CHECK", NEW u \in C!Insts \ toRemove', code[u].op \in C!PointerUses
          PROVE  ~C!Dominates(u, c)
        BY <1>1, <1>5, <2>5 DEF C!Users
    <2>6. ASSUME code[c].op = "BOUNDS_CHECK", NEW i \in C!Insts \ toRemove',
                 code[i].op = code[c].op, code[i].len = code[c].len
          PROVE  ~C!Dominates(c, i)
        BY <1>1, <1>5, <2>6 DEF C!Users, C!Repeats, C!SameCheck
    <2> HIDE DEF before
    <2>7. /\ code'[c].op = "NULL_CHECK" => \A u \in C!Insts' \ toRemove' :
                code'[u].op \in C!PointerUses => ~C!Dominates(u, c)'
          /\ code'[c].op = "BOUNDS_CHECK" => \A i \in C!Insts' \ toRemove' :
                code'[i].op = code'[c].op /\ code'[i].len = code'[c].len => ~C!Dominates(c, i)'
        BY <1>2, <2>5, <2>6
    <2> QED
        BY <1>5, <2>4, <2>7 DEF CheckIsDone
<1>6. CASE code[c].op = "NULL_CHECK" /\ before # {}
           /\ \E S \in SUBSET C!Repeats : toRemove' = toRemove \cup {c} \cup S
    <2>1. PICK S \in SUBSET C!Repeats : toRemove' = toRemove \cup {c} \cup S
        BY <1>6
    <2>2. PICK u \in before : TRUE
        BY <1>6
    <2>3. /\ u \in C!Insts \ toRemove /\ u # c /\ C!Dominates(u, c)
          /\ code[u].op \in {"NULL_CHECK", "LOAD", "STORE"}
        BY <2>2 DEF C!Users, C!PointerUses
    <2>4. u \in C!Insts \ toRemove'
        BY <1>1, <1>3, <2>1, <2>3
    <2>5. ASSUME NEW i \in C!Insts, code[i].op = "NULL_CHECK", C!Dominates(u, i)
          PROVE  C!IsCheck(i) /\ Replaces(u, i)
        BY <2>3, <2>5 DEF C!IsCheck, Replaces, C!Covers
    <2>6. \A i \in {c} \cup S : C!IsCheck(i) /\ Replaces(u, i)
        BY <1>1, <1>3, <1>6, <2>1, <2>3, <2>5
    <2>7. ASSUME NEW i \in toRemove
          PROVE  C!IsCheck(i) /\ \E d \in C!Insts \ toRemove' : Replaces(d, i)
        <3>1. PICK d \in C!Insts \ toRemove : Replaces(d, i)
            BY DEF RemovedIsReplaced
        <3>2. CASE d \in {c} \cup S
            <4>1. code[d].op = "NULL_CHECK" /\ C!Dominates(u, d)
                BY <1>1, <1>3, <1>6, <2>1, <2>3, <3>2
            <4>2. C!Dominates(u, i) /\ i \in C!Insts /\ C!IsCheck(i)
                BY <1>1, <2>3, <3>1, <4>1 DEF Replaces, RemovedIsReplaced
            <4>3. code[i].op = "NULL_CHECK"
                BY <3>1, <4>1, <4>2 DEF Replaces, C!Covers, C!IsCheck
            <4> QED
                BY <2>4, <2>5, <4>2, <4>3
        <3> QED
            BY <2>1, <3>1, <3>2 DEF RemovedIsReplaced
    <2>8. RemovedIsReplaced'
        BY <1>2, <1>3, <2>1, <2>4, <2>6, <2>7 DEF RemovedIsReplaced
    <2> QED
        BY <2>1, <2>8
<1> QED
    BY <1>4, <1>5, <1>6 DEF C!VisitNullCheck, C!VisitBoundsCheck

LEMMA VisitInv == Inv /\ ChecksInv /\ C!Visit /\ UNCHANGED vars => ChecksInv'
<1> SUFFICES ASSUME Inv, ChecksInv, C!Visit, UNCHANGED vars
             PROVE  ChecksInv'
    OBVIOUS
<1>1. /\ phase = "walk" /\ Placed /\ RemovedIsReplaced /\ WalkIsDone
      /\ walked \in 0 .. Len(code) - 1 /\ gone = {} /\ Len(code) \in Nat /\ DOMAIN code = 1 .. Len(code)
    BY DEF C!Visit, ChecksInv, Placed
<1>2. /\ walked' = walked + 1 /\ UNCHANGED <<succs, order, idom, pc, code, phase, gone>>
      /\ walked + 1 \in C!Insts /\ C!current = walked + 1
    BY <1>1 DEF C!Visit, vars, tree, C!Insts, C!current
<1>3. /\ C!Insts' = C!Insts /\ Placed'
      /\ \A d, i : (C!Dominates(d, i)' <=> C!Dominates(d, i)) /\ (Replaces(d, i)' <=> Replaces(d, i))
      /\ \A i : C!IsCheck(i)' <=> C!IsCheck(i)
    BY <1>1, <1>2 DEF C!Insts, C!Dominates, Replaces, C!Block, C!Covers, C!IsCheck, Placed, Reachable
<1>4. PICK c : c = walked + 1
    OBVIOUS
<1>5. /\ RemovedIsReplaced' /\ toRemove \subseteq toRemove'
      /\ c \notin toRemove' => CheckIsDone(c)'
    <2>1. CASE c \in toRemove \/ ~C!IsCheck(c)
        <3>1. toRemove' = toRemove
            BY <1>2, <1>4, <2>1 DEF C!Visit
        <3>2. RemovedIsReplaced'
            BY <1>1, <1>3, <3>1 DEF RemovedIsReplaced
        <3>3. c \notin toRemove => code'[c].op \notin {"NULL_CHECK", "BOUNDS_CHECK"}
            BY <1>2, <2>1 DEF C!IsCheck
        <3> QED
            BY <3>1, <3>2, <3>3 DEF CheckIsDone
    <2>2. CASE c \notin toRemove /\ C!IsCheck(c)
        <3>1. C!VisitNullCheck \/ C!VisitBoundsCheck
            BY <1>2, <1>4, <2>2 DEF C!Visit
        <3> QED
            BY <1>1, <1>2, <1>4, <2>2, <3>1, VisitKeepsReplaced
    <2> QED
        BY <2>1, <2>2
<1>6. ASSUME NEW k \in 1 .. walked, k \notin toRemove'
      PROVE  CheckIsDone(k)'
    <2>1. CheckIsDone(k)
        BY <1>1, <1>5, <1>6 DEF WalkIsDone
    <2> QED
        BY <1>2, <1>3, <1>5, <2>1 DEF CheckIsDone
<1>7. WalkIsDone'
    <2>1. \A k \in 1 .. walked' : k \in 1 .. walked \/ k = c
        BY <1>1, <1>2, <1>4
    <2> QED
        BY <1>5, <1>6, <2>1 DEF WalkIsDone
<1> QED
    BY <1>1, <1>2, <1>3, <1>5, <1>7 DEF ChecksInv

LEMMA ChecksNextInv == Inv /\ ChecksInv /\ [AnalysesNext]_allVars => ChecksInv'
<1> SUFFICES ASSUME Inv, ChecksInv, [AnalysesNext]_allVars
             PROVE  ChecksInv'
    OBVIOUS
<1>1. CASE UNCHANGED checkVars /\ (phase = "idle" \/ UNCHANGED <<pc, succs, order, idom>>)
    <2>1. UNCHANGED <<code, phase, walked, toRemove, gone>>
        BY <1>1 DEF checkVars
    <2>2. CASE phase = "idle"
        BY <2>1, <2>2 DEF ChecksInv
    <2>3. CASE UNCHANGED <<pc, succs, order, idom>>
        <3>1. Placed' <=> Placed
            BY <2>1, <2>3 DEF Placed, Reachable, C!Block
        <3>2. \A i, d : (C!Dominates(d, i)' <=> C!Dominates(d, i)) /\ (Replaces(d, i)' <=> Replaces(d, i))
            BY <2>1, <2>3 DEF C!Dominates, Replaces, C!Block, C!Covers
        <3>3. RemovedIsReplaced' <=> RemovedIsReplaced
            BY <2>1, <3>2 DEF RemovedIsReplaced, C!Insts, C!IsCheck
        <3>4. \A c : CheckIsDone(c)' <=> CheckIsDone(c)
            BY <2>1, <3>2 DEF CheckIsDone, C!Insts
        <3>5. WalkIsDone' <=> WalkIsDone
            BY <2>1, <3>4 DEF WalkIsDone
        <3> QED
            BY <2>1, <3>1, <3>3, <3>5 DEF ChecksInv
    <2> QED
        BY <1>1, <2>2, <2>3
<1>2. CASE BuildDominatorTree
    <2>1. pc = "done" => UNCHANGED vars
        BY <1>2 DEF BuildDominatorTree, Next, Descend, Ascend, StartFixpoint, VisitBlock, SkipPred,
                    StartWalk, RaiseA, RaiseB, EndWalk, SetIdom, AnotherPass, Finish, Finished
    <2> QED
        BY <1>1, <1>2, <2>1 DEF BuildDominatorTree, ChecksInv, Placed, vars, tree
<1>3. CASE C!RemoveInstructions /\ UNCHANGED <<vars, loopVars>>
    <2>1. /\ phase = "walk" /\ phase' = "done" /\ gone' = toRemove /\ walked = Len(code)
          /\ UNCHANGED <<pc, succs, order, idom, code, walked, toRemove>>
        BY <1>3 DEF C!RemoveInstructions, vars, tree
    <2>2. Placed' <=> Placed
        BY <2>1 DEF Placed, Reachable, C!Block
    <2>3. \A i, d : (C!Dominates(d, i)' <=> C!Dominates(d, i)) /\ (Replaces(d, i)' <=> Replaces(d, i))
        BY <2>1 DEF C!Dominates, Replaces, C!Block, C!Covers
    <2>4. RemovedIsReplaced' <=> RemovedIsReplaced
        BY <2>1, <2>3 DEF RemovedIsReplaced, C!Insts, C!IsCheck
    <2>5. \A c : CheckIsDone(c)' <=> CheckIsDone(c)
        BY <2>1, <2>3 DEF CheckIsDone, C!Insts
    <2>6. WalkIsDone' <=> WalkIsDone
        BY <2>1, <2>5 DEF WalkIsDone
    <2> QED
        BY <2>1, <2>2, <2>4, <2>6 DEF ChecksInv
<1>4. CASE UNCHANGED allVars \/ Analyze
    BY <1>1, <1>4 DEF allVars, Analyze, vars, tree
<1> QED
    BY <1>2, <1>3, <1>4, StartChecksInv, VisitInv DEF AnalysesNext, EliminateChecks

(***************************************************************************)
(* EliminateDominatedChecks keeps, for whatever it removes, something that *)
(* stays and comes before it, and comes to every check.                    *)
(***************************************************************************)
THEOREM ChecksInvariant == AnalysesSpec => [](Inv /\ ChecksInv)
<1>1. AnalysesInit => ChecksInv
    BY DEF AnalysesInit, C!Init, ChecksInv
<1>2. Inv /\ ChecksInv /\ [AnalysesNext]_allVars => ChecksInv'
    BY ChecksNextInv
<1> QED
    BY <1>1, <1>2, AnalysesRunTheDominatorTree, InductiveInvariant, PTL DEF AnalysesSpec

(***************************************************************************)
(* In any program and any graph, every path to a check that is gone goes   *)
(* through an instruction that is still there and covers it, or that is a  *)
(* store of the pointer.                                                   *)
(***************************************************************************)
THEOREM RemovedChecksAreCovered == AnalysesSpec => []RemovedIsCovered
<1>1. ASSUME Inv, ChecksInv
      PROVE  RemovedIsCovered
    <2> SUFFICES ASSUME NEW i \in gone
                 PROVE  /\ C!IsCheck(i)
                        /\ C!OnEveryPath({d \in C!Insts \ gone : C!Covers(d, i) \/ code[d].op = "STORE"}, i)
        BY DEF RemovedIsCovered, C!RemovedIsCovered
    <2>1. phase = "done" /\ gone = toRemove /\ RemovedIsReplaced /\ Placed
        BY <1>1 DEF ChecksInv
    <2>2. PICK d \in C!Insts \ gone : Replaces(d, i)
        BY <2>1 DEF RemovedIsReplaced
    <2>3. d \in {e \in C!Insts \ gone : C!Covers(e, i) \/ code[e].op = "STORE"}
        BY <2>2 DEF Replaces
    <2>4. C!IsCheck(i) /\ i \in C!Insts /\ C!Dominates(d, i)
        BY <2>1, <2>2 DEF RemovedIsReplaced, Replaces
    <2> QED
        BY <1>1, <2>1, <2>3, <2>4, DominatesIsOnEveryPath
<1> QED
    BY <1>1, ChecksInvariant, PTL

(***************************************************************************)
(* One pass is enough in any program and any graph: of two instructions    *)
(* that are left, none is on every path to the other and makes it needless.*)
(***************************************************************************)
THEOREM NoNeedlessCheckIsLeft == AnalysesSpec => []NothingLeftToRemove
<1>1. ASSUME Inv, ChecksInv
      PROVE  NothingLeftToRemove
    <2> SUFFICES ASSUME phase = "done", NEW i \in C!Insts \ gone, NEW d \in C!Insts \ gone,
                        C!IsCheck(i), C!Covers(d, i), C!Dominates(d, i)
                 PROVE  FALSE
        BY <1>1, DominatesIsOnEveryPath DEF NothingLeftToRemove, C!NothingLeftToRemove, ChecksInv
    <2>1. gone = toRemove /\ WalkIsDone /\ walked = Len(code) /\ C!Insts = 1 .. walked
        BY <1>1 DEF ChecksInv, Placed, C!Insts
    <2>2. CheckIsDone(i) /\ CheckIsDone(d)
        BY <2>1 DEF WalkIsDone
    <2>3. CASE code[i].op = "NULL_CHECK"
        BY <2>1, <2>2, <2>3 DEF CheckIsDone, C!Covers, C!PointerUses
    <2>4. CASE code[i].op = "BOUNDS_CHECK"
        BY <2>1, <2>2, <2>4 DEF CheckIsDone, C!Covers
    <2> QED
        BY <2>3, <2>4 DEF C!IsCheck
<1> QED
    BY <1>1, ChecksInvariant, PTL

-----------------------------------------------------------------------------
(* LoopAnalyzer: the search for back edges. *)

\* What the search has looked at and has not taken for a back edge.
Forward == [x \in Blocks |-> {y \in succs[x] \ left[x] : <<x, y>> \notin Range(backEdges)}]

LoopTypeOK ==
    /\ stage \in {"idle", "dfs", "populate", "tree", "classify", "done"}
    /\ calls \in Seq(Blocks)
    /\ left \in [Blocks -> SUBSET Blocks]
    /\ counter \in Nat
    /\ number \in [Blocks -> Nat \cup {None}] /\ exit \in [Blocks -> Nat \cup {None}]
    /\ backEdges \in Seq(Blocks \X Blocks)
    /\ loops \in Seq(Blocks)
    /\ reducible \in [Blocks -> BOOLEAN]
    /\ latches \in [Blocks -> SUBSET Blocks] /\ blocks \in [Blocks -> SUBSET Blocks]
    /\ outer \in [Blocks -> Blocks \cup {None}]
    /\ place \in Nat \ {0}

Untouched ==
    /\ calls = <<>> /\ backEdges = <<>> /\ loops = <<>> /\ place = 1
    /\ \A x \in Blocks :
          /\ number[x] = None /\ exit[x] = None
          /\ latches[x] = {} /\ blocks[x] = {x} /\ outer[x] = None

\* Who has been entered is in an open call or has returned, and the numbers say in which order.
CallsInv ==
    /\ \A x \in Blocks : number[x] # None <=> (x \in Range(calls) \/ exit[x] # None)
    /\ \A x \in Range(calls) : exit[x] = None
    /\ \A i, j \in 1 .. Len(calls) : i < j => number[calls[i]] < number[calls[j]]
    /\ \A x \in Blocks : number[x] # None => number[x] < counter /\ x \in Reachable
    /\ \A x \in Blocks : exit[x] # None => exit[x] < counter
    /\ calls # <<>> => calls[1] = Start
    /\ \A i \in 2 .. Len(calls) : calls[i] \in Forward[calls[i - 1]]
    /\ number[Start] # None

LeftInv ==
    /\ \A x \in Blocks :
          /\ left[x] \subseteq succs[x]
          /\ number[x] = None => left[x] = succs[x]
          /\ exit[x] # None => left[x] = {}
    /\ \A x \in Blocks : \A y \in succs[x] \ left[x] : number[y] # None

\* A forward edge leads to what returned before its source, or is open above it.
ForwardInv == \A x \in Blocks : \A y \in Forward[x] :
    \/ exit[y] # None /\ (exit[x] # None => exit[y] < exit[x])
    \/ exit[y] = None /\ exit[x] = None /\ number[x] < number[y]

\* A back edge closes a cycle of forward edges, and every edge to a dominator is one.
BackInv ==
    /\ \A x, y \in Blocks : <<x, y>> \in Range(backEdges) =>
          /\ number[x] # None /\ y \in succs[x] \ left[x]
          /\ number[y] # None /\ number[y] <= number[x]
          /\ x \in ReachFrom(Forward, {y}, Reachable)
    /\ \A x \in Blocks : \A y \in succs[x] \ left[x] : Dom(y, x) => <<x, y>> \in Range(backEdges)

\* What dominates a block was entered before it.
DominatorsFirst == \A x \in Blocks : number[x] # None =>
    \A d \in StrictDominators(x) : number[d] # None /\ number[d] < number[x]

NumbersDistinct == \A x, y \in Blocks : number[x] # None /\ number[x] = number[y] => x = y

CutInv == CallsInv /\ LeftInv /\ ForwardInv /\ BackInv /\ DominatorsFirst /\ NumbersDistinct

\* Loops speaks of the same graph, the same tree and the same reachability.
LEMMA SameLoopGraphs ==
    /\ \A G, S, W : L!ReachFrom(G, S, W) = ReachFrom(G, S, W)
    /\ \A d, x : L!Dominates(d, x) <=> d \in Chain(idom, x)
    /\ L!ReachableIn(succs, Start) = Reachable
    /\ \A d, x : L!DominatesIn(succs, Start, d, x) <=> Dom(d, x)
    /\ \A x : L!PredsIn(succs, x) = Preds(x)
    /\ \A f : L!Range(f) = Range(f)
<1>1. \A G, S, W : L!ReachFrom(G, S, W) = ReachFrom(G, S, W)
    BY DEF L!ReachFrom, L!ClosedSets, ReachFrom, ClosedSets
<1>2. \A d, x : L!Dominates(d, x) <=> d \in Chain(idom, x)
    BY <1>1 DEF L!Dominates, L!ChainIn, ChainIn, Chain
<1>3. L!ReachableIn(succs, Start) = Reachable
    BY <1>1 DEF L!ReachableIn, Reachable, ReachableIn
<1>4. \A d, x : L!DominatesIn(succs, Start, d, x) <=> Dom(d, x)
    BY <1>1 DEF L!DominatesIn, Dom, DominatesIn
<1>5. \A x : L!PredsIn(succs, x) = Preds(x)
    BY DEF L!PredsIn, Preds, PredsIn
<1>6. \A f : L!Range(f) = Range(f)
    BY DEF L!Range, Range
<1> QED
    BY <1>1, <1>2, <1>3, <1>4, <1>5, <1>6

LEMMA ReachFromGrows ==
    ASSUME NEW G, NEW H, NEW S, NEW W, \A x \in S \cup W : G[x] \subseteq H[x]
    PROVE  ReachFrom(G, S, W) \subseteq ReachFrom(H, S, W)
<1> DEFINE R == ReachFrom(H, S, W)
<1>1. S \subseteq R /\ \A x \in R : H[x] \cap W \subseteq R
    BY ReachFromIsClosed
<1> HIDE DEF R
<1>2. ReachFrom(G, S, W) \subseteq R
    BY <1>1, ReachFromIsLeast
<1> QED
    BY <1>2 DEF R

\* A set that holds one open call and what its members call holds the open calls from there on.
LEMMA CallsFromOn ==
    ASSUME LoopTypeOK, CallsInv, NEW R, NEW i \in 1 .. Len(calls), calls[i] \in R,
           \A n \in i + 1 .. Len(calls) : calls[n - 1] \in R => calls[n] \in R
    PROVE  \A j \in i .. Len(calls) : calls[j] \in R
<1> DEFINE T == {n \in i .. Len(calls) : calls[n] \notin R}
<1>1. Len(calls) \in Nat
    BY DEF LoopTypeOK
<1>2. SUFFICES ASSUME T # {}
               PROVE  FALSE
    OBVIOUS
<1>3. T \in SUBSET Nat
    BY <1>1
<1>4. PICK n \in T : \A k \in T : n <= k
    BY <1>2, <1>3, LeastNumber
<1>5. n # i /\ n - 1 \in i .. Len(calls) /\ n \in i + 1 .. Len(calls)
    BY <1>1, <1>4
<1>6. calls[n - 1] \in R
    BY <1>4, <1>5
<1> QED
    BY <1>4, <1>5, <1>6

\* The call at hand, which all blocks that dominate it have called.
LEMMA DominatorIsOpen ==
    ASSUME Inv, LoopTypeOK, CallsInv, calls # <<>>, NEW d \in Blocks, Dom(d, calls[Len(calls)])
    PROVE  d \in Range(calls)
<1> DEFINE R == ReachFrom(succs, {Start} \ {d}, DOMAIN succs \ {d})
<1>1. SUFFICES ASSUME d \notin Range(calls)
               PROVE  FALSE
    OBVIOUS
<1>2. /\ Len(calls) \in Nat /\ Len(calls) > 0 /\ calls[1] = Start /\ DOMAIN succs = Blocks
      /\ \A n \in 1 .. Len(calls) : calls[n] \in Blocks /\ calls[n] # d
    BY <1>1 DEF LoopTypeOK, CallsInv, Inv, TypeOK, Range
<1>3. {Start} \ {d} \subseteq R /\ \A x \in R : succs[x] \cap (DOMAIN succs \ {d}) \subseteq R
    BY ReachFromIsClosed
<1> HIDE DEF R
<1>4. calls[1] \in R
    BY <1>2, <1>3
<1>5. \A n \in 2 .. Len(calls) : calls[n] \in succs[calls[n - 1]]
    <2> SUFFICES ASSUME NEW n \in 2 .. Len(calls)
                 PROVE  calls[n] \in succs[calls[n - 1]]
        OBVIOUS
    <2>1. n - 1 \in 1 .. Len(calls)
        BY <1>2
    <2>2. calls[n - 1] \in Blocks /\ calls[n] \in Forward[calls[n - 1]]
        BY <1>2, <2>1 DEF CallsInv
    <2> QED
        BY <2>2 DEF Forward
<1>6. \A n \in 2 .. Len(calls) : calls[n - 1] \in R => calls[n] \in R
    BY <1>2, <1>3, <1>5
<1>7. calls[Len(calls)] \in R
    BY <1>2, <1>4, <1>6, CallsFromOn
<1> QED
    BY <1>7 DEF Dom, DominatesIn, R

LEMMA CallAtHand ==
    ASSUME Inv, LoopTypeOK, CutInv, calls # <<>>
    PROVE  /\ L!Last(calls) = calls[Len(calls)] /\ Len(calls) \in Nat /\ Len(calls) > 0
           /\ calls[Len(calls)] \in Blocks /\ calls[Len(calls)] \in Reachable
           /\ number[calls[Len(calls)]] \in Nat /\ exit[calls[Len(calls)]] = None
           /\ calls[Len(calls)] \in Range(calls)
           /\ \A x \in Range(calls) : x \in Blocks /\ number[x] \in Nat /\ number[x] <= number[calls[Len(calls)]]
<1>1. /\ Len(calls) \in Nat /\ Len(calls) > 0
      /\ DOMAIN calls = 1 .. Len(calls) /\ \A i \in 1 .. Len(calls) : calls[i] \in Blocks
    BY DEF LoopTypeOK
<1>2. \A x \in Range(calls) : x \in Blocks /\ number[x] \in Nat /\ exit[x] = None /\ x \in Reachable
    BY <1>1 DEF Range, CutInv, CallsInv, LoopTypeOK
<1>3. \A i \in 1 .. Len(calls) : calls[i] \in Range(calls)
    BY <1>1 DEF Range
<1>4. \A i \in 1 .. Len(calls) : number[calls[i]] <= number[calls[Len(calls)]]
    BY <1>1, <1>2, <1>3 DEF CutInv, CallsInv
<1>5. \A x \in Range(calls) : \E i \in 1 .. Len(calls) : x = calls[i]
    BY <1>1 DEF Range
<1> QED
    BY <1>1, <1>2, <1>3, <1>4, <1>5 DEF L!Last

LEMMA RangeOfAppend ==
    ASSUME NEW S, NEW q \in Seq(S), NEW e
    PROVE  Range(Append(q, e)) = Range(q) \cup {e}
<1>1. /\ Len(q) \in Nat /\ DOMAIN q = 1 .. Len(q)
      /\ DOMAIN Append(q, e) = 1 .. Len(q) + 1
      /\ \A i \in 1 .. Len(q) : Append(q, e)[i] = q[i]
      /\ Append(q, e)[Len(q) + 1] = e
    OBVIOUS
<1>2. \A i \in 1 .. Len(q) + 1 : i \in 1 .. Len(q) \/ i = Len(q) + 1
    BY <1>1
<1>3. Len(q) + 1 \in 1 .. Len(q) + 1 /\ \A i \in 1 .. Len(q) : i \in 1 .. Len(q) + 1
    BY <1>1
<1> QED
    BY <1>1, <1>2, <1>3 DEF Range

LEMMA GraphUnchanged ==
    ASSUME UNCHANGED vars
    PROVE  /\ UNCHANGED <<succs, order, idom, pc>>
           /\ Reachable' = Reachable
           /\ \A d, x : Dom(d, x)' <=> Dom(d, x)
           /\ \A x : StrictDominators(x)' = StrictDominators(x)
           /\ \A x : Preds(x)' = Preds(x)
<1>1. UNCHANGED <<succs, order, idom, pc>>
    BY DEF vars, tree
<1>2. Reachable' = Reachable
    BY <1>1 DEF Reachable
<1>3. \A d, x : Dom(d, x)' <=> Dom(d, x)
    BY <1>1 DEF Dom
<1>4. \A x : StrictDominators(x)' = StrictDominators(x)
    BY <1>1, <1>2 DEF StrictDominators
<1>5. \A x : Preds(x)' = Preds(x)
    BY <1>1 DEF Preds
<1> QED
    BY <1>1, <1>2, <1>3, <1>4, <1>5

LEMMA MeetOpenInv ==
    ASSUME Inv, LoopTypeOK, CutInv, L!MeetOpen, UNCHANGED vars
    PROVE  LoopTypeOK' /\ CutInv'
<1>1. PICK x \in Blocks :
        /\ L!LookAt(x) /\ L!Open(x)
        /\ backEdges' = Append(backEdges, <<L!Last(calls), x>>)
        /\ UNCHANGED <<stage, calls, counter, number, exit, loops, reducible, latches, blocks, outer, place>>
    BY DEF L!MeetOpen, L!found, L!tree
<1>2. PICK z : z = calls[Len(calls)]
    OBVIOUS
<1>3. calls # <<>>
    BY <1>1 DEF L!LookAt
<1>4. /\ L!Last(calls) = z /\ z \in Blocks /\ z \in Range(calls) /\ number[z] \in Nat
      /\ \A w \in Range(calls) : w \in Blocks /\ number[w] \in Nat /\ number[w] <= number[z]
    BY <1>2, <1>3, CallAtHand
<1>5. /\ x \in left[z] /\ left' = [left EXCEPT ![z] = @ \ {x}]
      /\ x \in Range(calls) /\ backEdges' = Append(backEdges, <<z, x>>)
    BY <1>1, <1>4, SameLoopGraphs DEF L!LookAt, L!Open, L!InStack
<1>6. /\ left \in [Blocks -> SUBSET Blocks] /\ left' \in [Blocks -> SUBSET Blocks]
      /\ left'[z] = left[z] \ {x} /\ \A w \in Blocks \ {z} : left'[w] = left[w]
    BY <1>4, <1>5 DEF LoopTypeOK
<1>7. Range(backEdges') = Range(backEdges) \cup {<<z, x>>}
    BY <1>5, RangeOfAppend DEF LoopTypeOK
<1>8. /\ UNCHANGED <<succs, order, idom, pc>> /\ Reachable' = Reachable
      /\ \A d, w : Dom(d, w)' <=> Dom(d, w)
      /\ \A w : StrictDominators(w)' = StrictDominators(w)
    BY GraphUnchanged
<1>9. Forward' = Forward
    <2>1. \A w \in Blocks :
            {y \in succs[w] \ left'[w] : <<w, y>> \notin Range(backEdges')}
                = {y \in succs[w] \ left[w] : <<w, y>> \notin Range(backEdges)}
        <3> SUFFICES ASSUME NEW w \in Blocks, NEW y \in succs[w]
                     PROVE  y \notin left'[w] /\ <<w, y>> \notin Range(backEdges')
                                <=> y \notin left[w] /\ <<w, y>> \notin Range(backEdges)
            OBVIOUS
        <3>1. CASE w = z /\ y = x
            BY <1>5, <1>7, <3>1
        <3>2. CASE w # z
            BY <1>6, <1>7, <3>2
        <3>3. CASE w = z /\ y # x
            BY <1>6, <1>7, <3>3
        <3> QED
            BY <3>1, <3>2, <3>3
    <2> QED
        BY <1>8, <2>1 DEF Forward
<1>10. LoopTypeOK'
    BY <1>1, <1>4, <1>5, <1>6 DEF LoopTypeOK
<1>11. CallsInv'
    BY <1>1, <1>8, <1>9 DEF CutInv, CallsInv
<1>12. LeftInv'
    <2>1. number[x] # None /\ exit[z] = None /\ number[z] # None
        BY <1>4, <1>5 DEF CutInv, CallsInv
    <2> QED
        BY <1>1, <1>6, <1>8, <2>1 DEF CutInv, LeftInv
<1>13. ForwardInv'
    BY <1>1, <1>9 DEF CutInv, ForwardInv
<1>14. z \in ReachFrom(Forward, {x}, Reachable)
    <2> DEFINE R == ReachFrom(Forward, {x}, Reachable)
    <2>1. /\ Len(calls) \in Nat /\ DOMAIN calls = 1 .. Len(calls) /\ Len(calls) > 0
          /\ \A n \in 1 .. Len(calls) : calls[n] \in Reachable /\ calls[n] \in Range(calls)
        BY <1>3 DEF LoopTypeOK, CutInv, CallsInv, Range
    <2>2. PICK i \in 1 .. Len(calls) : calls[i] = x
        BY <1>5, <2>1 DEF Range
    <2>3. x \in R /\ \A w \in R : Forward[w] \cap Reachable \subseteq R
        BY ReachFromIsClosed
    <2> HIDE DEF R
    <2>4. \A n \in i + 1 .. Len(calls) : calls[n - 1] \in R => calls[n] \in R
        BY <2>1, <2>3 DEF CutInv, CallsInv
    <2>5. calls[Len(calls)] \in R
        BY <2>1, <2>2, <2>3, <2>4, CallsFromOn DEF CutInv
    <2> QED
        BY <1>2, <2>5 DEF R
<1>15. BackInv'
    <2>1. number[x] # None /\ number[x] <= number[z] /\ x \in succs[z] /\ number[z] # None
        BY <1>4, <1>5, NumbersAssumption DEF CutInv, CallsInv, LeftInv
    <2>2. ASSUME NEW v \in Blocks, NEW y \in Blocks, <<v, y>> \in Range(backEdges')
          PROVE  /\ number[v] # None /\ y \in succs[v] \ left'[v]
                 /\ number[y] # None /\ number[y] <= number[v]
                 /\ v \in ReachFrom(Forward, {y}, Reachable)
        <3>1. CASE v = z /\ y = x
            BY <1>6, <1>14, <2>1, <3>1
        <3>2. CASE <<v, y>> \in Range(backEdges)
            BY <1>6, <3>2 DEF CutInv, BackInv
        <3> QED
            BY <1>7, <2>2, <3>1, <3>2
    <2>3. ASSUME NEW v \in Blocks, NEW y \in succs[v] \ left'[v], Dom(y, v)
          PROVE  <<v, y>> \in Range(backEdges')
        BY <1>5, <1>6, <1>7, <2>3 DEF CutInv, BackInv
    <2> QED
        BY <1>1, <1>8, <1>9, <2>2, <2>3 DEF BackInv
<1>16. DominatorsFirst' /\ NumbersDistinct'
    BY <1>1, <1>8 DEF CutInv, DominatorsFirst, NumbersDistinct
<1> QED
    BY <1>10, <1>11, <1>12, <1>13, <1>15, <1>16 DEF CutInv

\* A look that finds no back edge makes one more forward edge.
LEMMA LookForward ==
    ASSUME Inv, LoopTypeOK, CutInv, NEW z \in Blocks, NEW x \in left[z],
           left' = [left EXCEPT ![z] = @ \ {x}], UNCHANGED <<succs, backEdges>>
    PROVE  /\ x \in Blocks /\ x \in succs[z]
           /\ left' \in [Blocks -> SUBSET Blocks]
           /\ left'[z] = left[z] \ {x} /\ \A w \in Blocks \ {z} : left'[w] = left[w]
           /\ Forward'[z] = Forward[z] \cup {x}
           /\ \A w \in Blocks \ {z} : Forward'[w] = Forward[w]
           /\ \A y \in Blocks : ReachFrom(Forward, {y}, Reachable) \subseteq ReachFrom(Forward', {y}, Reachable)
<1>1. x \in Blocks /\ x \in succs[z]
    BY DEF LoopTypeOK, CutInv, LeftInv
<1>2. /\ left' \in [Blocks -> SUBSET Blocks]
      /\ left'[z] = left[z] \ {x} /\ \A w \in Blocks \ {z} : left'[w] = left[w]
    BY DEF LoopTypeOK
<1>3. <<z, x>> \notin Range(backEdges)
    BY <1>1 DEF CutInv, BackInv
<1>4. /\ \A w \in Blocks : Forward[w] = {y \in succs[w] \ left[w] : <<w, y>> \notin Range(backEdges)}
      /\ \A w \in Blocks : Forward'[w] = {y \in succs[w] \ left'[w] : <<w, y>> \notin Range(backEdges)}
    BY DEF Forward
<1>5. Forward'[z] = Forward[z] \cup {x}
    <2>1. /\ Forward[z] = {y \in succs[z] \ left[z] : <<z, y>> \notin Range(backEdges)}
          /\ Forward'[z] = {y \in succs[z] \ left'[z] : <<z, y>> \notin Range(backEdges)}
        BY <1>4
    <2>2. \A y : y \in succs[z] \ left'[z] <=> y \in succs[z] \ left[z] \/ y = x
        BY <1>1, <1>2
    <2> QED
        BY <1>3, <2>1, <2>2
<1>6. \A w \in Blocks \ {z} : Forward'[w] = Forward[w]
    BY <1>2, <1>4
<1>7. \A w \in Blocks : Forward[w] \subseteq Forward'[w]
    BY <1>5, <1>6
<1>8. Reachable \subseteq Blocks
    BY ReachableIsClosed DEF Inv
<1>9. ASSUME NEW y \in Blocks
      PROVE  ReachFrom(Forward, {y}, Reachable) \subseteq ReachFrom(Forward', {y}, Reachable)
    <2>1. \A w \in {y} \cup Reachable : Forward[w] \subseteq Forward'[w]
        BY <1>7, <1>8
    <2> QED
        BY <2>1, ReachFromGrows
<1> QED
    BY <1>1, <1>2, <1>5, <1>6, <1>9

LEMMA MeetClosedInv ==
    ASSUME Inv, LoopTypeOK, CutInv, L!MeetClosed, UNCHANGED vars
    PROVE  LoopTypeOK' /\ CutInv'
<1>1. PICK x \in Blocks :
        /\ L!LookAt(x) /\ x \in L!Visited /\ ~L!Open(x)
        /\ UNCHANGED <<stage, calls, counter, number, exit, backEdges, loops, reducible, latches, blocks, outer, place>>
    BY DEF L!MeetClosed, L!found, L!tree
<1>2. PICK z : z = calls[Len(calls)]
    OBVIOUS
<1>3. calls # <<>>
    BY <1>1 DEF L!LookAt
<1>4. /\ L!Last(calls) = z /\ z \in Blocks /\ z \in Range(calls) /\ number[z] \in Nat /\ exit[z] = None
      /\ \A w \in Range(calls) : w \in Blocks /\ number[w] \in Nat /\ number[w] <= number[z]
    BY <1>2, <1>3, CallAtHand
<1>5. x \in left[z] /\ left' = [left EXCEPT ![z] = @ \ {x}] /\ number[x] # None
    BY <1>1, <1>4 DEF L!LookAt, L!Visited
<1>6. x \notin Range(calls) /\ exit[x] # None
    <2>1. x \notin Range(calls)
        <3>1. x \in Range(calls) => number[z] >= number[x]
            BY <1>4
        <3> QED
            BY <1>1, <1>4, <3>1, SameLoopGraphs DEF L!Open, L!InStack
    <2> QED
        BY <1>5, <2>1 DEF CutInv, CallsInv
<1>7. /\ UNCHANGED <<succs, order, idom, pc>> /\ Reachable' = Reachable
      /\ \A d, w : Dom(d, w)' <=> Dom(d, w)
      /\ \A w : StrictDominators(w)' = StrictDominators(w)
    BY GraphUnchanged
<1>8. /\ x \in succs[z]
      /\ left' \in [Blocks -> SUBSET Blocks]
      /\ left'[z] = left[z] \ {x} /\ \A w \in Blocks \ {z} : left'[w] = left[w]
      /\ Forward'[z] = Forward[z] \cup {x}
      /\ \A w \in Blocks \ {z} : Forward'[w] = Forward[w]
      /\ \A y \in Blocks : ReachFrom(Forward, {y}, Reachable) \subseteq ReachFrom(Forward', {y}, Reachable)
    BY <1>1, <1>4, <1>5, <1>7, LookForward
<1>9. LoopTypeOK'
    BY <1>1, <1>8 DEF LoopTypeOK
<1>10. CallsInv'
    <2>1. \A i \in 2 .. Len(calls) : calls[i - 1] \in Blocks
        BY DEF LoopTypeOK
    <2>2. \A i \in 2 .. Len(calls) : calls[i] \in Forward'[calls[i - 1]]
        BY <1>8, <2>1 DEF CutInv, CallsInv
    <2> QED
        BY <1>1, <1>7, <2>2 DEF CutInv, CallsInv
<1>11. LeftInv'
    <2>1. exit[z] = None /\ number[z] # None
        BY <1>4 DEF CutInv, CallsInv
    <2> QED
        BY <1>1, <1>5, <1>7, <1>8, <2>1 DEF CutInv, LeftInv
<1>12. ForwardInv'
    <2>1. ASSUME NEW w \in Blocks, NEW y \in Forward'[w]
          PROVE  \/ exit[y] # None /\ (exit[w] # None => exit[y] < exit[w])
                 \/ exit[y] = None /\ exit[w] = None /\ number[w] < number[y]
        <3>1. CASE y \in Forward[w]
            BY <3>1 DEF CutInv, ForwardInv
        <3>2. CASE w = z /\ y = x
            BY <1>4, <1>6, <3>2
        <3> QED
            BY <1>8, <2>1, <3>1, <3>2
    <2> QED
        BY <1>1, <2>1 DEF ForwardInv
<1>13. BackInv'
    <2>1. \A v, y \in Blocks : <<v, y>> \in Range(backEdges) =>
            /\ number[v] # None /\ y \in succs[v] \ left'[v]
            /\ number[y] # None /\ number[y] <= number[v]
            /\ v \in ReachFrom(Forward', {y}, Reachable)
        BY <1>8 DEF CutInv, BackInv
    <2>2. ~Dom(x, z)
        BY <1>2, <1>3, <1>6, DominatorIsOpen DEF CutInv
    <2>3. \A v \in Blocks : \A y \in succs[v] \ left'[v] : Dom(y, v) => <<v, y>> \in Range(backEdges)
        BY <1>8, <2>2 DEF CutInv, BackInv
    <2> QED
        BY <1>1, <1>7, <2>1, <2>3 DEF BackInv
<1>14. DominatorsFirst' /\ NumbersDistinct'
    BY <1>1, <1>7 DEF CutInv, DominatorsFirst, NumbersDistinct
<1> QED
    BY <1>9, <1>10, <1>11, <1>12, <1>13, <1>14 DEF CutInv

\* A block that is entered is dominated by nothing that is not open or was not entered before.
LEMMA MarkDFSInv ==
    ASSUME Inv, LoopTypeOK, CutInv, L!MarkDFS, UNCHANGED vars
    PROVE  LoopTypeOK' /\ CutInv'
<1>1. PICK x \in Blocks :
        /\ L!LookAt(x) /\ x \notin L!Visited
        /\ calls' = Append(calls, x)
        /\ number' = [number EXCEPT ![x] = counter]
        /\ counter' = counter + 1
        /\ UNCHANGED <<stage, exit, backEdges, loops, reducible, latches, blocks, outer, place>>
    BY DEF L!MarkDFS, L!found, L!tree
<1>2. PICK z : z = calls[Len(calls)]
    OBVIOUS
<1>3. calls # <<>>
    BY <1>1 DEF L!LookAt
<1>4. /\ L!Last(calls) = z /\ z \in Blocks /\ z \in Range(calls) /\ number[z] \in Nat /\ exit[z] = None
      /\ z \in Reachable /\ Len(calls) \in Nat /\ Len(calls) > 0
      /\ \A w \in Range(calls) : w \in Blocks /\ number[w] \in Nat /\ number[w] <= number[z]
    BY <1>2, <1>3, CallAtHand
<1>5. x \in left[z] /\ left' = [left EXCEPT ![z] = @ \ {x}] /\ number[x] = None
    BY <1>1, <1>4 DEF L!LookAt, L!Visited
<1>6. x \notin Range(calls) /\ exit[x] = None /\ x # z /\ x # Start
    BY <1>4, <1>5 DEF CutInv, CallsInv
<1>7. /\ UNCHANGED <<succs, order, idom, pc>> /\ Reachable' = Reachable
      /\ \A d, w : Dom(d, w)' <=> Dom(d, w)
      /\ \A w : StrictDominators(w)' = StrictDominators(w)
    BY GraphUnchanged
<1>8. /\ x \in succs[z]
      /\ left' \in [Blocks -> SUBSET Blocks]
      /\ left'[z] = left[z] \ {x} /\ \A w \in Blocks \ {z} : left'[w] = left[w]
      /\ Forward'[z] = Forward[z] \cup {x}
      /\ \A w \in Blocks \ {z} : Forward'[w] = Forward[w]
      /\ \A y \in Blocks : ReachFrom(Forward, {y}, Reachable) \subseteq ReachFrom(Forward', {y}, Reachable)
    BY <1>1, <1>4, <1>5, <1>7, LookForward
<1>9. /\ counter \in Nat /\ number \in [Blocks -> Nat \cup {None}]
      /\ exit \in [Blocks -> Nat \cup {None}] /\ calls \in Seq(Blocks) /\ counter # None
    BY NumbersAssumption DEF LoopTypeOK
<1>10. number'[x] = counter /\ \A w \in Blocks \ {x} : number'[w] = number[w]
    BY <1>1, <1>9
<1>11. /\ calls' \in Seq(Blocks) /\ Len(calls') = Len(calls) + 1
       /\ \A i \in 1 .. Len(calls) : calls'[i] = calls[i] /\ calls[i] \in Range(calls) /\ calls[i] \in Blocks
       /\ calls'[Len(calls) + 1] = x
       /\ Range(calls') = Range(calls) \cup {x}
    <2>1. /\ calls' \in Seq(Blocks) /\ Len(calls') = Len(calls) + 1
          /\ \A i \in 1 .. Len(calls) : calls'[i] = calls[i] /\ calls[i] \in Blocks
          /\ calls'[Len(calls) + 1] = x
        BY <1>1, <1>9
    <2>2. \A i \in 1 .. Len(calls) : calls[i] \in Range(calls)
        BY <1>9 DEF Range
    <2>3. Range(calls') = Range(calls) \cup {x}
        BY <1>1, <1>9, RangeOfAppend
    <2> QED
        BY <2>1, <2>2, <2>3
<1>12. LoopTypeOK'
    BY <1>1, <1>8, <1>9, <1>11 DEF LoopTypeOK
<1>13. x \in Reachable
    BY <1>4, <1>8, ReachableIsClosed DEF Inv
<1>14. CallsInv'
    <2>1. \A w \in Blocks : number'[w] # None <=> (w \in Range(calls') \/ exit[w] # None)
        BY <1>5, <1>9, <1>10, <1>11 DEF CutInv, CallsInv
    <2>2. \A w \in Range(calls') : exit[w] = None
        BY <1>6, <1>11 DEF CutInv, CallsInv
    <2>3. ASSUME NEW i \in 1 .. Len(calls'), NEW j \in 1 .. Len(calls'), i < j
          PROVE  number'[calls'[i]] < number'[calls'[j]]
        <3>1. i \in 1 .. Len(calls) /\ calls'[i] = calls[i] /\ calls[i] # x
            BY <1>4, <1>6, <1>11, <2>3
        <3>2. CASE j \in 1 .. Len(calls)
            <4>1. calls'[j] = calls[j] /\ calls[j] # x
                BY <1>6, <1>11, <3>2
            <4> QED
                BY <1>10, <1>11, <2>3, <3>1, <3>2, <4>1 DEF CutInv, CallsInv
        <3>3. CASE j = Len(calls) + 1
            <4>1. number[calls[i]] < counter
                BY <1>4, <1>9, <1>11, <3>1, NumbersAssumption DEF CutInv, CallsInv
            <4> QED
                BY <1>10, <1>11, <3>1, <3>3, <4>1
        <3> QED
            BY <1>4, <1>11, <3>2, <3>3
    <2>4. \A w \in Blocks : number'[w] # None => number'[w] < counter + 1 /\ w \in Reachable
        BY <1>9, <1>10, <1>13 DEF CutInv, CallsInv
    <2>5. \A w \in Blocks : exit[w] # None => exit[w] < counter + 1
        BY <1>9 DEF CutInv, CallsInv
    <2>6. calls'[1] = Start
        BY <1>3, <1>4, <1>11 DEF CutInv, CallsInv
    <2>7. ASSUME NEW i \in 2 .. Len(calls')
          PROVE  calls'[i] \in Forward'[calls'[i - 1]]
        <3>1. i - 1 \in 1 .. Len(calls) /\ calls'[i - 1] = calls[i - 1] /\ calls[i - 1] \in Blocks
            BY <1>4, <1>11
        <3>2. CASE i = Len(calls) + 1
            BY <1>2, <1>4, <1>8, <1>11, <3>1, <3>2
        <3>3. CASE i \in 2 .. Len(calls)
            BY <1>8, <1>11, <3>1, <3>3 DEF CutInv, CallsInv
        <3> QED
            BY <1>4, <1>11, <3>2, <3>3
    <2>8. number'[Start] # None
        BY <1>6, <1>10, BlocksAssumption DEF CutInv, CallsInv
    <2> QED
        BY <1>1, <1>7, <2>1, <2>2, <2>3, <2>4, <2>5, <2>6, <2>7, <2>8 DEF CallsInv
<1>15. LeftInv'
    <2>1. exit[z] = None /\ number[z] # None
        BY <1>4 DEF CutInv, CallsInv
    <2>2. \A w \in Blocks : number'[w] = None => number[w] = None /\ w # z /\ w # x
        BY <1>4, <1>9, <1>10, <2>1
    <2>3. \A w \in Blocks : /\ left'[w] \subseteq succs[w]
                            /\ number'[w] = None => left'[w] = succs[w]
                            /\ exit[w] # None => left'[w] = {}
        BY <1>8, <2>1, <2>2 DEF CutInv, LeftInv
    <2>4. \A w \in Blocks : \A y \in succs[w] \ left'[w] : y \in Blocks
        BY <1>7 DEF Inv, TypeOK
    <2>5. \A w \in Blocks : \A y \in succs[w] \ left'[w] : y \in succs[w] \ left[w] \/ y = x
        BY <1>8
    <2>6. \A w \in Blocks : \A y \in succs[w] \ left'[w] : number'[y] # None
        BY <1>9, <1>10, <2>4, <2>5 DEF CutInv, LeftInv
    <2> QED
        BY <1>1, <1>7, <2>3, <2>6 DEF LeftInv
<1>16. Forward[x] = {}
    BY <1>5 DEF Forward, CutInv, LeftInv
<1>17. ForwardInv'
    <2>1. ASSUME NEW w \in Blocks, NEW y \in Forward'[w]
          PROVE  \/ exit[y] # None /\ (exit[w] # None => exit[y] < exit[w])
                 \/ exit[y] = None /\ exit[w] = None /\ number'[w] < number'[y]
        <3>1. CASE y \in Forward[w]
            <4>1. w # x /\ y \in succs[w] \ left[w]
                BY <1>16, <3>1 DEF Forward
            <4>2. y \in Blocks /\ number[y] # None
                BY <4>1 DEF CutInv, LeftInv, Inv, TypeOK
            <4> QED
                BY <1>5, <1>10, <3>1, <4>1, <4>2 DEF CutInv, ForwardInv
        <3>2. CASE w = z /\ y = x
            <4>1. number[z] < counter
                BY <1>4, NumbersAssumption DEF CutInv, CallsInv
            <4> QED
                BY <1>4, <1>6, <1>10, <3>2, <4>1
        <3> QED
            BY <1>8, <2>1, <3>1, <3>2
    <2> QED
        BY <1>1, <2>1 DEF ForwardInv
<1>18. BackInv'
    <2>1. ASSUME NEW v \in Blocks, NEW y \in Blocks, <<v, y>> \in Range(backEdges)
          PROVE  /\ number'[v] # None /\ y \in succs[v] \ left'[v]
                 /\ number'[y] # None /\ number'[y] <= number'[v]
                 /\ v \in ReachFrom(Forward', {y}, Reachable)
        <3>1. /\ number[v] # None /\ y \in succs[v] \ left[v]
              /\ number[y] # None /\ number[y] <= number[v]
              /\ v \in ReachFrom(Forward, {y}, Reachable)
            BY <2>1 DEF CutInv, BackInv
        <3>2. v # x /\ y # x
            BY <1>5, <3>1
        <3> QED
            BY <1>8, <1>10, <3>1, <3>2
    <2>2. ~Dom(x, z)
        BY <1>2, <1>3, <1>6, DominatorIsOpen DEF CutInv
    <2>3. \A v \in Blocks : \A y \in succs[v] \ left'[v] : Dom(y, v) => <<v, y>> \in Range(backEdges)
        BY <1>8, <2>2 DEF CutInv, BackInv
    <2> QED
        BY <1>1, <1>7, <2>1, <2>3 DEF BackInv
<1>19. DominatorsFirst'
    <2>1. ASSUME NEW d \in StrictDominators(x)
          PROVE  number'[d] # None /\ number'[d] < number'[x]
        <3>1. d \in Reachable /\ d \in Blocks /\ d # x /\ Dom(d, x)
            BY ReachableIsClosed DEF StrictDominators, Dom, Inv
        <3>2. z \in Preds(x)
            BY <1>4, <1>8 DEF Preds, PredsIn, Inv, TypeOK
        <3>3. Dom(d, z)
            BY <1>13, <3>1, <3>2, DominatorsComeBefore, ReachableIsClosed DEF Inv
        <3>4. number[d] # None /\ number[d] <= number[z]
            <4>1. CASE d = z
                BY <1>4, <4>1, NumbersAssumption
            <4>2. CASE d # z
                <5>1. d \in StrictDominators(z) /\ number[z] # None
                    BY <1>4, <3>1, <3>3, <4>2, NumbersAssumption DEF StrictDominators, Dom
                <5>2. number[d] # None /\ number[d] < number[z]
                    BY <1>4, <5>1 DEF CutInv, DominatorsFirst
                <5> QED
                    BY <1>4, <1>9, <3>1, <5>2
            <4> QED
                BY <4>1, <4>2
        <3>5. number[z] < counter
            BY <1>4, NumbersAssumption DEF CutInv, CallsInv
        <3> QED
            BY <1>4, <1>9, <1>10, <3>1, <3>4, <3>5
    <2>2. ASSUME NEW w \in Blocks \ {x}, number'[w] # None, NEW d \in StrictDominators(w)
          PROVE  number'[d] # None /\ number'[d] < number'[w]
        <3>1. number[w] # None /\ number[d] # None /\ number[d] < number[w] /\ d \in Blocks
            BY <1>10, <2>2, ReachableIsClosed DEF CutInv, DominatorsFirst, StrictDominators, Inv
        <3>2. d # x
            BY <1>5, <3>1
        <3> QED
            BY <1>10, <3>1, <3>2
    <2> QED
        BY <1>7, <2>1, <2>2 DEF DominatorsFirst
<1>20. NumbersDistinct'
    <2>1. \A w \in Blocks : number[w] # None => number[w] \in Nat /\ number[w] # counter
        BY <1>9 DEF CutInv, CallsInv
    <2>2. ASSUME NEW w \in Blocks, NEW y \in Blocks, number'[w] # None, number'[w] = number'[y]
          PROVE  w = y
        <3>1. CASE w = x \/ y = x
            BY <1>9, <1>10, <2>1, <2>2, <3>1
        <3>2. CASE w # x /\ y # x
            BY <1>10, <2>2, <3>2 DEF CutInv, NumbersDistinct
        <3> QED
            BY <3>1, <3>2
    <2> QED
        BY <2>2 DEF NumbersDistinct
<1> QED
    BY <1>12, <1>14, <1>15, <1>17, <1>18, <1>19, <1>20 DEF CutInv

LEMMA FrontOfSequence ==
    ASSUME NEW S, NEW q \in Seq(S), Len(q) > 0
    PROVE  /\ SubSeq(q, 1, Len(q) - 1) \in Seq(S)
           /\ Len(SubSeq(q, 1, Len(q) - 1)) = Len(q) - 1
           /\ DOMAIN SubSeq(q, 1, Len(q) - 1) = 1 .. Len(q) - 1 /\ DOMAIN q = 1 .. Len(q)
           /\ \A i \in 1 .. Len(q) - 1 : SubSeq(q, 1, Len(q) - 1)[i] = q[i]
<1>1. Len(q) \in Nat /\ DOMAIN q = 1 .. Len(q)
    OBVIOUS
<1>2. SubSeq(q, 1, Len(q) - 1) \in Seq(S) /\ Len(SubSeq(q, 1, Len(q) - 1)) = Len(q) - 1
    BY <1>1
<1>3. \A i \in 1 .. Len(q) - 1 : SubSeq(q, 1, Len(q) - 1)[i] = q[i]
    BY <1>1
<1> QED
    BY <1>1, <1>2, <1>3

\* A call that returns has nothing left to look at, and what it called has returned.
LEMMA ReturnInv ==
    ASSUME Inv, LoopTypeOK, CutInv, L!Return, UNCHANGED vars
    PROVE  LoopTypeOK' /\ CutInv' /\ (calls' = <<>> <=> stage' = "populate") /\ stage' \in {"dfs", "populate"}
<1>1. PICK z : z = calls[Len(calls)]
    OBVIOUS
<1>2. calls # <<>> /\ stage = "dfs"
    BY DEF L!Return
<1>3. /\ L!Last(calls) = z /\ z \in Blocks /\ z \in Range(calls) /\ number[z] \in Nat /\ exit[z] = None
      /\ Len(calls) \in Nat /\ Len(calls) > 0
      /\ \A w \in Range(calls) : w \in Blocks /\ number[w] \in Nat /\ number[w] <= number[z]
    BY <1>1, <1>2, CallAtHand
<1>4. /\ left[z] = {} /\ exit' = [exit EXCEPT ![z] = counter] /\ counter' = counter + 1
      /\ calls' = SubSeq(calls, 1, Len(calls) - 1)
      /\ stage' = IF Len(calls) = 1 THEN "populate" ELSE stage
      /\ UNCHANGED <<left, number, backEdges, loops, reducible, latches, blocks, outer, place>>
    BY <1>3 DEF L!Return, L!Front, L!found, L!tree
<1>5. /\ counter \in Nat /\ counter # None /\ calls \in Seq(Blocks)
      /\ number \in [Blocks -> Nat \cup {None}] /\ exit \in [Blocks -> Nat \cup {None}]
    BY NumbersAssumption DEF LoopTypeOK
<1>6. exit'[z] = counter /\ \A w \in Blocks \ {z} : exit'[w] = exit[w]
    BY <1>3, <1>4, <1>5
<1>7. /\ calls' \in Seq(Blocks) /\ Len(calls') = Len(calls) - 1
      /\ DOMAIN calls' = 1 .. Len(calls) - 1 /\ DOMAIN calls = 1 .. Len(calls)
      /\ \A i \in 1 .. Len(calls) - 1 : calls'[i] = calls[i]
    <2>1. calls \in Seq(Blocks) /\ Len(calls) > 0 /\ calls' = SubSeq(calls, 1, Len(calls) - 1)
        BY <1>3, <1>4, <1>5
    <2> QED
        BY <2>1, FrontOfSequence
<1>8. /\ \A i \in 1 .. Len(calls) - 1 : calls[i] # z /\ calls[i] \in Range(calls)
      /\ Range(calls') = Range(calls) \ {z}
    <2>1. \A i \in 1 .. Len(calls) : calls[i] \in Range(calls)
        BY <1>5 DEF Range
    <2>2. \A i \in 1 .. Len(calls) - 1 : number[calls[i]] < number[z]
        BY <1>1, <1>3 DEF CutInv, CallsInv
    <2>3. \A i \in 1 .. Len(calls) - 1 : calls[i] # z
        BY <1>3, <2>2
    <2>4. /\ Range(calls) = {calls[i] : i \in 1 .. Len(calls)}
          /\ Range(calls') = {calls'[i] : i \in 1 .. Len(calls) - 1}
        BY <1>7 DEF Range
    <2>5. \A i \in 1 .. Len(calls) - 1 : calls[i] # z /\ calls[i] \in Range(calls)
        <3>1. \A i \in 1 .. Len(calls) - 1 : i \in 1 .. Len(calls)
            BY <1>3
        <3> QED
            BY <2>1, <2>3, <3>1
    <2>6. \A i \in 1 .. Len(calls) : i \in 1 .. Len(calls) - 1 \/ i = Len(calls)
        BY <1>3
    <2>7. \A w \in Range(calls) : w # z => w \in Range(calls')
        BY <1>1, <1>7, <2>4, <2>6
    <2>8. \A w \in Range(calls') : w \in Range(calls) \ {z}
        BY <1>7, <2>4, <2>5
    <2> QED
        BY <2>5, <2>7, <2>8
<1>9. /\ UNCHANGED <<succs, order, idom, pc>> /\ Reachable' = Reachable
      /\ \A d, w : Dom(d, w)' <=> Dom(d, w)
      /\ \A w : StrictDominators(w)' = StrictDominators(w)
    BY GraphUnchanged
<1>10. Forward' = Forward
    BY <1>4, <1>9 DEF Forward
<1>11. LoopTypeOK'
    <2>1. exit' \in [Blocks -> Nat \cup {None}] /\ counter' \in Nat
        <3>1. counter \in Nat /\ counter' = counter + 1
            BY <1>4, <1>5
        <3>2. exit' \in [Blocks -> Nat \cup {None}]
            BY <1>4, <1>5
        <3> QED
            BY <3>1, <3>2
    <2>2. stage' \in {"dfs", "populate"}
        BY <1>2, <1>4
    <2> QED
        BY <1>4, <1>7, <2>1, <2>2 DEF LoopTypeOK
<1>12. CallsInv'
    <2>1. \A w \in Blocks : number[w] # None <=> (w \in Range(calls') \/ exit'[w] # None)
        BY <1>3, <1>5, <1>6, <1>8 DEF CutInv, CallsInv
    <2>2. \A w \in Range(calls') : exit'[w] = None
        BY <1>3, <1>6, <1>8 DEF CutInv, CallsInv
    <2>3. \A i, j \in 1 .. Len(calls') : i < j => number[calls'[i]] < number[calls'[j]]
        <3>1. \A i \in 1 .. Len(calls') : i \in 1 .. Len(calls) /\ calls'[i] = calls[i]
            BY <1>3, <1>7
        <3> QED
            BY <3>1 DEF CutInv, CallsInv
    <2>4. \A w \in Blocks : number[w] # None => number[w] < counter + 1 /\ w \in Reachable
        <3>1. \A w \in Blocks : number[w] # None => number[w] \in Nat /\ number[w] < counter
            BY <1>5 DEF CutInv, CallsInv
        <3> QED
            BY <1>5, <3>1 DEF CutInv, CallsInv
    <2>5. \A w \in Blocks : exit'[w] # None => exit'[w] < counter + 1
        <3>1. \A w \in Blocks : exit[w] # None => exit[w] \in Nat /\ exit[w] < counter
            BY <1>5 DEF CutInv, CallsInv
        <3> QED
            BY <1>5, <1>6, <3>1
    <2>6. calls' # <<>> => calls'[1] = Start
        BY <1>2, <1>3, <1>7 DEF CutInv, CallsInv
    <2>7. \A i \in 2 .. Len(calls') : calls'[i] \in Forward[calls'[i - 1]]
        <3>1. \A i \in 2 .. Len(calls') : i \in 2 .. Len(calls) /\ calls'[i] = calls[i] /\ calls'[i - 1] = calls[i - 1]
            BY <1>3, <1>7
        <3> QED
            BY <3>1 DEF CutInv, CallsInv
    <2> QED
        BY <1>4, <1>9, <1>10, <2>1, <2>2, <2>3, <2>4, <2>5, <2>6, <2>7 DEF CutInv, CallsInv
<1>13. LeftInv'
    BY <1>4, <1>6, <1>9 DEF CutInv, LeftInv
<1>14. ForwardInv'
    <2>1. ASSUME NEW w \in Blocks, NEW y \in Forward[w]
          PROVE  \/ exit'[y] # None /\ (exit'[w] # None => exit'[y] < exit'[w])
                 \/ exit'[y] = None /\ exit'[w] = None /\ number[w] < number[y]
        <3>1. y \in Blocks /\ number[y] # None
            BY DEF Forward, CutInv, LeftInv, Inv, TypeOK
        <3>2. CASE y = z
            <4>1. exit[w] = None /\ number[w] < number[z]
                BY <1>3, <3>2 DEF CutInv, ForwardInv
            <4>2. w # z
                BY <1>3, <4>1
            <4> QED
                BY <1>5, <1>6, <3>2, <4>1, <4>2
        <3>3. CASE w = z /\ y # z
            <4>1. exit[y] # None
                <5>1. exit[y] = None => y \in Range(calls)
                    BY <3>1 DEF CutInv, CallsInv
                <5>2. exit[y] = None => number[z] < number[y]
                    BY <3>3 DEF CutInv, ForwardInv
                <5> QED
                    BY <1>3, <5>1, <5>2
            <4>2. exit[y] < counter
                BY <3>1, <4>1 DEF CutInv, CallsInv
            <4> QED
                BY <1>6, <3>1, <3>3, <4>1, <4>2
        <3>4. CASE w # z /\ y # z
            BY <1>6, <3>1, <3>4 DEF CutInv, ForwardInv
        <3> QED
            BY <3>2, <3>3, <3>4
    <2> QED
        BY <1>4, <1>10, <2>1 DEF ForwardInv
<1>15. BackInv' /\ DominatorsFirst' /\ NumbersDistinct'
    BY <1>4, <1>9, <1>10 DEF CutInv, BackInv, DominatorsFirst, NumbersDistinct
<1>16. (calls' = <<>> <=> stage' = "populate") /\ stage' \in {"dfs", "populate"}
    <2>1. calls' = <<>> <=> Len(calls') = 0
        BY <1>7
    <2>2. Len(calls') = 0 <=> Len(calls) = 1
        BY <1>3, <1>7
    <2>3. stage' = IF Len(calls) = 1 THEN "populate" ELSE "dfs"
        BY <1>2, <1>4
    <2> QED
        BY <2>1, <2>2, <2>3
<1> QED
    BY <1>11, <1>12, <1>13, <1>14, <1>15, <1>16 DEF CutInv

\* The search begins with one open call and every edge still to look at.
LEMMA CollectBackEdgesInv ==
    ASSUME Inv, LoopTypeOK, Untouched, L!CollectBackEdges, UNCHANGED vars
    PROVE  LoopTypeOK' /\ CutInv' /\ calls' # <<>>
<1>1. /\ stage' = "dfs" /\ calls' = <<Start>> /\ left' = succs
      /\ number' = [number EXCEPT ![Start] = counter] /\ counter' = counter + 1
      /\ UNCHANGED <<exit, backEdges, loops, reducible, latches, blocks, outer, place>>
    BY DEF L!CollectBackEdges, L!found, L!tree
<1>2. /\ UNCHANGED <<succs, order, idom, pc>> /\ Reachable' = Reachable
      /\ \A d, w : Dom(d, w)' <=> Dom(d, w)
      /\ \A w : StrictDominators(w)' = StrictDominators(w)
    BY GraphUnchanged
<1>3. /\ counter \in Nat /\ counter # None /\ Start \in Blocks /\ Start \in Reachable
      /\ succs \in [Blocks -> SUBSET Blocks]
      /\ number \in [Blocks -> Nat \cup {None}]
    BY NumbersAssumption, BlocksAssumption, ReachableIsClosed DEF LoopTypeOK, Inv, TypeOK
<1>4. number'[Start] = counter /\ \A w \in Blocks \ {Start} : number'[w] = None
    BY <1>1, <1>3 DEF Untouched
<1>5. /\ calls' \in Seq(Blocks) /\ Len(calls') = 1 /\ calls'[1] = Start /\ Range(calls') = {Start}
      /\ calls' # <<>>
    BY <1>1, <1>3 DEF Range
<1>6. Range(backEdges') = {}
    BY <1>1 DEF Untouched, Range
<1>7. \A w \in Blocks : Forward'[w] = {} /\ exit'[w] = None /\ succs[w] \ left'[w] = {}
    BY <1>1, <1>2 DEF Forward, Untouched
<1>8. LoopTypeOK'
    BY <1>1, <1>3, <1>5 DEF LoopTypeOK
<1>9. CallsInv'
    BY <1>1, <1>2, <1>3, <1>4, <1>5, <1>7 DEF CallsInv
<1>10. LeftInv' /\ ForwardInv' /\ BackInv'
    BY <1>1, <1>2, <1>3, <1>6, <1>7 DEF LeftInv, ForwardInv, BackInv
<1>11. DominatorsFirst'
    <2>1. ASSUME NEW d \in StrictDominators(Start)
          PROVE  FALSE
        <3>1. d \in Reachable /\ d # Start /\ Dom(d, Start)
            BY DEF StrictDominators, Dom
        <3>2. Start \in ReachFrom(succs, {Start} \ {d}, DOMAIN succs \ {d})
            BY <3>1, ReachFromIsClosed
        <3> QED
            BY <3>1, <3>2 DEF Dom, DominatesIn
    <2> QED
        BY <1>2, <1>4, <2>1 DEF DominatorsFirst
<1>12. NumbersDistinct'
    BY <1>4 DEF NumbersDistinct
<1> QED
    BY <1>5, <1>8, <1>9, <1>10, <1>11, <1>12 DEF CutInv

\* When the search is over it has been everywhere, and has looked at everything.
SearchIsOver ==
    /\ \A x \in Blocks : number[x] # None <=> x \in Reachable
    /\ \A x \in Reachable : left[x] = {} /\ exit[x] # None

LEMMA SearchVisitsAll ==
    ASSUME Inv, LoopTypeOK, CutInv, calls = <<>>
    PROVE  SearchIsOver
<1> DEFINE V == {x \in Blocks : number[x] # None}
<1>1. Range(calls) = {}
    BY DEF Range
<1>2. \A x \in V : exit[x] # None /\ left[x] = {} /\ x \in Reachable
    BY <1>1 DEF CutInv, CallsInv, LeftInv
<1>3. /\ Start \in Blocks /\ Start \in V /\ DOMAIN succs = Blocks
      /\ Reachable = ReachFrom(succs, {Start}, Blocks)
    BY BlocksAssumption DEF CutInv, CallsInv, Inv, TypeOK, Reachable, ReachableIn
<1>4. \A x \in V : succs[x] \subseteq V
    BY <1>2 DEF CutInv, LeftInv, Inv, TypeOK
<1> HIDE DEF V
<1>5. Reachable \subseteq V
    <2>1. {Start} \subseteq V /\ \A x \in V : succs[x] \cap Blocks \subseteq V
        BY <1>3, <1>4
    <2> QED
        BY <1>3, <2>1, ReachFromIsLeast
<1> QED
    BY <1>2, <1>5 DEF SearchIsOver, V

\* A back edge of a reducible graph goes to a dominator: else it would close a cycle of others.
LEMMA BackEdgesOfReducible ==
    ASSUME Inv, LoopTypeOK, CutInv, SearchIsOver
    PROVE  /\ \A e \in Range(backEdges) : e \in Reachable \X Blocks /\ e[2] \in succs[e[1]] /\ number[e[2]] <= number[e[1]]
           /\ L!NaturalBackEdges(succs, Start) \subseteq Range(backEdges)
           /\ L!Reducible(succs, Start) => \A e \in Range(backEdges) : Dom(e[2], e[1])
<1> DEFINE Natural == L!NaturalBackEdges(succs, Start)
           Rest == [x \in Reachable |-> {y \in succs[x] : <<x, y>> \notin Natural}]
<1>1. /\ DOMAIN succs = Blocks /\ Reachable \subseteq Blocks
      /\ \A x \in Reachable : succs[x] \subseteq Reachable
    BY ReachableIsClosed DEF Inv, TypeOK
<1>2. \A e \in Range(backEdges) : e \in Blocks \X Blocks
    BY DEF Range, LoopTypeOK
<1>3. ASSUME NEW e \in Range(backEdges)
      PROVE  /\ e \in Reachable \X Blocks /\ e[2] \in succs[e[1]] /\ number[e[2]] <= number[e[1]]
             /\ e = <<e[1], e[2]>> /\ e[1] \in ReachFrom(Forward, {e[2]}, Reachable)
    <2>1. e[1] \in Blocks /\ e[2] \in Blocks /\ e = <<e[1], e[2]>>
        BY <1>2, <1>3
    <2>2. <<e[1], e[2]>> \in Range(backEdges)
        BY <1>3, <2>1
    <2>3. /\ number[e[1]] # None /\ e[2] \in succs[e[1]] /\ number[e[2]] <= number[e[1]]
          /\ e[1] \in ReachFrom(Forward, {e[2]}, Reachable)
        BY <2>1, <2>2 DEF CutInv, BackInv
    <2> QED
        BY <2>1, <2>3 DEF SearchIsOver
<1>4. \A e : e \in Natural <=> e \in Reachable \X Blocks /\ e[2] \in succs[e[1]] /\ Dom(e[2], e[1])
    BY <1>1, SameLoopGraphs DEF L!NaturalBackEdges
<1>5. Natural \subseteq Range(backEdges)
    <2> SUFFICES ASSUME NEW e \in Natural
                 PROVE  e \in Range(backEdges)
        OBVIOUS
    <2>1. e[1] \in Reachable /\ e[1] \in Blocks /\ e[2] \in succs[e[1]] /\ Dom(e[2], e[1]) /\ e = <<e[1], e[2]>>
        BY <1>1, <1>4
    <2>2. e[2] \in succs[e[1]] \ left[e[1]]
        BY <2>1 DEF SearchIsOver
    <2> QED
        BY <2>1, <2>2 DEF CutInv, BackInv
<1>6. ASSUME L!Reducible(succs, Start), NEW e \in Range(backEdges), ~Dom(e[2], e[1])
      PROVE  FALSE
    <2>1. \A x \in Reachable : x \notin ReachFrom(Rest, Rest[x], Reachable)
        BY <1>6, SameLoopGraphs DEF L!Reducible
    <2>2. e[1] \in Reachable /\ e[2] \in Reachable /\ e[2] \in succs[e[1]] /\ e \notin Natural
        BY <1>1, <1>3, <1>4, <1>6
    <2>3. e[2] \in Rest[e[1]]
        BY <1>3, <2>2
    <2>4. \A w \in {e[2]} \cup Reachable : Forward[w] \subseteq Rest[w]
        BY <1>1, <1>5, <2>2 DEF Forward
    <2>5. e[1] \in ReachFrom(Rest, {e[2]}, Reachable)
        <3> HIDE DEF Rest
        <3> QED
            BY <1>3, <2>4, ReachFromGrows
    <2>6. ReachFrom(Rest, {e[2]}, Reachable) \subseteq ReachFrom(Rest, Rest[e[1]], Reachable)
        <3> HIDE DEF Rest
        <3> QED
            BY <2>3, ReachFromIsMonotonic
    <2> QED
        BY <2>1, <2>2, <2>5, <2>6
<1> QED
    BY <1>3, <1>5, <1>6

\* The property, from the invariant of the search.
LEMMA CyclesAreCut ==
    ASSUME Inv, LoopTypeOK, CutInv, calls = <<>>
    PROVE  BackEdgesCutCycles
<1> DEFINE F == [x \in Reachable |-> {y \in succs[x] : <<x, y>> \notin Range(backEdges)}]
<1>1. SearchIsOver
    BY SearchVisitsAll
<1>2. /\ DOMAIN succs = Blocks /\ Reachable \subseteq Blocks
      /\ \A x \in Reachable : succs[x] \subseteq Reachable
    BY ReachableIsClosed DEF Inv, TypeOK
<1>3. \A x \in Reachable : F[x] = Forward[x] /\ F[x] \subseteq Reachable
    BY <1>1, <1>2 DEF Forward, SearchIsOver
<1> HIDE DEF F
<1>4. \A x \in Reachable : exit[x] \in Nat
    BY <1>1, <1>2 DEF SearchIsOver, LoopTypeOK
<1>5. \A x \in Reachable : \A y \in F[x] : exit[y] < exit[x]
    BY <1>1, <1>2, <1>3 DEF CutInv, ForwardInv, SearchIsOver
<1>6. ASSUME NEW x \in Reachable
      PROVE  x \notin ReachFrom(F, F[x], Reachable)
    <2> DEFINE Less == {y \in Reachable : exit[y] < exit[x]}
    <2>1. F[x] \subseteq Less
        BY <1>3, <1>5
    <2>2. \A y \in Less : F[y] \subseteq Less
        BY <1>3, <1>4, <1>5
    <2>3. x \notin Less
        BY <1>4
    <2> HIDE DEF Less
    <2> QED
        BY <2>1, <2>2, <2>3, ReachFromIsLeast
<1>7. ASSUME NEW e \in Range(backEdges)
      PROVE  e[1] \in ReachFrom(F, {e[2]}, Reachable)
    <2>1. e \in Reachable \X Blocks /\ e[2] \in succs[e[1]]
        BY <1>1, BackEdgesOfReducible
    <2>2. e[1] \in Reachable /\ e[2] \in Reachable /\ e[1] \in Blocks /\ e[2] \in Blocks /\ e = <<e[1], e[2]>>
        BY <1>2, <2>1
    <2>3. e[1] \in ReachFrom(Forward, {e[2]}, Reachable)
        BY <2>2 DEF CutInv, BackInv
    <2>4. \A w \in {e[2]} \cup Reachable : Forward[w] \subseteq F[w]
        BY <1>3, <2>2
    <2> QED
        BY <2>3, <2>4, ReachFromGrows
<1>8. L!Reducible(succs, Start) => Range(backEdges) = L!NaturalBackEdges(succs, Start)
    <2>1. \A e : e \in L!NaturalBackEdges(succs, Start)
                    <=> e \in Reachable \X Blocks /\ e[2] \in succs[e[1]] /\ Dom(e[2], e[1])
        BY <1>2, SameLoopGraphs DEF L!NaturalBackEdges
    <2> QED
        BY <1>1, <2>1, BackEdgesOfReducible
<1>9. /\ \A x \in Reachable : x \notin L!ReachFrom(F, F[x], Reachable)
      /\ \A e \in L!Range(backEdges) : e[1] \in L!ReachFrom(F, {e[2]}, Reachable)
      /\ L!Reducible(succs, Start) => L!Range(backEdges) = L!NaturalBackEdges(succs, Start)
    BY <1>6, <1>7, <1>8, SameLoopGraphs
<1>10. L!ReachableIn(succs, Start) = Reachable /\ L!Range(backEdges) = Range(backEdges)
    BY SameLoopGraphs
<1> QED
    BY <1>9, <1>10 DEF BackEdgesCutCycles, L!BackEdgesCutCycles, F

-----------------------------------------------------------------------------
(* LoopAnalyzer: the loops. *)

\* What is kept of the search.
SearchedInv ==
    /\ \A x \in Blocks : number[x] # None <=> x \in Reachable
    /\ DominatorsFirst /\ NumbersDistinct

\* An edge from latch to header.
BackEdge(x, l) ==
    /\ x \in Reachable /\ l \in Reachable /\ l \in succs[x] /\ number[l] <= number[x]
    /\ L!Reducible(succs, Start) => Dom(l, x)

RemainingInv == \A e \in Range(backEdges) : e \in Blocks \X Blocks /\ BackEdge(e[1], e[2])

\* The flag reducible is that of some latch.
LatchesInv ==
    /\ \A l \in Range(loops) :
          /\ latches[l] # {} /\ \A x \in latches[l] : BackEdge(x, l)
          /\ \E x \in latches[l] : reducible[l] <=> Dom(l, x)
    /\ \A l \in Blocks \ Range(loops) : latches[l] = {} /\ blocks[l] = {l}

Backwards(l) == [x \in Blocks |-> IF x = l THEN {} ELSE Preds(x)]

Joined(l, isReducible) == {p \in Blocks : L!Joins(l, isReducible, p)}

\* FindLoopBlocks of all latches at once.
BlocksInv == \A l \in Range(loops) :
    blocks[l] = {l} \cup ReachFrom(Backwards(l), latches[l], Joined(l, reducible[l]))

LEMMA ReachFromOfUnion ==
    ASSUME NEW G, NEW S, NEW T, NEW W
    PROVE  ReachFrom(G, S \cup T, W) = ReachFrom(G, S, W) \cup ReachFrom(G, T, W)
<1> DEFINE A == ReachFrom(G, S, W)
           B == ReachFrom(G, T, W)
<1>1. /\ S \subseteq A /\ \A x \in A : G[x] \cap W \subseteq A
      /\ T \subseteq B /\ \A x \in B : G[x] \cap W \subseteq B
    BY ReachFromIsClosed
<1>2. A \subseteq ReachFrom(G, S \cup T, W) /\ B \subseteq ReachFrom(G, S \cup T, W)
    BY ReachFromIsMonotonic
<1> HIDE DEF A, B
<1>3. ReachFrom(G, S \cup T, W) \subseteq A \cup B
    <2>1. S \cup T \subseteq A \cup B /\ \A x \in A \cup B : G[x] \cap W \subseteq A \cup B
        BY <1>1
    <2> QED
        BY <2>1, ReachFromIsLeast
<1> QED
    BY <1>2, <1>3 DEF A, B

LEMMA EachDominatesItself == \A x : Dom(x, x)
<1> SUFFICES ASSUME NEW x
             PROVE  x \notin ReachFrom(succs, {Start} \ {x}, DOMAIN succs \ {x})
    BY DEF Dom, DominatesIn
<1> QED
    BY ReachFromIsClosed

\* Dominates, asked about reachable blocks, and about any.
LEMMA DominatesOfReachable ==
    ASSUME Inv, pc = "done", NEW d \in Reachable
    PROVE  /\ \A x \in Reachable : L!Dominates(d, x) <=> Dom(d, x)
           /\ \A p \in Blocks : L!Dominates(d, p) => p \in Reachable
<1>1. /\ TypeOK /\ Tree(idom) /\ DOMAIN succs = Blocks
      /\ idom \in [Blocks -> Blocks \cup {None}]
    BY IdomIsTree DEF Inv, TypeOK
<1>2. ASSUME NEW x \in Reachable
      PROVE  L!Dominates(d, x) <=> Dom(d, x)
    <2>1. CASE d = x
        BY <1>1, <2>1, SameLoopGraphs, ChainIsClosed, EachDominatesItself
    <2>2. CASE d # x
        BY <1>1, <2>2, SameLoopGraphs, ChainIsDominance DEF Dom, DominatesIn
    <2> QED
        BY <2>1, <2>2
<1>3. ASSUME NEW p \in Blocks, L!Dominates(d, p), p \notin Reachable
      PROVE  FALSE
    <2>1. idom[p] = None
        BY <1>1, <1>3, ReachableIsClosed DEF Tree
    <2>2. Chain(idom, p) \subseteq {p}
        BY <1>1, <2>1, ChainIsLeast
    <2> QED
        BY <1>3, <2>2, SameLoopGraphs
<1> QED
    BY <1>2, <1>3

\* What dominates a block has no larger number.
LEMMA EnteredAfterDominators ==
    ASSUME Inv, LoopTypeOK, SearchedInv, NEW d \in Reachable, NEW x \in Reachable, Dom(d, x)
    PROVE  number[d] \in Nat /\ number[x] \in Nat /\ number[d] <= number[x] /\ (d # x => number[d] < number[x])
<1>1. d \in Blocks /\ x \in Blocks /\ number[d] \in Nat /\ number[x] \in Nat /\ number[x] # None
    BY ReachableIsClosed DEF Inv, SearchedInv, LoopTypeOK
<1>2. d # x => d \in StrictDominators(x)
    BY <1>1 DEF StrictDominators, Dom
<1> QED
    BY <1>1, <1>2 DEF SearchedInv, DominatorsFirst

LEMMA WhoJoins ==
    ASSUME Inv, pc = "done", LoopTypeOK, SearchedInv, NEW l \in Reachable, NEW r \in BOOLEAN,
           NEW p \in Joined(l, r)
    PROVE  p \in Reachable /\ number[l] \in Nat /\ number[p] \in Nat /\ number[l] <= number[p]
<1>1. p \in Blocks /\ l \in Blocks /\ L!Joins(l, r, p)
    BY ReachableIsClosed DEF Joined, Inv
<1>2. CASE r
    <2>1. p \in Reachable /\ Dom(l, p)
        BY <1>1, <1>2, DominatesOfReachable DEF L!Joins
    <2> QED
        BY <2>1, EnteredAfterDominators
<1>3. CASE ~r
    <2>1. p = l \/ ({l, p} \subseteq L!Visited /\ number[l] <= number[p])
        <3>1. L!IsDescendant(l, p)
            BY <1>1, <1>3, Zenon DEF L!Joins
        <3> QED
            BY <3>1 DEF L!IsDescendant
    <2>2. p \in Reachable /\ number[l] # None /\ number[p] # None
        BY <1>1, <2>1 DEF L!Visited, SearchedInv
    <2>3. number[l] \in Nat /\ number[p] \in Nat
        BY <1>1, <2>2 DEF LoopTypeOK
    <2> QED
        BY <2>1, <2>2, <2>3
<1> QED
    BY <1>2, <1>3

LEMMA TakesOnlyHead ==
    ASSUME NEW S, NEW q \in Seq(S), q # <<>>
    PROVE  /\ Head(q) \in Range(q) /\ Tail(q) \in Seq(S) /\ Range(Tail(q)) \subseteq Range(q)
<1>1. Len(q) \in Nat /\ Len(q) > 0 /\ DOMAIN q = 1 .. Len(q) /\ Head(q) = q[1]
    OBVIOUS
<1>2. /\ Tail(q) \in Seq(S) /\ DOMAIN Tail(q) = 1 .. Len(q) - 1
      /\ \A i \in 1 .. Len(q) - 1 : Tail(q)[i] = q[i + 1]
    BY <1>1
<1>3. \A i \in 1 .. Len(q) - 1 : i + 1 \in 1 .. Len(q)
    BY <1>1
<1>4. 1 \in 1 .. Len(q)
    BY <1>1
<1> QED
    BY <1>1, <1>2, <1>3, <1>4 DEF Range

NoLoopYet == loops = <<>> /\ \A x \in Blocks : latches[x] = {} /\ blocks[x] = {x} /\ outer[x] = None

LEMMA SearchHandsOn ==
    ASSUME Inv, LoopTypeOK, CutInv, calls = <<>>, NoLoopYet
    PROVE  SearchedInv /\ RemainingInv /\ LatchesInv /\ BlocksInv
<1>1. SearchIsOver
    BY SearchVisitsAll
<1>2. SearchedInv
    BY <1>1 DEF SearchedInv, CutInv, SearchIsOver
<1>3. ASSUME NEW e \in Range(backEdges)
      PROVE  e \in Blocks \X Blocks /\ BackEdge(e[1], e[2])
    <2>1. /\ e \in Reachable \X Blocks /\ e[2] \in succs[e[1]] /\ number[e[2]] <= number[e[1]]
          /\ L!Reducible(succs, Start) => Dom(e[2], e[1])
        BY <1>1, BackEdgesOfReducible
    <2>2. e[1] \in Reachable /\ e[2] \in Reachable /\ e[1] \in Blocks
        BY <2>1, ReachableIsClosed DEF Inv
    <2> QED
        BY <2>1, <2>2 DEF BackEdge
<1>4. Range(loops) = {}
    BY DEF NoLoopYet, Range
<1> QED
    BY <1>2, <1>3, <1>4 DEF RemainingInv, LatchesInv, BlocksInv, NoLoopYet

\* A round gives a loop one latch more, and the blocks that reach that latch.
LEMMA PopulateLoopInv ==
    ASSUME Inv, pc = "done", LoopTypeOK, SearchedInv, RemainingInv, LatchesInv, BlocksInv,
           L!PopulateLoop, UNCHANGED vars
    PROVE  LoopTypeOK' /\ SearchedInv' /\ RemainingInv' /\ LatchesInv' /\ BlocksInv' /\ loops' # <<>>
<1>1. PICK latch, header : latch = Head(backEdges)[1] /\ header = Head(backEdges)[2]
    OBVIOUS
<1> DEFINE isNew == header \notin Range(loops)
<1>2. /\ backEdges # <<>> /\ backEdges' = Tail(backEdges)
      /\ loops' = IF isNew THEN Append(loops, header) ELSE loops
      /\ reducible' = IF isNew THEN [reducible EXCEPT ![header] = L!Dominates(header, latch)] ELSE reducible
      /\ latches' = [latches EXCEPT ![header] = @ \cup {latch}]
      /\ blocks' = [blocks EXCEPT ![header] = @ \cup L!FindLoopBlocks(header, reducible'[header], latch)]
      /\ UNCHANGED <<stage, calls, left, counter, number, exit, outer, place>>
    <2>1. L!Range(loops) = Range(loops)
        BY SameLoopGraphs
    <2> QED
        BY <1>1, <2>1 DEF L!PopulateLoop, L!tree
<1>3. /\ Head(backEdges) \in Range(backEdges) /\ backEdges' \in Seq(Blocks \X Blocks)
      /\ Range(backEdges') \subseteq Range(backEdges)
    BY <1>2, TakesOnlyHead DEF LoopTypeOK
<1>4. latch \in Blocks /\ header \in Blocks /\ BackEdge(latch, header)
    BY <1>1, <1>3 DEF RemainingInv
<1>5. latch \in Reachable /\ header \in Reachable
    BY <1>4 DEF BackEdge
<1>6. UNCHANGED <<succs, order, idom, pc>> /\ Reachable' = Reachable
      /\ (\A d, w : Dom(d, w)' <=> Dom(d, w))
      /\ (\A w : StrictDominators(w)' = StrictDominators(w))
      /\ (\A w : Preds(w)' = Preds(w))
    BY GraphUnchanged
<1>7. L!Reducible(succs, Start)' <=> L!Reducible(succs, Start)
    BY <1>6
<1>8. \A x, l : BackEdge(x, l)' <=> BackEdge(x, l)
    BY <1>2, <1>6, <1>7 DEF BackEdge
<1>9. /\ loops \in Seq(Blocks) /\ reducible \in [Blocks -> BOOLEAN]
      /\ latches \in [Blocks -> SUBSET Blocks] /\ blocks \in [Blocks -> SUBSET Blocks]
    BY DEF LoopTypeOK
<1>10. L!Dominates(header, latch) \in BOOLEAN
    BY DEF L!Dominates
<1>11. L!FindLoopBlocks(header, reducible'[header], latch)
         = ReachFrom(Backwards(header), {latch}, Joined(header, reducible'[header]))
    BY SameLoopGraphs DEF L!FindLoopBlocks, Backwards, Joined
<1>12. ReachFrom(Backwards(header), {latch}, Joined(header, reducible'[header])) \subseteq Blocks
    BY <1>4, ReachFromIsClosed DEF Joined
<1>13. /\ reducible' \in [Blocks -> BOOLEAN]
       /\ latches' \in [Blocks -> SUBSET Blocks] /\ blocks' \in [Blocks -> SUBSET Blocks]
    <2>1. reducible' \in [Blocks -> BOOLEAN]
        BY <1>2, <1>9, <1>10
    <2>2. latches' \in [Blocks -> SUBSET Blocks]
        BY <1>2, <1>4, <1>9
    <2>3. blocks' \in [Blocks -> SUBSET Blocks]
        BY <1>2, <1>4, <1>9, <1>11, <1>12
    <2> QED
        BY <2>1, <2>2, <2>3
<1>14. /\ loops' \in Seq(Blocks) /\ Range(loops') = Range(loops) \cup {header}
    <2>1. CASE isNew
        <3>1. loops' = Append(loops, header)
            BY <1>2, <2>1
        <3> QED
            BY <1>4, <1>9, <3>1, RangeOfAppend
    <2>2. CASE ~isNew
        BY <1>2, <1>9, <2>2
    <2> QED
        BY <2>1, <2>2
<1>15. LoopTypeOK'
    BY <1>2, <1>3, <1>13, <1>14 DEF LoopTypeOK
<1>16. SearchedInv'
    BY <1>2, <1>6 DEF SearchedInv, DominatorsFirst, NumbersDistinct
<1>17. RemainingInv'
    BY <1>3, <1>8 DEF RemainingInv
<1>18. /\ latches'[header] = latches[header] \cup {latch}
       /\ blocks'[header] = blocks[header] \cup ReachFrom(Backwards(header), {latch}, Joined(header, reducible'[header]))
       /\ \A l \in Blocks \ {header} : /\ latches'[l] = latches[l] /\ blocks'[l] = blocks[l]
                                       /\ reducible'[l] = reducible[l]
       /\ isNew => (reducible'[header] <=> Dom(header, latch))
       /\ ~isNew => reducible'[header] = reducible[header]
    <2>1. L!Dominates(header, latch) <=> Dom(header, latch)
        BY <1>5, DominatesOfReachable
    <2>2. latches'[header] = latches[header] \cup {latch}
        BY <1>2, <1>4, <1>9
    <2>3. blocks'[header] = blocks[header] \cup ReachFrom(Backwards(header), {latch}, Joined(header, reducible'[header]))
        BY <1>2, <1>4, <1>9, <1>11
    <2>4. \A l \in Blocks \ {header} : latches'[l] = latches[l] /\ blocks'[l] = blocks[l]
        BY <1>2, <1>9
    <2>5. \A l \in Blocks \ {header} : reducible'[l] = reducible[l]
        BY <1>2, <1>9
    <2>6. isNew => reducible'[header] = L!Dominates(header, latch)
        BY <1>2, <1>4, <1>9
    <2>7. ~isNew => reducible'[header] = reducible[header]
        BY <1>2
    <2> HIDE DEF isNew
    <2> QED
        BY <2>1, <2>2, <2>3, <2>4, <2>5, <2>6, <2>7
<1>19. \A l \in Blocks \ Range(loops) : latches[l] = {} /\ blocks[l] = {l}
    BY DEF LatchesInv
<1>20. LatchesInv'
    <2>1. ASSUME NEW l \in Range(loops')
          PROVE  /\ latches'[l] # {} /\ \A x \in latches'[l] : BackEdge(x, l)
                 /\ \E x \in latches'[l] : reducible'[l] <=> Dom(l, x)
        <3>1. CASE l = header /\ isNew
            <4>1. latches'[l] = {latch}
                BY <1>4, <1>18, <1>19, <3>1
            <4> QED
                BY <1>4, <1>18, <3>1, <4>1
        <3>2. CASE l = header /\ ~isNew
            <4>1. /\ \A x \in latches[l] : BackEdge(x, l)
                  /\ \E x \in latches[l] : reducible[l] <=> Dom(l, x)
                BY <3>2 DEF LatchesInv
            <4> QED
                BY <1>4, <1>18, <3>2, <4>1
        <3>3. CASE l # header
            <4>1. l \in Range(loops)
                BY <1>14, <2>1, <3>3
            <4>2. l \in Blocks
                BY <1>9, <4>1 DEF Range
            <4> QED
                BY <1>18, <3>3, <4>1, <4>2 DEF LatchesInv
        <3> QED
            BY <3>1, <3>2, <3>3
    <2>2. \A l \in Blocks \ Range(loops') : latches'[l] = {} /\ blocks'[l] = {l}
        BY <1>14, <1>18, <1>19
    <2> QED
        BY <1>6, <1>8, <2>1, <2>2 DEF LatchesInv
<1>21. \A l \in Blocks : Backwards(l)' = Backwards(l)
    BY <1>6 DEF Backwards
<1>22. \A l, r : Joined(l, r)' = Joined(l, r)
    BY <1>2, <1>6 DEF Joined, L!Joins, L!Dominates, L!IsDescendant, L!Visited
<1>23. BlocksInv'
    <2>1. ASSUME NEW l \in Range(loops')
          PROVE  blocks'[l] = {l} \cup ReachFrom(Backwards(l), latches'[l], Joined(l, reducible'[l]))
        <3>1. CASE l = header /\ isNew
            BY <1>4, <1>18, <1>19, <3>1
        <3>2. CASE l = header /\ ~isNew
            <4>1. blocks[l] = {l} \cup ReachFrom(Backwards(l), latches[l], Joined(l, reducible'[l]))
                BY <1>18, <3>2 DEF BlocksInv
            <4> QED
                BY <1>18, <3>2, <4>1, ReachFromOfUnion
        <3>3. CASE l # header
            <4>1. l \in Range(loops)
                BY <1>14, <2>1, <3>3
            <4>2. l \in Blocks
                BY <1>9, <4>1 DEF Range
            <4> QED
                BY <1>18, <3>3, <4>1, <4>2 DEF BlocksInv
        <3> QED
            BY <3>1, <3>2, <3>3
    <2>2. \A l \in Range(loops') : l \in Blocks
        BY <1>14 DEF Range
    <2> QED
        BY <1>21, <1>22, <2>1, <2>2 DEF BlocksInv
<1>24. loops' # <<>>
    <2>1. header \in Range(loops')
        BY <1>14
    <2> QED
        BY <2>1 DEF Range
<1> QED
    BY <1>15, <1>16, <1>17, <1>20, <1>23, <1>24

-----------------------------------------------------------------------------
(* The natural loop, as it is defined on paths. *)

Natural(l) == \A x \in latches[l] : Dom(l, x)

NaturalBlocks(l) == {l} \cup ReachFrom(Backwards(l), latches[l], Reachable)

\* The header dominates the loop, which is closed backwards up to the header.
LEMMA NaturalIsClosed ==
    ASSUME Inv, LatchesInv, NEW l \in Range(loops), Natural(l)
    PROVE  /\ l \in NaturalBlocks(l) /\ latches[l] \subseteq NaturalBlocks(l)
           /\ \A x \in NaturalBlocks(l) : x \in Reachable /\ Dom(l, x)
           /\ \A x \in NaturalBlocks(l) \ {l} : Preds(x) \cap Reachable \subseteq NaturalBlocks(l)
<1> DEFINE R == ReachFrom(Backwards(l), latches[l], Reachable)
           D == {x \in Reachable : Dom(l, x)}
<1>1. /\ latches[l] \subseteq R /\ \A x \in R : Backwards(l)[x] \cap Reachable \subseteq R
    BY ReachFromIsClosed
<1>2. /\ \A x \in latches[l] : x \in Reachable
      /\ l \in Reachable /\ l \in Blocks /\ \A x \in Reachable : x \in Blocks
    BY ReachableIsClosed DEF LatchesInv, BackEdge, Inv
<1>3. \A x \in Blocks : Backwards(l)[x] = IF x = l THEN {} ELSE Preds(x)
    BY DEF Backwards
<1>4. R \subseteq D
    <2>1. latches[l] \subseteq D
        BY <1>2 DEF Natural
    <2>2. ASSUME NEW x \in D, NEW p \in Backwards(l)[x] \cap Reachable
          PROVE  p \in D
        <3>1. x # l /\ p \in Preds(x) /\ x \in Blocks /\ p \in Reachable
            BY <1>2, <1>3, <2>2
        <3> QED
            BY <1>2, <3>1, DominatorsComeBefore DEF Inv
    <2> HIDE DEF D
    <2> QED
        BY <2>1, <2>2, ReachFromIsLeast
<1> HIDE DEF R
<1>5. NaturalBlocks(l) = {l} \cup R
    BY DEF NaturalBlocks, R
<1> QED
    BY <1>1, <1>2, <1>3, <1>4, <1>5, EachDominatesItself

LEMMA NaturalBlocksAreTheLoop ==
    ASSUME Inv
    PROVE  \A l : L!NaturalLoop(succs, Start, l, latches[l]) = NaturalBlocks(l)
<1>1. DOMAIN succs = Blocks
    BY DEF Inv, TypeOK
<1>2. \A l : [x \in DOMAIN succs |-> IF x = l THEN {} ELSE L!PredsIn(succs, x)] = Backwards(l)
    BY <1>1, SameLoopGraphs DEF Backwards
<1> QED
    BY <1>2, SameLoopGraphs DEF L!NaturalLoop, NaturalBlocks

\* Up to the header it makes no difference to go only where the header dominates.
LEMMA NaturalBlocksAreFound ==
    ASSUME Inv, pc = "done", LoopTypeOK, SearchedInv, LatchesInv, BlocksInv,
           NEW l \in Range(loops), Natural(l)
    PROVE  blocks[l] = NaturalBlocks(l)
<1> DEFINE J == Joined(l, TRUE)
           Q == ReachFrom(Backwards(l), latches[l], J)
<1>1. /\ l \in Reachable /\ l \in Blocks /\ \A x \in Reachable : x \in Blocks
      /\ \A x \in latches[l] : x \in Reachable /\ Dom(l, x)
    BY ReachableIsClosed DEF LatchesInv, BackEdge, Natural, Inv
<1>2. reducible[l] = TRUE
    BY <1>1 DEF LatchesInv, LoopTypeOK
<1>3. blocks[l] = {l} \cup Q
    BY <1>2 DEF BlocksInv
<1>4. \A p : p \in J <=> p \in Reachable /\ Dom(l, p)
    BY <1>1, DominatesOfReachable DEF Joined, L!Joins
<1>5. /\ latches[l] \subseteq Q /\ Q \subseteq latches[l] \cup J
      /\ \A x \in Q : Backwards(l)[x] \cap J \subseteq Q
    BY ReachFromIsClosed
<1>6. Q \subseteq ReachFrom(Backwards(l), latches[l], Reachable)
    <2>1. J \subseteq Reachable
        BY <1>4
    <2> HIDE DEF J
    <2> QED
        BY <2>1, ReachFromIsMonotonic
<1> HIDE DEF J, Q
<1>7. ReachFrom(Backwards(l), latches[l], Reachable) \subseteq Q
    <2>1. ASSUME NEW x \in Q, NEW p \in Backwards(l)[x] \cap Reachable
          PROVE  p \in Q
        <3>1. x \in Blocks /\ Dom(l, x)
            BY <1>1, <1>4, <1>5
        <3>2. x # l /\ p \in Preds(x) /\ p \in Reachable
            BY <2>1, <3>1 DEF Backwards
        <3>3. p \in J
            BY <1>1, <1>4, <3>1, <3>2, DominatorsComeBefore DEF Inv
        <3> QED
            BY <1>5, <2>1, <3>3
    <2> QED
        BY <1>5, <2>1, ReachFromIsLeast
<1> QED
    BY <1>3, <1>6, <1>7 DEF NaturalBlocks

\* No block of a loop was entered before its header.
BlocksLater == \A l \in Range(loops) :
    l \in blocks[l] /\ \A x \in blocks[l] : x \in Reachable /\ number[l] <= number[x]

LEMMA BlocksAreLater ==
    ASSUME Inv, pc = "done", LoopTypeOK, SearchedInv, LatchesInv, BlocksInv
    PROVE  BlocksLater
<1> SUFFICES ASSUME NEW l \in Range(loops)
             PROVE  l \in blocks[l] /\ \A x \in blocks[l] : x \in Reachable /\ number[l] <= number[x]
    BY DEF BlocksLater
<1>1. /\ \A x \in latches[l] : x \in Reachable /\ number[l] <= number[x]
      /\ l \in Reachable /\ l \in Blocks
    BY ReachableIsClosed DEF LatchesInv, BackEdge, Inv
<1>2. reducible[l] \in BOOLEAN /\ number[l] \in Nat
    BY <1>1 DEF LoopTypeOK, SearchedInv
<1>3. \A x \in Joined(l, reducible[l]) : x \in Reachable /\ number[l] <= number[x]
    BY <1>1, <1>2, WhoJoins
<1>4. blocks[l] \subseteq {l} \cup latches[l] \cup Joined(l, reducible[l]) /\ l \in blocks[l]
    BY ReachFromIsClosed DEF BlocksInv
<1> QED
    BY <1>1, <1>2, <1>3, <1>4

\* A loop whose header is in a natural loop has all its blocks there.
LEMMA NaturalHoldsInner ==
    ASSUME Inv, pc = "done", LoopTypeOK, SearchedInv, LatchesInv, BlocksInv,
           NEW o \in Range(loops), Natural(o), NEW l \in Range(loops), l \in NaturalBlocks(o)
    PROVE  blocks[l] \subseteq NaturalBlocks(o)
<1>1. CASE l = o
    BY <1>1, NaturalBlocksAreFound
<1>2. CASE l # o
    <2> DEFINE J == Joined(l, reducible[l])
               N == NaturalBlocks(o)
    <2>1. /\ \A x \in latches[l] : x \in Reachable /\ l \in succs[x] /\ number[l] <= number[x]
          /\ l \in Reachable /\ l \in Blocks /\ o \in Reachable
          /\ \A x \in Reachable : x \in Blocks
        BY ReachableIsClosed DEF LatchesInv, BackEdge, Inv
    <2>2. /\ \A x \in N : x \in Reachable /\ Dom(o, x)
          /\ \A x \in N \ {o} : Preds(x) \cap Reachable \subseteq N
        BY NaturalIsClosed
    <2>3. number[o] \in Nat /\ number[l] \in Nat /\ number[o] < number[l]
        BY <1>2, <2>1, <2>2, EnteredAfterDominators
    <2>4. reducible[l] \in BOOLEAN /\ \A x \in latches[l] : x \in Preds(l)
        BY <2>1 DEF LoopTypeOK, Preds, PredsIn, Inv, TypeOK
    <2>5. \A x \in J : x \in Reachable /\ number[l] <= number[x]
        BY <2>1, <2>4, WhoJoins
    <2> HIDE DEF J, N
    <2>6. latches[l] \subseteq N
        BY <1>2, <2>1, <2>2, <2>4 DEF N
    <2>7. ASSUME NEW x \in N, x \in latches[l] \cup J
          PROVE  Backwards(l)[x] \cap J \subseteq N
        <3>1. x \in Reachable /\ number[l] <= number[x]
            BY <2>1, <2>5, <2>7
        <3>2. x # o
            BY <2>3, <3>1
        <3>3. Backwards(l)[x] \subseteq Preds(x)
            BY <2>1, <3>1 DEF Backwards
        <3> QED
            BY <2>2, <2>5, <3>2, <3>3
    <2>8. ReachFrom(Backwards(l), latches[l], J) \subseteq N
        BY <2>6, <2>7, ReachFromIsLeast
    <2>9. blocks[l] = {l} \cup ReachFrom(Backwards(l), latches[l], J)
        BY DEF BlocksInv, J
    <2> QED
        BY <2>8, <2>9 DEF N
<1> QED
    BY <1>1, <1>2

-----------------------------------------------------------------------------
(* The scan for the innermost loop. *)

Step(x, Cands, k, best) == IF loops[k] \in Cands /\ L!Closer(x, loops[k], best) THEN loops[k] ELSE best

IsScan(f, n, x, Cands) == f = [k \in 0 .. n |-> IF k = 0 THEN None ELSE Step(x, Cands, k, f[k - 1])]

LEMMA ScanExists ==
    ASSUME LoopTypeOK, NEW x, NEW Cands
    PROVE  \E f : IsScan(f, Len(loops), x, Cands)
<1> DEFINE T == {n \in 0 .. Len(loops) : \A f : ~IsScan(f, n, x, Cands)}
<1>1. Len(loops) \in Nat
    BY DEF LoopTypeOK
<1>2. SUFFICES ASSUME T # {}
               PROVE  FALSE
    BY <1>1
<1>3. PICK n \in T : \A m \in T : n <= m
    <2>1. T \in SUBSET Nat
        BY <1>1
    <2> QED
        BY <1>2, <2>1, LeastNumber
<1>4. CASE n = 0
    <2> DEFINE g == [k \in 0 .. 0 |-> None]
    <2>1. \A k \in 0 .. 0 : k = 0
        OBVIOUS
    <2>2. g = [k \in 0 .. 0 |-> IF k = 0 THEN None ELSE Step(x, Cands, k, g[k - 1])]
        BY <2>1
    <2>3. IsScan(g, n, x, Cands)
        BY <1>4, <2>2 DEF IsScan
    <2> QED
        BY <1>3, <2>3
<1>5. CASE n # 0
    <2>1. n \in Nat /\ n > 0 /\ n - 1 \in 0 .. Len(loops) /\ n - 1 < n
        BY <1>1, <1>3, <1>5
    <2>2. PICK f : IsScan(f, n - 1, x, Cands)
        BY <1>3, <2>1
    <2>3. \A k \in 0 .. n - 1 : f[k] = IF k = 0 THEN None ELSE Step(x, Cands, k, f[k - 1])
        BY <2>2 DEF IsScan
    <2> DEFINE g == [k \in 0 .. n |-> IF k = n THEN Step(x, Cands, n, f[n - 1]) ELSE f[k]]
    <2>4. \A k \in 0 .. n : (k = n \/ k \in 0 .. n - 1) /\ (k # 0 => k - 1 \in 0 .. n - 1 /\ k - 1 \in 0 .. n /\ k - 1 # n)
        BY <2>1
    <2>5. \A k \in 0 .. n : g[k] = IF k = 0 THEN None ELSE Step(x, Cands, k, g[k - 1])
        <3> SUFFICES ASSUME NEW k \in 0 .. n
                     PROVE  g[k] = IF k = 0 THEN None ELSE Step(x, Cands, k, g[k - 1])
            OBVIOUS
        <3>1. k # 0 => g[k - 1] = f[k - 1]
            BY <2>4
        <3>2. CASE k = n
            BY <1>5, <3>1, <3>2
        <3>3. CASE k # n
            BY <2>3, <2>4, <3>1, <3>3
        <3> QED
            BY <3>2, <3>3
    <2>6. g = [k \in 0 .. n |-> g[k]]
        OBVIOUS
    <2> HIDE DEF g
    <2>7. IsScan(g, n, x, Cands)
        BY <2>5, <2>6 DEF IsScan
    <2> QED
        BY <1>3, <2>7
<1> QED
    BY <1>4, <1>5

\* Closest is what one scan of the loops ends with.
LEMMA ClosestIsScan ==
    ASSUME LoopTypeOK, NEW x, NEW Cands
    PROVE  \E f : /\ L!Closest(x, Cands) = f[Len(loops)]
                  /\ f[0] = None
                  /\ \A k \in 1 .. Len(loops) : f[k] = Step(x, Cands, k, f[k - 1])
<1> DEFINE f == CHOOSE g : g = [k \in 0 .. Len(loops) |-> IF k = 0 THEN None ELSE Step(x, Cands, k, g[k - 1])]
<1>1. f = [k \in 0 .. Len(loops) |-> IF k = 0 THEN None ELSE Step(x, Cands, k, f[k - 1])]
    BY ScanExists DEF IsScan
<1>2. L!Closest(x, Cands) = f[Len(loops)]
    BY DEF L!Closest, Step
<1>3. Len(loops) \in Nat
    BY DEF LoopTypeOK
<1> HIDE DEF f
<1>4. 0 \in 0 .. Len(loops) /\ \A k \in 1 .. Len(loops) : k \in 0 .. Len(loops) /\ k # 0
    BY <1>3
<1>5. f[0] = None /\ \A k \in 1 .. Len(loops) : f[k] = Step(x, Cands, k, f[k - 1])
    BY <1>1, <1>4
<1> QED
    BY <1>2, <1>5

\* It is a candidate with the block in it, if it is any.
LEMMA ClosestIsCandidate ==
    ASSUME LoopTypeOK, NEW x, NEW Cands
    PROVE  L!Closest(x, Cands) = None
             \/ (L!Closest(x, Cands) \in Cands \cap Range(loops) /\ x \in blocks[L!Closest(x, Cands)])
<1>1. PICK f : /\ L!Closest(x, Cands) = f[Len(loops)]
               /\ f[0] = None
               /\ \A k \in 1 .. Len(loops) : f[k] = Step(x, Cands, k, f[k - 1])
    BY ClosestIsScan
<1> DEFINE Right(k) == f[k] = None \/ (f[k] \in Cands \cap Range(loops) /\ x \in blocks[f[k]])
           T == {k \in 0 .. Len(loops) : ~Right(k)}
<1>2. Len(loops) \in Nat /\ DOMAIN loops = 1 .. Len(loops)
    BY DEF LoopTypeOK
<1>3. SUFFICES ASSUME T # {}
               PROVE  FALSE
    BY <1>1, <1>2
<1>4. PICK n \in T : \A m \in T : n <= m
    <2>1. T \in SUBSET Nat
        BY <1>2
    <2> QED
        BY <1>3, <2>1, LeastNumber
<1>5. n # 0
    BY <1>1, <1>4
<1>6. n \in 1 .. Len(loops) /\ n - 1 \in 0 .. Len(loops) /\ n - 1 < n
    BY <1>2, <1>4, <1>5
<1>7. Right(n - 1)
    BY <1>4, <1>6
<1>8. f[n] = Step(x, Cands, n, f[n - 1]) /\ loops[n] \in Range(loops)
    BY <1>1, <1>2, <1>6 DEF Range
<1>9. Right(n)
    BY <1>7, <1>8 DEF Step, L!Closer
<1> QED
    BY <1>4, <1>9

\* Before the loops have outer ones, a header's closest loop is its own.
LEMMA ClosestOfHeader ==
    ASSUME LoopTypeOK, SearchedInv, BlocksLater, \A y \in Blocks : outer[y] = None, NEW l \in Range(loops)
    PROVE  L!Closest(l, Range(loops)) = l
<1> DEFINE Cands == Range(loops)
<1>1. PICK f : /\ L!Closest(l, Cands) = f[Len(loops)]
               /\ f[0] = None
               /\ \A k \in 1 .. Len(loops) : f[k] = Step(l, Cands, k, f[k - 1])
    BY ClosestIsScan
<1> DEFINE Seen(k) == \E j \in 1 .. k : loops[j] = l
           Right(k) == IF Seen(k) THEN f[k] = l ELSE f[k] = None \/ l \in blocks[f[k]]
           T == {k \in 0 .. Len(loops) : ~Right(k)}
<1>2. /\ Len(loops) \in Nat /\ DOMAIN loops = 1 .. Len(loops)
      /\ \A k \in 1 .. Len(loops) : loops[k] \in Range(loops) /\ loops[k] \in Blocks
    BY DEF LoopTypeOK, Range
<1>3. l \in Blocks /\ l \in blocks[l] /\ l # None /\ Seen(Len(loops))
    <2>1. PICK j \in 1 .. Len(loops) : loops[j] = l
        BY <1>2 DEF Range
    <2> QED
        BY <1>2, <2>1, BlocksAssumption DEF BlocksLater
<1>4. SUFFICES ASSUME T # {}
               PROVE  FALSE
    BY <1>1, <1>2, <1>3
<1>5. PICK n \in T : \A m \in T : n <= m
    <2>1. T \in SUBSET Nat
        BY <1>2
    <2> QED
        BY <1>4, <2>1, LeastNumber
<1>6. n # 0
    BY <1>1, <1>5
<1>7. n \in 1 .. Len(loops) /\ n - 1 \in 0 .. Len(loops) /\ n - 1 < n /\ n \in Nat
    BY <1>2, <1>5, <1>6
<1>8. Right(n - 1)
    BY <1>5, <1>7
<1>9. PICK r : r = loops[n]
    OBVIOUS
<1>10. /\ f[n] = IF r \in Cands /\ L!Closer(l, r, f[n - 1]) THEN r ELSE f[n - 1]
       /\ r \in Cands /\ r \in Blocks
    BY <1>1, <1>2, <1>7, <1>9 DEF Step
<1>11. Seen(n) <=> Seen(n - 1) \/ r = l
    <2>1. \A j \in 1 .. n : j \in 1 .. n - 1 \/ j = n
        BY <1>7
    <2>2. n \in 1 .. n /\ \A j \in 1 .. n - 1 : j \in 1 .. n
        BY <1>7
    <2> QED
        BY <1>9, <2>1, <2>2
<1> HIDE DEF Seen
<1>12. CASE r = l
    <2>1. f[n - 1] = None \/ l \in blocks[f[n - 1]]
        BY <1>3, <1>8
    <2>2. L!Closer(l, r, f[n - 1])
        BY <1>3, <1>12, <2>1 DEF L!Closer, L!IsInnerLoop
    <2> QED
        BY <1>5, <1>10, <1>11, <1>12, <2>2
<1>13. CASE r # l /\ Seen(n - 1)
    <2>1. f[n - 1] = l
        BY <1>8, <1>13
    <2>2. ASSUME L!Closer(l, r, l)
          PROVE  FALSE
        <3>1. l \in blocks[r] /\ r \in blocks[l]
            BY <1>3, <1>10, <2>2 DEF L!Closer, L!IsInnerLoop, L!Around
        <3>2. number[r] <= number[l] /\ number[l] <= number[r] /\ l \in Reachable /\ r \in Reachable
            BY <1>10, <3>1 DEF BlocksLater
        <3>3. number[l] # None /\ number[l] \in Nat /\ number[r] \in Nat
            BY <1>3, <1>10, <3>2 DEF SearchedInv, LoopTypeOK
        <3>4. number[l] = number[r]
            BY <3>2, <3>3
        <3> QED
            BY <1>3, <1>10, <1>13, <3>3, <3>4 DEF SearchedInv, NumbersDistinct
    <2> QED
        BY <1>5, <1>10, <1>11, <1>13, <2>1, <2>2
<1>14. CASE r # l /\ ~Seen(n - 1)
    <2>1. f[n - 1] = None \/ l \in blocks[f[n - 1]]
        BY <1>8, <1>14
    <2>2. f[n] = None \/ l \in blocks[f[n]]
        BY <1>10, <2>1 DEF L!Closer
    <2> QED
        BY <1>5, <1>11, <1>14, <2>2
<1> QED
    BY <1>12, <1>13, <1>14

-----------------------------------------------------------------------------
(* Natural loops nest. *)

\* Of two dominators of a block one dominates the other: else there were a path around one of them.
LEMMA DominatorsAreComparable ==
    ASSUME Inv, NEW l \in Reachable, NEW m \in Reachable, NEW x \in Reachable, Dom(l, x), Dom(m, x)
    PROVE  Dom(l, m) \/ Dom(m, l)
<1> DEFINE A == ReachFrom(succs, {Start} \ {m}, DOMAIN succs \ {m})
           B == ReachFrom(succs, {Start} \ {l}, DOMAIN succs \ {l})
<1>1. SUFFICES ASSUME ~Dom(l, m), ~Dom(m, l)
               PROVE  FALSE
    OBVIOUS
<1>2. l \in A /\ m \in B /\ x \notin A /\ x \notin B
    BY <1>1 DEF Dom, DominatesIn
<1>3. /\ {Start} \ {m} \subseteq A /\ \A y \in A : succs[y] \cap (DOMAIN succs \ {m}) \subseteq A
      /\ {Start} \ {l} \subseteq B /\ \A y \in B : succs[y] \cap (DOMAIN succs \ {l}) \subseteq B
    BY ReachFromIsClosed
<1>4. l # m /\ Reachable = ReachFrom(succs, {Start}, DOMAIN succs)
    BY <1>1, EachDominatesItself DEF Reachable, ReachableIn
<1> HIDE DEF A, B
<1>5. {Start} \subseteq A \cup B
    BY <1>3, <1>4
<1>6. \A y \in A \cup B : succs[y] \cap DOMAIN succs \subseteq A \cup B
    BY <1>2, <1>3
<1>7. Reachable \subseteq A \cup B
    BY <1>4, <1>5, <1>6, ReachFromIsLeast
<1> QED
    BY <1>2, <1>7

\* The header of one of two natural loops that meet is in the other.
LEMMA NaturalLoopsMeet ==
    ASSUME Inv, LoopTypeOK, SearchedInv, LatchesInv,
           NEW l \in Range(loops), NEW m \in Range(loops), Natural(l), Natural(m), l # m, Dom(l, m),
           NEW x \in NaturalBlocks(l), x \in NaturalBlocks(m)
    PROVE  m \in NaturalBlocks(l)
<1> DEFINE A == ReachFrom(succs, {Start} \ {m}, DOMAIN succs \ {m})
           N == NaturalBlocks(l)
           T == N \ A
<1>1. SUFFICES ASSUME m \notin N
               PROVE  FALSE
    OBVIOUS
<1>2. /\ \A y \in N : y \in Reachable
      /\ \A y \in N \ {l} : Preds(y) \cap Reachable \subseteq N
      /\ l \in Reachable /\ m \in Reachable /\ x \in Reachable /\ Dom(m, x)
    BY NaturalIsClosed
<1>3. /\ {Start} \ {m} \subseteq A /\ \A y \in A : succs[y] \cap (DOMAIN succs \ {m}) \subseteq A
      /\ x \notin A
    BY <1>2, ReachFromIsClosed DEF Dom, DominatesIn
<1>4. l \in A
    <2>1. ~Dom(m, l)
        BY <1>2, EnteredAfterDominators
    <2> QED
        BY <2>1 DEF Dom, DominatesIn
<1>5. Start # m
    <2>1. Start = m => Start \in ReachFrom(succs, {Start} \ {l}, DOMAIN succs \ {l})
        BY ReachFromIsClosed
    <2> QED
        BY <2>1 DEF Dom, DominatesIn
<1>6. /\ Reachable = ReachFrom(succs, {Start}, DOMAIN succs) /\ DOMAIN succs = Blocks
      /\ \A y \in Reachable : y \in Blocks /\ succs[y] \subseteq Reachable
      /\ Start \in Reachable
    BY ReachableIsClosed DEF Reachable, ReachableIn, Inv, TypeOK
<1> HIDE DEF A, N
<1>7. ASSUME NEW y \in Reachable \ T, NEW z \in succs[y], z \in T
      PROVE  FALSE
    <2>1. z \in N /\ z \notin A /\ z # l /\ z # m /\ z \in Blocks /\ y \in Blocks
        BY <1>1, <1>4, <1>6, <1>7
    <2>2. y \in Preds(z)
        BY <1>6, <2>1 DEF Preds, PredsIn
    <2>3. y \in N
        BY <1>2, <2>1, <2>2
    <2>4. y \in A
        BY <1>7, <2>3
    <2> QED
        BY <1>3, <1>6, <1>7, <2>1, <2>4
<1>8. Reachable \subseteq Reachable \ T
    <2>1. {Start} \subseteq Reachable \ T
        BY <1>3, <1>5, <1>6
    <2>2. \A y \in Reachable \ T : succs[y] \cap DOMAIN succs \subseteq Reachable \ T
        BY <1>6, <1>7
    <2> HIDE DEF T
    <2> QED
        BY <1>6, <2>1, <2>2, ReachFromIsLeast
<1>9. x \in N
    BY DEF N
<1> QED
    BY <1>2, <1>3, <1>8, <1>9

-----------------------------------------------------------------------------
(* LoopAnalyzer: the tree of the loops. *)

\* Whatever a natural loop takes over from its inner loops was in it.
NaturalKept == \A o \in Range(loops) : Natural(o) =>
    blocks[o] = NaturalBlocks(o) /\ \A l \in Range(loops) : l \in NaturalBlocks(o) => blocks[l] \subseteq NaturalBlocks(o)

OuterInv == \A x \in Blocks : outer[x] # None =>
    x \in Range(loops) /\ outer[x] \in Range(loops) \ {x} /\ x \in blocks[outer[x]]

\* Of the loops Cands that x is in, c is in all; None if x is in none.
Smallest(c, x, Cands) ==
    IF c = None THEN \A m \in Cands : x \notin NaturalBlocks(m)
    ELSE c \in Cands /\ x \in NaturalBlocks(c) /\ \A m \in Cands : x \in NaturalBlocks(m) => c \in NaturalBlocks(m)

IsReducible == L!Reducible(succs, Start)

InnermostInv ==
    /\ \A l \in Range(loops) : innermost[l] = l
    /\ IsReducible => \A x \in Blocks : Smallest(innermost[x], x, Range(loops))

PlacedInv == IsReducible => \A i \in 1 .. Len(loops) : i < place =>
    Smallest(outer[loops[i]], loops[i], Range(loops) \ {loops[i]})

LEMMA LoopsAreBlocks ==
    ASSUME LoopTypeOK, LatchesInv, Inv
    PROVE  /\ Len(loops) \in Nat /\ DOMAIN loops = 1 .. Len(loops)
           /\ \A k \in 1 .. Len(loops) : loops[k] \in Range(loops)
           /\ \A l \in Range(loops) : /\ l \in Blocks /\ l # None /\ l \in Reachable
                                      /\ IsReducible => Natural(l)
                                      /\ \E k \in 1 .. Len(loops) : loops[k] = l
<1>1. /\ Len(loops) \in Nat /\ DOMAIN loops = 1 .. Len(loops)
      /\ \A k \in 1 .. Len(loops) : loops[k] \in Range(loops) /\ loops[k] \in Blocks
    BY DEF LoopTypeOK, Range
<1>2. \A l \in Range(loops) : \E k \in 1 .. Len(loops) : loops[k] = l
    BY <1>1 DEF Range
<1>3. ASSUME NEW l \in Range(loops)
      PROVE  l \in Blocks /\ l # None /\ l \in Reachable /\ (IsReducible => Natural(l))
    <2>1. l \in Blocks
        BY <1>1, <1>2
    <2>2. l \in Reachable /\ (IsReducible => Natural(l))
        BY DEF LatchesInv, BackEdge, IsReducible, Natural
    <2> QED
        BY <2>1, <2>2, BlocksAssumption
<1> QED
    BY <1>1, <1>2, <1>3

\* In a reducible graph the loops are ordered by what is in what.
LEMMA LoopsNest ==
    ASSUME Inv, LoopTypeOK, SearchedInv, LatchesInv, BlocksLater, NaturalKept, IsReducible,
           NEW l \in Range(loops), NEW m \in Range(loops)
    PROVE  /\ blocks[l] = NaturalBlocks(l) /\ l \in NaturalBlocks(l)
           /\ l \in NaturalBlocks(m) => NaturalBlocks(l) \subseteq NaturalBlocks(m)
           /\ l \in NaturalBlocks(m) /\ m \in NaturalBlocks(l) => l = m
           /\ \A x \in NaturalBlocks(l) \cap NaturalBlocks(m) : l \in NaturalBlocks(m) \/ m \in NaturalBlocks(l)
<1>1. Natural(l) /\ Natural(m) /\ l \in Reachable /\ m \in Reachable /\ l \in Blocks /\ m \in Blocks
    BY LoopsAreBlocks
<1>2. blocks[l] = NaturalBlocks(l) /\ blocks[m] = NaturalBlocks(m) /\ l \in NaturalBlocks(l)
    BY <1>1, NaturalIsClosed DEF NaturalKept
<1>3. l \in NaturalBlocks(m) => NaturalBlocks(l) \subseteq NaturalBlocks(m)
    BY <1>1, <1>2 DEF NaturalKept
<1>4. ASSUME l \in NaturalBlocks(m), m \in NaturalBlocks(l)
      PROVE  l = m
    <2>1. number[l] <= number[m] /\ number[m] <= number[l]
        BY <1>2, <1>4 DEF BlocksLater
    <2>2. number[l] # None /\ number[l] \in Nat /\ number[m] \in Nat
        BY <1>1 DEF SearchedInv, LoopTypeOK
    <2>3. number[l] = number[m]
        BY <2>1, <2>2
    <2> QED
        BY <1>1, <2>2, <2>3 DEF SearchedInv, NumbersDistinct
<1>5. ASSUME NEW x \in NaturalBlocks(l) \cap NaturalBlocks(m)
      PROVE  l \in NaturalBlocks(m) \/ m \in NaturalBlocks(l)
    <2>1. Dom(l, x) /\ Dom(m, x) /\ x \in Reachable
        BY <1>1, NaturalIsClosed
    <2>2. Dom(l, m) \/ Dom(m, l)
        BY <1>1, <2>1, DominatorsAreComparable
    <2> QED
        BY <1>1, <1>2, <2>2, NaturalLoopsMeet
<1> QED
    BY <1>2, <1>3, <1>4, <1>5

\* The loops around a loop were entered before it, and hold it if the graph is reducible.
LEMMA WhatIsAround ==
    ASSUME Inv, LoopTypeOK, SearchedInv, LatchesInv, BlocksLater, NaturalKept, OuterInv, NEW l \in Range(loops)
    PROVE  /\ \A m \in L!Around(l) : m \in Range(loops) /\ m # l
           /\ IsReducible => \A m \in L!Around(l) : l \in NaturalBlocks(m)
<1>1. outer \in [Blocks -> Blocks \cup {None}] /\ l \in Blocks /\ (\A x \in Range(loops) : x \in Blocks)
    BY LoopsAreBlocks DEF LoopTypeOK
<1>2. L!Around(l) = IF outer[l] = None THEN {} ELSE Chain(outer, outer[l])
    BY SameLoopGraphs DEF L!Around, L!ChainIn, Chain, ChainIn
<1>3. \A x \in Range(loops) : number[x] \in Nat /\ number[x] # None
    BY <1>1, LoopsAreBlocks DEF SearchedInv, LoopTypeOK
<1>4. ASSUME NEW x \in Blocks, outer[x] # None
      PROVE  /\ x \in Range(loops) /\ outer[x] \in Range(loops) /\ outer[x] # x /\ x \in blocks[outer[x]]
             /\ number[outer[x]] < number[x]
    <2>1. x \in Range(loops) /\ outer[x] \in Range(loops) /\ outer[x] # x /\ x \in blocks[outer[x]]
        BY <1>4 DEF OuterInv
    <2>2. number[outer[x]] <= number[x] /\ number[outer[x]] # number[x]
        BY <1>1, <1>3, <2>1 DEF BlocksLater, SearchedInv, NumbersDistinct
    <2> QED
        BY <1>3, <2>1, <2>2
<1>5. ASSUME outer[l] # None
      PROVE  \A m \in Chain(outer, outer[l]) : m \in Range(loops) /\ m # l
    <2> DEFINE R == {m \in Range(loops) : number[m] < number[l]}
    <2>1. outer[l] \in R /\ outer[l] \in Blocks
        BY <1>1, <1>4, <1>5
    <2>2. \A y \in R : y \in Blocks /\ outer[y] # None => outer[y] \in R
        BY <1>3, <1>4
    <2>3. l \notin R
        BY <1>3
    <2> HIDE DEF R
    <2>4. Chain(outer, outer[l]) \subseteq R
        BY <1>1, <2>1, <2>2, ChainIsLeast
    <2> QED
        BY <2>3, <2>4 DEF R
<1>6. ASSUME outer[l] # None, IsReducible
      PROVE  \A m \in Chain(outer, outer[l]) : l \in NaturalBlocks(m)
    <2> DEFINE R == {m \in Range(loops) : l \in NaturalBlocks(m)}
    <2>1. \A m \in Range(loops) : blocks[m] = NaturalBlocks(m)
        BY <1>6, LoopsNest
    <2>2. outer[l] \in R /\ outer[l] \in Blocks
        BY <1>1, <1>4, <1>6, <2>1
    <2>3. ASSUME NEW y \in R, y \in Blocks, outer[y] # None
          PROVE  outer[y] \in R
        <3>1. y \in Range(loops) /\ outer[y] \in Range(loops) /\ y \in NaturalBlocks(outer[y])
            BY <1>4, <2>1, <2>3
        <3>2. NaturalBlocks(y) \subseteq NaturalBlocks(outer[y])
            BY <1>6, <3>1, LoopsNest
        <3> QED
            BY <2>3, <3>1, <3>2
    <2> HIDE DEF R
    <2>4. Chain(outer, outer[l]) \subseteq R
        BY <1>1, <2>2, <2>3, ChainIsLeast
    <2> QED
        BY <2>4 DEF R
<1> QED
    BY <1>2, <1>5, <1>6

NestInv == SearchedInv /\ LatchesInv /\ BlocksLater /\ NaturalKept /\ OuterInv

\* In a reducible graph the scan finds the smallest of the candidates that the block is in.
LEMMA ClosestIsSmallest ==
    ASSUME Inv, LoopTypeOK, NestInv, IsReducible, NEW x, NEW Cands \in SUBSET Range(loops)
    PROVE  Smallest(L!Closest(x, Cands), x, Cands)
<1>1. PICK f : /\ L!Closest(x, Cands) = f[Len(loops)]
               /\ f[0] = None
               /\ \A k \in 1 .. Len(loops) : f[k] = Step(x, Cands, k, f[k - 1])
    BY ClosestIsScan
<1> DEFINE Seen(k) == {m \in Cands : \E j \in 1 .. k : loops[j] = m}
           T == {k \in 0 .. Len(loops) : ~Smallest(f[k], x, Seen(k))}
<1>2. /\ Len(loops) \in Nat /\ DOMAIN loops = 1 .. Len(loops)
      /\ \A k \in 1 .. Len(loops) : loops[k] \in Range(loops)
      /\ \A l \in Range(loops) : l # None /\ \E k \in 1 .. Len(loops) : loops[k] = l
    BY LoopsAreBlocks DEF NestInv
<1>3. Seen(Len(loops)) = Cands
    BY <1>2
<1>4. SUFFICES ASSUME T # {}
               PROVE  FALSE
    <2>1. Len(loops) \in 0 .. Len(loops)
        BY <1>2
    <2>2. Smallest(f[Len(loops)], x, Seen(Len(loops)))
        BY <1>4, <2>1
    <2> QED
        BY <1>1, <1>3, <2>2
<1>5. PICK n \in T : \A m \in T : n <= m
    <2>1. T \in SUBSET Nat
        BY <1>2
    <2> QED
        BY <1>4, <2>1, LeastNumber
<1>6. n # 0
    <2>1. Seen(0) = {}
        OBVIOUS
    <2>2. Smallest(f[0], x, {})
        BY <1>1 DEF Smallest
    <2> QED
        BY <1>5, <2>1, <2>2
<1>7. n \in 1 .. Len(loops) /\ n - 1 \in 0 .. Len(loops) /\ n - 1 < n /\ n \in Nat
    BY <1>2, <1>5, <1>6
<1>8. PICK l, best, S : l = loops[n] /\ best = f[n - 1] /\ S = Seen(n - 1)
    OBVIOUS
<1>9. Smallest(best, x, S)
    <2>1. n - 1 \notin T
        BY <1>5, <1>7
    <2>2. Smallest(f[n - 1], x, Seen(n - 1))
        BY <1>7, <2>1
    <2> HIDE DEF Seen
    <2> QED
        BY <1>8, <2>2
<1>10. /\ f[n] = IF l \in Cands /\ L!Closer(x, l, best) THEN l ELSE best
       /\ l \in Range(loops) /\ l # None /\ S \subseteq Range(loops)
    BY <1>1, <1>2, <1>7, <1>8 DEF Step
<1>11. Seen(n) = S \cup ({l} \cap Cands)
    <2>1. \A j \in 1 .. n : j \in 1 .. n - 1 \/ j = n
        BY <1>7
    <2>2. n \in 1 .. n /\ \A j \in 1 .. n - 1 : j \in 1 .. n
        BY <1>7
    <2> QED
        BY <1>8, <2>1, <2>2
<1> HIDE DEF Seen
<1>12. blocks[l] = NaturalBlocks(l) /\ l \in NaturalBlocks(l)
    BY <1>10, LoopsNest DEF NestInv
<1>13. CASE l \notin Cands \/ x \notin NaturalBlocks(l)
    <2>1. f[n] = best
        BY <1>10, <1>12, <1>13 DEF L!Closer
    <2>2. Smallest(best, x, S \cup ({l} \cap Cands))
        BY <1>9, <1>13 DEF Smallest
    <2> QED
        BY <1>5, <1>11, <2>1, <2>2
<1>14. CASE l \in Cands /\ x \in NaturalBlocks(l) /\ best = None
    <2>1. f[n] = l
        BY <1>10, <1>12, <1>14 DEF L!Closer
    <2>2. Smallest(l, x, S \cup ({l} \cap Cands))
        BY <1>9, <1>10, <1>12, <1>14 DEF Smallest
    <2> QED
        BY <1>5, <1>11, <2>1, <2>2
<1>15. CASE l \in Cands /\ x \in NaturalBlocks(l) /\ best # None
    <2>1. /\ best \in S /\ best \in Range(loops) /\ x \in NaturalBlocks(best)
          /\ \A m \in S : x \in NaturalBlocks(m) => best \in NaturalBlocks(m)
        BY <1>9, <1>10, <1>15 DEF Smallest
    <2>2. blocks[best] = NaturalBlocks(best)
        BY <2>1, LoopsNest DEF NestInv
    <2>3. l \in NaturalBlocks(best) \/ best \in NaturalBlocks(l)
        BY <1>10, <1>15, <2>1, LoopsNest DEF NestInv
    <2>4. best \in L!Around(l) => l \in NaturalBlocks(best)
        BY <1>10, WhatIsAround DEF NestInv
    <2>5. L!Closer(x, l, best) <=> l \in NaturalBlocks(best)
        BY <1>12, <1>15, <2>2, <2>4 DEF L!Closer, L!IsInnerLoop
    <2>6. CASE l \in NaturalBlocks(best)
        <3>1. \A m \in S : x \in NaturalBlocks(m) => l \in NaturalBlocks(m)
            <4> SUFFICES ASSUME NEW m \in S, x \in NaturalBlocks(m)
                         PROVE  l \in NaturalBlocks(m)
                OBVIOUS
            <4>1. best \in NaturalBlocks(m) /\ m \in Range(loops)
                BY <1>10, <2>1
            <4>2. NaturalBlocks(best) \subseteq NaturalBlocks(m)
                BY <2>1, <4>1, LoopsNest DEF NestInv
            <4> QED
                BY <2>6, <4>2
        <3>2. Smallest(l, x, S \cup ({l} \cap Cands))
            BY <1>10, <1>12, <1>15, <3>1 DEF Smallest
        <3> QED
            BY <1>5, <1>10, <1>11, <1>15, <2>5, <2>6, <3>2
    <2>7. CASE l \notin NaturalBlocks(best)
        <3>1. Smallest(best, x, S \cup ({l} \cap Cands))
            BY <1>15, <2>1, <2>3, <2>7 DEF Smallest
        <3> QED
            BY <1>5, <1>10, <1>11, <2>5, <2>7, <3>1
    <2> QED
        BY <2>6, <2>7
<1> QED
    BY <1>13, <1>14, <1>15

\* When all loops are placed, the loops around a loop are all it is in.
LEMMA AroundIsAll ==
    ASSUME Inv, LoopTypeOK, NestInv, IsReducible, PlacedInv, place > Len(loops), NEW l \in Range(loops)
    PROVE  L!Around(l) = {m \in Range(loops) \ {l} : l \in NaturalBlocks(m)}
<1>1. L!Around(l) \subseteq {m \in Range(loops) \ {l} : l \in NaturalBlocks(m)}
    BY WhatIsAround DEF NestInv
<1>2. /\ outer \in [Blocks -> Blocks \cup {None}]
      /\ \A m \in Range(loops) : /\ m \in Blocks /\ m # None
                                 /\ number[m] \in Nat /\ \E k \in 1 .. Len(loops) : loops[k] = m
    BY LoopsAreBlocks DEF NestInv, SearchedInv, LoopTypeOK
<1>3. \A m \in Range(loops) : Smallest(outer[m], m, Range(loops) \ {m})
    <2> SUFFICES ASSUME NEW m \in Range(loops)
                 PROVE  Smallest(outer[m], m, Range(loops) \ {m})
        OBVIOUS
    <2>1. PICK k \in 1 .. Len(loops) : loops[k] = m
        BY <1>2
    <2>2. k < place
        BY LoopsAreBlocks DEF LoopTypeOK, NestInv
    <2> QED
        BY <2>1, <2>2 DEF PlacedInv
<1>4. ASSUME NEW m \in Range(loops) \ {l}, l \in NaturalBlocks(m), m \notin L!Around(l)
      PROVE  FALSE
    <2> DEFINE A == {k \in Range(loops) : (k = l \/ k \in L!Around(l)) /\ k \in NaturalBlocks(m)}
               T == {number[k] : k \in A}
    <2>1. l \in A
        BY <1>4
    <2>2. T \in SUBSET Nat /\ T # {}
        BY <1>2, <2>1
    <2>3. PICK k \in A : \A j \in A : number[k] <= number[j]
        <3>1. PICK n \in T : \A j \in T : n <= j
            BY <2>2, LeastNumber
        <3> QED
            BY <3>1
    <2>4. k # m /\ k \in Range(loops) /\ k \in NaturalBlocks(m)
        BY <1>4, <2>3
    <2>5. Smallest(outer[k], k, Range(loops) \ {k}) /\ k \in Blocks
        BY <1>2, <1>3, <2>4
    <2>6. /\ outer[k] # None /\ outer[k] \in Range(loops) \ {k}
          /\ k \in NaturalBlocks(outer[k]) /\ outer[k] \in NaturalBlocks(m)
        BY <2>4, <2>5 DEF Smallest
    <2>7. outer[k] \in L!Around(l)
        <3>1. \A z : L!Around(z) = IF outer[z] = None THEN {} ELSE Chain(outer, outer[z])
            BY SameLoopGraphs DEF L!Around, L!ChainIn, Chain, ChainIn
        <3>2. CASE k = l
            BY <1>2, <2>6, <3>1, <3>2, ChainIsClosed
        <3>3. CASE k \in L!Around(l)
            BY <1>2, <2>5, <2>6, <3>1, <3>3, ChainIsClosed
        <3> QED
            BY <2>3, <3>2, <3>3
    <2>8. number[k] <= number[outer[k]]
        BY <2>3, <2>6, <2>7
    <2>9. outer[k] \in NaturalBlocks(k)
        <3>1. blocks[outer[k]] = NaturalBlocks(outer[k])
            BY <2>6, LoopsNest DEF NestInv
        <3>2. number[outer[k]] <= number[k]
            BY <2>6, <3>1 DEF NestInv, BlocksLater
        <3>3. number[outer[k]] = number[k] /\ number[k] # None
            BY <1>2, <2>4, <2>6, <2>8, <3>2, NumbersAssumption
        <3> QED
            BY <1>2, <2>4, <2>6, <3>3 DEF NestInv, SearchedInv, NumbersDistinct
    <2> QED
        BY <2>4, <2>6, <2>9, LoopsNest DEF NestInv
<1> QED
    BY <1>1, <1>4

\* The loops that are found stay as they are while the tree is built.
LEMMA LoopsUnchanged ==
    ASSUME UNCHANGED vars, UNCHANGED <<number, loops, latches, reducible>>
    PROVE  /\ SearchedInv' <=> SearchedInv
           /\ IsReducible' <=> IsReducible
           /\ \A x, l : BackEdge(x, l)' <=> BackEdge(x, l)
           /\ \A l : Natural(l)' <=> Natural(l)
           /\ \A l : NaturalBlocks(l)' = NaturalBlocks(l)
           /\ \A c, x, Cands : Smallest(c, x, Cands)' <=> Smallest(c, x, Cands)
<1>1. UNCHANGED <<succs, order, idom, pc>> /\ Reachable' = Reachable
      /\ (\A d, w : Dom(d, w)' <=> Dom(d, w))
      /\ (\A w : StrictDominators(w)' = StrictDominators(w))
      /\ (\A w : Preds(w)' = Preds(w))
    BY GraphUnchanged
<1>2. SearchedInv' <=> SearchedInv
    BY <1>1 DEF SearchedInv, DominatorsFirst, NumbersDistinct
<1>3. IsReducible' <=> IsReducible
    BY <1>1 DEF IsReducible
<1>4. \A x, l : BackEdge(x, l)' <=> BackEdge(x, l)
    BY <1>1, <1>3 DEF BackEdge, IsReducible
<1>5. \A l : Natural(l)' <=> Natural(l)
    BY <1>1 DEF Natural
<1>6. \A l : NaturalBlocks(l)' = NaturalBlocks(l)
    <2>1. \A l : Backwards(l)' = Backwards(l)
        BY <1>1 DEF Backwards
    <2> QED
        BY <1>1, <2>1 DEF NaturalBlocks
<1>7. \A c, x, Cands : Smallest(c, x, Cands)' <=> Smallest(c, x, Cands)
    BY <1>6 DEF Smallest
<1> QED
    BY <1>2, <1>3, <1>4, <1>5, <1>6, <1>7

\* The tree is begun with natural loops as they should be.
LEMMA PlaceBlocksInv ==
    ASSUME Inv, pc = "done", LoopTypeOK, SearchedInv, LatchesInv, BlocksInv, place = 1,
           \A x \in Blocks : outer[x] = None, L!PlaceBlocks, UNCHANGED vars
    PROVE  LoopTypeOK' /\ NestInv' /\ InnermostInv' /\ PlacedInv'
<1>1. /\ innermost' = [x \in Blocks |-> L!Closest(x, Range(loops))] /\ stage' = "tree"
      /\ UNCHANGED <<calls, left, counter, number, exit, backEdges, loops, reducible, latches, blocks, outer, place>>
    BY SameLoopGraphs DEF L!PlaceBlocks, L!search, L!found
<1>2. LoopTypeOK'
    BY <1>1 DEF LoopTypeOK
<1>3. BlocksLater
    BY BlocksAreLater
<1>4. NaturalKept
    BY NaturalBlocksAreFound, NaturalHoldsInner DEF NaturalKept
<1>5. OuterInv
    BY DEF OuterInv
<1>6. NestInv
    BY <1>3, <1>4, <1>5 DEF NestInv
<1>7. /\ SearchedInv' <=> SearchedInv
      /\ IsReducible' <=> IsReducible
      /\ \A x, l : BackEdge(x, l)' <=> BackEdge(x, l)
      /\ \A l : Natural(l)' <=> Natural(l)
      /\ \A l : NaturalBlocks(l)' = NaturalBlocks(l)
      /\ \A c, x, Cands : Smallest(c, x, Cands)' <=> Smallest(c, x, Cands)
    BY <1>1, LoopsUnchanged
<1>8. /\ UNCHANGED <<succs, order, idom, pc>> /\ Reachable' = Reachable
      /\ \A d, w : Dom(d, w)' <=> Dom(d, w)
    BY GraphUnchanged
<1>9. LatchesInv' /\ BlocksLater' /\ NaturalKept' /\ OuterInv'
    <2>1. LatchesInv'
        BY <1>1, <1>7, <1>8 DEF LatchesInv
    <2>2. BlocksLater'
        BY <1>1, <1>3, <1>8 DEF BlocksLater
    <2>3. NaturalKept'
        BY <1>1, <1>4, <1>7 DEF NaturalKept
    <2>4. OuterInv'
        BY <1>1, <1>5 DEF OuterInv
    <2> QED
        BY <2>1, <2>2, <2>3, <2>4
<1>10. NestInv'
    BY <1>7, <1>9 DEF NestInv
<1>11. \A l \in Range(loops) : l \in Blocks /\ L!Closest(l, Range(loops)) = l
    BY <1>3, ClosestOfHeader, LoopsAreBlocks
<1>12. IsReducible => \A x \in Blocks : Smallest(L!Closest(x, Range(loops)), x, Range(loops))
    BY <1>6, ClosestIsSmallest
<1>13. InnermostInv'
    BY <1>1, <1>7, <1>11, <1>12 DEF InnermostInv
<1>14. PlacedInv'
    <2>1. \A i \in 1 .. Len(loops) : ~(i < 1)
        BY DEF LoopTypeOK
    <2> QED
        BY <1>1, <2>1 DEF PlacedInv
<1> QED
    BY <1>2, <1>10, <1>13, <1>14

\* An outer loop takes over blocks that a natural loop, itself or around it, has already.
LEMMA PlaceLoopInv ==
    ASSUME Inv, pc = "done", LoopTypeOK, NestInv, InnermostInv, PlacedInv, L!PlaceLoop, UNCHANGED vars
    PROVE  LoopTypeOK' /\ NestInv' /\ InnermostInv' /\ PlacedInv'
<1>1. PICK l, o : l = loops[place] /\ o = L!Closest(l, Range(loops) \ {l})
    OBVIOUS
<1>2. /\ place <= Len(loops) /\ place' = place + 1
      /\ outer' = [outer EXCEPT ![l] = o]
      /\ blocks' = IF o = None THEN blocks ELSE [blocks EXCEPT ![o] = @ \cup blocks[l]]
      /\ UNCHANGED <<stage, calls, left, counter, number, exit, backEdges, loops, reducible, latches, innermost>>
    BY <1>1, SameLoopGraphs DEF L!PlaceLoop, L!search
<1>3. /\ place \in Nat /\ place \in 1 .. Len(loops) /\ Len(loops) \in Nat
      /\ l \in Range(loops) /\ l \in Blocks
      /\ \A k \in 1 .. Len(loops) : loops[k] \in Blocks
      /\ \A m \in Range(loops) : m \in Blocks /\ m # None
    BY <1>1, <1>2, LoopsAreBlocks DEF NestInv, LoopTypeOK
<1>4. o = None \/ (o \in Range(loops) \ {l} /\ l \in blocks[o])
    BY <1>1, ClosestIsCandidate
<1>5. outer \in [Blocks -> Blocks \cup {None}] /\ blocks \in [Blocks -> SUBSET Blocks]
    BY DEF LoopTypeOK
<1>6. outer'[l] = o /\ (\A x \in Blocks \ {l} : outer'[x] = outer[x]) /\ outer' \in [Blocks -> Blocks \cup {None}]
    BY <1>2, <1>3, <1>4, <1>5
<1>7. /\ \A x \in Blocks : x # o => blocks'[x] = blocks[x]
      /\ o # None => blocks'[o] = blocks[o] \cup blocks[l]
      /\ blocks' \in [Blocks -> SUBSET Blocks]
    <2>1. CASE o = None
        BY <1>2, <1>5, <2>1
    <2>2. CASE o # None
        <3>1. o \in Blocks /\ blocks' = [blocks EXCEPT ![o] = @ \cup blocks[l]]
            BY <1>2, <1>3, <1>4, <2>2
        <3> QED
            BY <1>3, <1>5, <3>1
    <2> QED
        BY <2>1, <2>2
<1>8. LoopTypeOK'
    <2>1. place' \in Nat \ {0}
        BY <1>2, <1>3
    <2> QED
        BY <1>2, <1>6, <1>7, <2>1 DEF LoopTypeOK
<1>9. /\ SearchedInv' <=> SearchedInv
      /\ IsReducible' <=> IsReducible
      /\ \A x, m : BackEdge(x, m)' <=> BackEdge(x, m)
      /\ \A m : Natural(m)' <=> Natural(m)
      /\ \A m : NaturalBlocks(m)' = NaturalBlocks(m)
      /\ \A c, x, Cands : Smallest(c, x, Cands)' <=> Smallest(c, x, Cands)
    BY <1>2, LoopsUnchanged
<1>10. /\ UNCHANGED <<succs, order, idom, pc>> /\ Reachable' = Reachable
       /\ \A d, w : Dom(d, w)' <=> Dom(d, w)
    BY GraphUnchanged
<1>11. LatchesInv'
    BY <1>2, <1>3, <1>4, <1>7, <1>9, <1>10 DEF NestInv, LatchesInv
<1>12. BlocksLater'
    <2>1. ASSUME NEW m \in Range(loops)
          PROVE  m \in blocks'[m] /\ \A x \in blocks'[m] : x \in Reachable /\ number[m] <= number[x]
        <3>1. CASE m # o
            BY <1>3, <1>7, <3>1 DEF NestInv, BlocksLater
        <3>2. CASE m = o
            <4>1. o # None /\ l \in blocks[o] /\ blocks'[o] = blocks[o] \cup blocks[l]
                BY <1>3, <1>4, <1>7, <3>2
            <4>2. l \in Reachable /\ number[o] <= number[l] /\ o \in Reachable /\ o \in Blocks
                BY <1>3, <3>2, <4>1 DEF NestInv, BlocksLater
            <4>3. \A x \in Reachable : number[x] \in Nat
                BY ReachableIsClosed DEF NestInv, SearchedInv, LoopTypeOK, Inv
            <4>4. \A x \in blocks[l] : x \in Reachable /\ number[o] <= number[x]
                BY <1>3, <4>2, <4>3 DEF NestInv, BlocksLater
            <4> QED
                BY <3>2, <4>1, <4>4 DEF NestInv, BlocksLater
        <3> QED
            BY <3>1, <3>2
    <2> QED
        BY <1>2, <1>10, <2>1 DEF BlocksLater
<1>13. NaturalKept'
    <2>1. ASSUME NEW m \in Range(loops), Natural(m), NEW k \in Range(loops), k \in NaturalBlocks(m)
          PROVE  blocks'[k] \subseteq NaturalBlocks(m)
        <3>1. blocks[k] \subseteq NaturalBlocks(m)
            BY <2>1 DEF NestInv, NaturalKept
        <3>2. CASE k = o
            <4>1. o # None /\ l \in blocks[o] /\ blocks'[o] = blocks[o] \cup blocks[l]
                BY <1>3, <1>4, <1>7, <3>2
            <4>2. blocks[l] \subseteq NaturalBlocks(m)
                BY <1>3, <2>1, <3>1, <3>2, <4>1 DEF NestInv, NaturalKept
            <4> QED
                BY <3>1, <3>2, <4>1, <4>2
        <3>3. CASE k # o
            BY <1>3, <1>7, <3>1, <3>3
        <3> QED
            BY <3>2, <3>3
    <2>2. ASSUME NEW m \in Range(loops), Natural(m)
          PROVE  blocks'[m] = NaturalBlocks(m)
        <3>1. blocks[m] = NaturalBlocks(m) /\ m \in NaturalBlocks(m)
            BY <2>2, NaturalIsClosed DEF NestInv, NaturalKept
        <3>2. blocks'[m] \subseteq NaturalBlocks(m)
            BY <2>1, <2>2, <3>1
        <3>3. blocks[m] \subseteq blocks'[m]
            <4>1. m \in Blocks /\ m # None
                BY <1>3, <2>2
            <4>2. CASE m = o
                BY <1>7, <4>1, <4>2
            <4>3. CASE m # o
                BY <1>7, <4>1, <4>3
            <4> QED
                BY <4>2, <4>3
        <3> QED
            BY <3>1, <3>2, <3>3
    <2> QED
        BY <1>2, <1>9, <2>1, <2>2 DEF NaturalKept
<1>14. OuterInv'
    <2>1. \A x \in Blocks : blocks[x] \subseteq blocks'[x]
        <3> SUFFICES ASSUME NEW x \in Blocks
                     PROVE  blocks[x] \subseteq blocks'[x]
            OBVIOUS
        <3>1. CASE x = o
            BY <1>7, <3>1, BlocksAssumption
        <3>2. CASE x # o
            BY <1>7, <3>2
        <3> QED
            BY <3>1, <3>2
    <2>2. ASSUME NEW x \in Blocks, outer'[x] # None
          PROVE  x \in Range(loops) /\ outer'[x] \in Range(loops) \ {x} /\ x \in blocks'[outer'[x]]
        <3>1. CASE x = l
            BY <1>3, <1>4, <1>6, <2>1, <2>2, <3>1
        <3>2. CASE x # l
            <4>1. outer[x] # None /\ outer'[x] = outer[x]
                BY <1>6, <2>2, <3>2
            <4>2. x \in Range(loops) /\ outer[x] \in Range(loops) \ {x} /\ x \in blocks[outer[x]]
                BY <4>1 DEF NestInv, OuterInv
            <4> QED
                BY <1>3, <2>1, <4>1, <4>2
        <3> QED
            BY <3>1, <3>2
    <2> QED
        BY <1>2, <2>2 DEF OuterInv
<1>15. NestInv'
    BY <1>9, <1>11, <1>12, <1>13, <1>14 DEF NestInv
<1>16. InnermostInv'
    BY <1>2, <1>9 DEF InnermostInv
<1>17. PlacedInv'
    <2>1. ASSUME IsReducible, NEW i \in 1 .. Len(loops), i < place + 1
          PROVE  Smallest(outer'[loops[i]], loops[i], Range(loops) \ {loops[i]})
        <3>1. CASE loops[i] = l
            <4>1. Smallest(o, l, Range(loops) \ {l})
                BY <1>1, <2>1, ClosestIsSmallest
            <4> QED
                BY <1>6, <3>1, <4>1
        <3>2. CASE loops[i] # l
            <4>1. i < place /\ loops[i] \in Blocks
                BY <1>1, <1>3, <2>1, <3>2
            <4>2. Smallest(outer[loops[i]], loops[i], Range(loops) \ {loops[i]})
                BY <2>1, <4>1 DEF PlacedInv
            <4> QED
                BY <1>6, <3>2, <4>1, <4>2
        <3> QED
            BY <3>1, <3>2
    <2> QED
        BY <1>2, <1>9, <2>1 DEF PlacedInv
<1> QED
    BY <1>8, <1>15, <1>16, <1>17

-----------------------------------------------------------------------------
(* LoopAnalyzer: the whole of Analyze. *)

DfsInv == calls # <<>> /\ CutInv /\ NoLoopYet /\ place = 1

PopulateInv ==
    /\ calls = <<>> /\ place = 1 /\ \A x \in Blocks : outer[x] = None
    /\ loops = <<>> => CutInv /\ NoLoopYet
    /\ loops # <<>> => SearchedInv /\ RemainingInv /\ LatchesInv /\ BlocksInv

TreeStageInv == NestInv /\ InnermostInv /\ PlacedInv

CountedInv == \A l \in Range(loops) : countable[l] => L!Countable(l)

LoopsInv ==
    /\ LoopTypeOK
    /\ stage # "idle" => pc = "done"
    /\ stage = "idle" => Untouched
    /\ stage = "dfs" => DfsInv
    /\ stage = "populate" => PopulateInv
    /\ stage \in {"tree", "classify", "done"} => TreeStageInv
    /\ stage \in {"classify", "done"} => place > Len(loops)
    /\ stage = "done" => CountedInv

LEMMA LoopsInitInv == L!Init => LoopsInv
<1> SUFFICES ASSUME L!Init
             PROVE  LoopsInv
    OBVIOUS
<1>1. LoopTypeOK
    BY DEF L!Init, LoopTypeOK
<1>2. Untouched
    BY DEF L!Init, Untouched
<1>3. stage = "idle"
    BY DEF L!Init
<1> QED
    BY <1>1, <1>2, <1>3 DEF LoopsInv

LEMMA TreeStageUnchanged ==
    ASSUME UNCHANGED vars, TreeStageInv,
           UNCHANGED <<number, loops, latches, reducible, blocks, outer, innermost, place>>
    PROVE  TreeStageInv'
<1>1. /\ SearchedInv' <=> SearchedInv
      /\ IsReducible' <=> IsReducible
      /\ \A x, l : BackEdge(x, l)' <=> BackEdge(x, l)
      /\ \A l : Natural(l)' <=> Natural(l)
      /\ \A l : NaturalBlocks(l)' = NaturalBlocks(l)
      /\ \A c, x, Cands : Smallest(c, x, Cands)' <=> Smallest(c, x, Cands)
    BY LoopsUnchanged
<1>2. /\ UNCHANGED <<succs, order, idom, pc>> /\ Reachable' = Reachable
      /\ \A d, w : Dom(d, w)' <=> Dom(d, w)
    BY GraphUnchanged
<1>3. LatchesInv'
    BY <1>1, <1>2 DEF TreeStageInv, NestInv, LatchesInv
<1>4. BlocksLater' /\ NaturalKept' /\ OuterInv'
    BY <1>1, <1>2 DEF TreeStageInv, NestInv, BlocksLater, NaturalKept, OuterInv
<1>5. InnermostInv' /\ PlacedInv'
    BY <1>1 DEF TreeStageInv, InnermostInv, PlacedInv
<1> QED
    BY <1>1, <1>3, <1>4, <1>5 DEF TreeStageInv, NestInv

LEMMA LoopsInvUnchanged ==
    ASSUME LoopsInv, UNCHANGED vars, UNCHANGED loopVars
    PROVE  LoopsInv'
<1>1. UNCHANGED <<stage, calls, left, counter, number, exit, backEdges, loops, reducible, latches, blocks,
                  outer, countable, innermost, place>>
    BY DEF loopVars
<1>2. UNCHANGED <<succs, order, idom, pc>> /\ Reachable' = Reachable
      /\ (\A d, w : Dom(d, w)' <=> Dom(d, w))
      /\ (\A w : StrictDominators(w)' = StrictDominators(w))
      /\ (\A w : Preds(w)' = Preds(w))
    BY GraphUnchanged
<1>3. LoopTypeOK' /\ (Untouched' <=> Untouched) /\ (NoLoopYet' <=> NoLoopYet)
    BY <1>1 DEF LoopsInv, LoopTypeOK, Untouched, NoLoopYet
<1>4. Forward' = Forward
    BY <1>1, <1>2 DEF Forward
<1>5. CutInv' <=> CutInv
    <2>1. CallsInv' <=> CallsInv
        BY <1>1, <1>2, <1>4 DEF CallsInv
    <2>2. LeftInv' <=> LeftInv
        BY <1>1, <1>2 DEF LeftInv
    <2>3. ForwardInv' <=> ForwardInv
        BY <1>1, <1>4 DEF ForwardInv
    <2>4. BackInv' <=> BackInv
        BY <1>1, <1>2, <1>4 DEF BackInv
    <2>5. (DominatorsFirst' <=> DominatorsFirst) /\ (NumbersDistinct' <=> NumbersDistinct)
        BY <1>1, <1>2 DEF DominatorsFirst, NumbersDistinct
    <2> QED
        BY <2>1, <2>2, <2>3, <2>4, <2>5 DEF CutInv
<1>6. /\ SearchedInv' <=> SearchedInv
      /\ \A x, l : BackEdge(x, l)' <=> BackEdge(x, l)
    BY <1>1, LoopsUnchanged
<1>7. (RemainingInv' <=> RemainingInv) /\ (LatchesInv' <=> LatchesInv)
    <2>1. RemainingInv' <=> RemainingInv
        BY <1>1, <1>6 DEF RemainingInv
    <2>2. LatchesInv' <=> LatchesInv
        BY <1>1, <1>2, <1>6 DEF LatchesInv
    <2> QED
        BY <2>1, <2>2
<1>8. BlocksInv' <=> BlocksInv
    <2>1. \A l : Backwards(l)' = Backwards(l)
        BY <1>2 DEF Backwards
    <2>2. \A l, r : Joined(l, r)' = Joined(l, r)
        BY <1>1, <1>2 DEF Joined, L!Joins, L!Dominates, L!IsDescendant, L!Visited
    <2> QED
        BY <1>1, <2>1, <2>2 DEF BlocksInv
<1>9. (DfsInv' <=> DfsInv) /\ (PopulateInv' <=> PopulateInv)
    BY <1>1, <1>3, <1>5, <1>6, <1>7, <1>8 DEF DfsInv, PopulateInv
<1>10. TreeStageInv => TreeStageInv'
    BY <1>1, TreeStageUnchanged
<1>11. CountedInv' <=> CountedInv
    BY <1>1 DEF CountedInv, L!Countable
<1> QED
    BY <1>1, <1>2, <1>3, <1>9, <1>10, <1>11 DEF LoopsInv

\* The steps of CollectBackEdges.
LEMMA SearchStepsInv ==
    ASSUME Inv, LoopsInv, pc = "done", UNCHANGED vars,
           L!CollectBackEdges \/ L!MeetOpen \/ L!MeetClosed \/ L!MarkDFS \/ L!Return
    PROVE  LoopsInv'
<1>1. pc' = "done" /\ LoopTypeOK
    BY DEF vars, LoopsInv
<1>2. CASE L!CollectBackEdges
    <2>1. Untouched /\ stage' = "dfs" /\ UNCHANGED <<loops, latches, blocks, outer, place>>
        BY <1>2 DEF L!CollectBackEdges, L!found, L!tree, LoopsInv
    <2>2. LoopTypeOK' /\ CutInv' /\ calls' # <<>>
        BY <1>1, <1>2, <2>1, CollectBackEdgesInv
    <2>3. NoLoopYet' /\ place' = 1
        BY <2>1 DEF Untouched, NoLoopYet
    <2> QED
        BY <1>1, <2>1, <2>2, <2>3 DEF LoopsInv, DfsInv
<1>3. ASSUME stage = "dfs"
      PROVE  calls # <<>> /\ CutInv /\ NoLoopYet /\ place = 1
    BY <1>3 DEF LoopsInv, DfsInv
<1>4. CASE L!MeetOpen \/ L!MeetClosed \/ L!MarkDFS
    <2>1. stage = "dfs" /\ UNCHANGED <<stage, loops, latches, blocks, outer, place>>
        BY <1>4 DEF L!MeetOpen, L!MeetClosed, L!MarkDFS, L!LookAt, L!found, L!tree
    <2>2. calls' # <<>>
        <3>1. CASE UNCHANGED calls
            BY <1>3, <2>1, <3>1
        <3>2. CASE L!MarkDFS
            <4>1. PICK x \in Blocks : calls' = Append(calls, x)
                BY <3>2 DEF L!MarkDFS
            <4>2. calls \in Seq(Blocks)
                BY <1>1 DEF LoopTypeOK
            <4> QED
                BY <4>1, <4>2
        <3> QED
            BY <1>4, <3>1, <3>2 DEF L!MeetOpen, L!MeetClosed
    <2>3. LoopTypeOK' /\ CutInv'
        BY <1>1, <1>3, <1>4, <2>1, MeetOpenInv, MeetClosedInv, MarkDFSInv
    <2>4. NoLoopYet' /\ place' = 1
        BY <1>3, <2>1 DEF NoLoopYet
    <2> QED
        BY <1>1, <2>1, <2>2, <2>3, <2>4 DEF LoopsInv, DfsInv
<1>5. CASE L!Return
    <2>1. stage = "dfs" /\ UNCHANGED <<loops, latches, blocks, outer, place>>
        BY <1>5 DEF L!Return, L!found, L!tree
    <2>2. LoopTypeOK' /\ CutInv' /\ (calls' = <<>> <=> stage' = "populate") /\ stage' \in {"dfs", "populate"}
        BY <1>1, <1>3, <1>5, <2>1, ReturnInv
    <2>3. NoLoopYet' /\ place' = 1 /\ loops' = <<>> /\ \A x \in Blocks : outer'[x] = None
        BY <1>3, <2>1 DEF NoLoopYet
    <2> QED
        BY <1>1, <2>2, <2>3 DEF LoopsInv, DfsInv, PopulateInv
<1> QED
    BY <1>2, <1>4, <1>5

LEMMA PopulateHas ==
    ASSUME Inv, LoopTypeOK, PopulateInv
    PROVE  SearchedInv /\ RemainingInv /\ LatchesInv /\ BlocksInv
BY SearchHandsOn DEF PopulateInv

\* The steps of PopulateLoops, BuildLoopTree and ClassifyLoops.
LEMMA LoopStepsInv ==
    ASSUME Inv, LoopsInv, pc = "done", UNCHANGED vars,
           L!PopulateLoop \/ L!PlaceBlocks \/ L!PlaceLoop \/ L!EndTree \/ L!ClassifyLoops
    PROVE  LoopsInv'
<1>1. pc' = "done" /\ LoopTypeOK
    BY DEF vars, LoopsInv
<1>2. CASE L!PopulateLoop
    <2>1. stage = "populate" /\ UNCHANGED <<stage, calls, outer, place>>
        BY <1>2 DEF L!PopulateLoop, L!tree
    <2>2. PopulateInv
        BY <2>1 DEF LoopsInv
    <2>3. LoopTypeOK' /\ SearchedInv' /\ RemainingInv' /\ LatchesInv' /\ BlocksInv' /\ loops' # <<>>
        BY <1>1, <1>2, <2>2, PopulateHas, PopulateLoopInv
    <2>4. PopulateInv'
        BY <2>1, <2>2, <2>3 DEF PopulateInv
    <2> QED
        BY <1>1, <2>1, <2>3, <2>4 DEF LoopsInv
<1>3. CASE L!PlaceBlocks
    <2>1. stage = "populate" /\ stage' = "tree"
        BY <1>3 DEF L!PlaceBlocks
    <2>2. PopulateInv
        BY <2>1 DEF LoopsInv
    <2>3. LoopTypeOK' /\ NestInv' /\ InnermostInv' /\ PlacedInv'
        BY <1>1, <1>3, <2>2, PopulateHas, PlaceBlocksInv DEF PopulateInv
    <2> QED
        BY <1>1, <2>1, <2>3 DEF LoopsInv, TreeStageInv
<1>4. CASE L!PlaceLoop
    <2>1. stage = "tree" /\ stage' = "tree"
        BY <1>4 DEF L!PlaceLoop
    <2>2. TreeStageInv
        BY <2>1 DEF LoopsInv
    <2>3. LoopTypeOK' /\ NestInv' /\ InnermostInv' /\ PlacedInv'
        BY <1>1, <1>4, <2>2, PlaceLoopInv DEF TreeStageInv
    <2> QED
        BY <1>1, <2>1, <2>3 DEF LoopsInv, TreeStageInv
<1>5. CASE L!EndTree
    <2>1. /\ stage = "tree" /\ stage' = "classify" /\ place > Len(loops)
          /\ UNCHANGED <<calls, left, counter, number, exit, backEdges, loops, reducible, latches, blocks,
                         outer, innermost, place>>
        BY <1>5 DEF L!EndTree, L!search, L!found, L!tree
    <2>2. LoopTypeOK'
        BY <1>1, <2>1 DEF LoopTypeOK
    <2>3. TreeStageInv'
        BY <2>1, TreeStageUnchanged DEF LoopsInv
    <2> QED
        BY <1>1, <2>1, <2>2, <2>3 DEF LoopsInv
<1>6. CASE L!ClassifyLoops
    <2>1. /\ stage = "classify" /\ stage' = "done"
          /\ countable' = [x \in Blocks |-> x \in L!Range(loops) /\ L!Countable(x)]
          /\ UNCHANGED <<calls, left, counter, number, exit, backEdges, loops, reducible, latches, blocks,
                         outer, innermost, place>>
        BY <1>6 DEF L!ClassifyLoops, L!search, L!found, L!tree
    <2>2. LoopTypeOK'
        BY <1>1, <2>1 DEF LoopTypeOK
    <2>3. TreeStageInv' /\ place' > Len(loops')
        BY <2>1, TreeStageUnchanged DEF LoopsInv
    <2>4. \A l \in Range(loops) : l \in Blocks
        BY <1>1 DEF LoopTypeOK, Range
    <2>5. \A l \in Range(loops) : countable'[l] => L!Countable(l)
        BY <2>1, <2>4
    <2>6. \A l : L!Countable(l)' <=> L!Countable(l)
        BY <2>1 DEF L!Countable
    <2>7. CountedInv'
        BY <2>1, <2>5, <2>6 DEF CountedInv
    <2> QED
        BY <1>1, <2>1, <2>2, <2>3, <2>7 DEF LoopsInv
<1> QED
    BY <1>2, <1>3, <1>4, <1>5, <1>6

LEMMA LoopsNextInv == Inv /\ LoopsInv /\ [AnalysesNext]_allVars => LoopsInv'
<1> SUFFICES ASSUME Inv, LoopsInv, [AnalysesNext]_allVars
             PROVE  LoopsInv'
    OBVIOUS
<1>1. CASE Analyze
    <2>1. pc = "done" /\ UNCHANGED vars /\ L!Next
        BY <1>1 DEF Analyze
    <2> QED
        BY <2>1, SearchStepsInv, LoopStepsInv DEF L!Next
<1>2. CASE UNCHANGED vars /\ UNCHANGED loopVars
    BY <1>2, LoopsInvUnchanged
<1>3. CASE BuildDominatorTree
    <2>1. pc = "done" => UNCHANGED vars
        BY <1>3 DEF BuildDominatorTree, Next, Descend, Ascend, StartFixpoint, VisitBlock, SkipPred,
                    StartWalk, RaiseA, RaiseB, EndWalk, SetIdom, AnotherPass, Finish, Finished
    <2>2. UNCHANGED loopVars
        BY <1>3 DEF BuildDominatorTree
    <2>3. CASE pc = "done"
        BY <2>1, <2>2, <2>3, LoopsInvUnchanged
    <2>4. CASE pc # "done"
        <3>1. stage = "idle" /\ Untouched /\ LoopTypeOK
            BY <2>4 DEF LoopsInv
        <3>2. stage' = "idle" /\ Untouched' /\ LoopTypeOK'
            BY <2>2, <3>1 DEF loopVars, Untouched, LoopTypeOK
        <3> QED
            BY <3>2 DEF LoopsInv
    <2> QED
        BY <2>3, <2>4
<1>4. CASE StartChecks \/ EliminateChecks \/ UNCHANGED allVars
    BY <1>2, <1>4 DEF StartChecks, EliminateChecks, allVars
<1> QED
    BY <1>1, <1>3, <1>4 DEF AnalysesNext

(***************************************************************************)
(* What LoopAnalyzer::Analyze keeps, for every graph and every order of    *)
(* the search.                                                             *)
(***************************************************************************)
THEOREM LoopsInvariant == AnalysesSpec => [](Inv /\ LoopsInv)
<1>1. AnalysesInit => LoopsInv
    BY LoopsInitInv DEF AnalysesInit
<1>2. Inv /\ LoopsInv /\ [AnalysesNext]_allVars => LoopsInv'
    BY LoopsNextInv
<1> QED
    BY <1>1, <1>2, AnalysesRunTheDominatorTree, InductiveInvariant, PTL DEF AnalysesSpec

(***************************************************************************)
(* CollectBackEdges cuts every cycle of any graph, in any order of the     *)
(* search, and takes no edge that closes none; in a reducible graph it     *)
(* takes exactly the edges to a dominator of their source.                 *)
(***************************************************************************)
THEOREM CyclesAreCutByBackEdges == AnalysesSpec => []BackEdgesCutCycles
<1>1. Inv /\ LoopsInv => BackEdgesCutCycles
    <2>1. ASSUME Inv, LoopsInv, stage = "populate", loops = <<>>
          PROVE  BackEdgesCutCycles
        BY <2>1, CyclesAreCut DEF LoopsInv, PopulateInv
    <2> QED
        BY <2>1 DEF BackEdgesCutCycles, L!BackEdgesCutCycles
<1> QED
    BY <1>1, LoopsInvariant, PTL

(***************************************************************************)
(* In any graph a loop whose header dominates its latches is their natural *)
(* loop when Analyze returns, and a loop called countable is one of these. *)
(***************************************************************************)
THEOREM NaturalLoopsAreFound == AnalysesSpec => []LoopsAreNatural
<1>1. ASSUME Inv, LoopsInv, stage = "done", NEW l \in Range(loops)
      PROVE  /\ countable[l] => Natural(l)
             /\ Natural(l) => blocks[l] = NaturalBlocks(l)
    <2>1. LatchesInv /\ NaturalKept /\ CountedInv /\ LoopTypeOK
        BY <1>1 DEF LoopsInv, TreeStageInv, NestInv
    <2>2. ASSUME countable[l]
          PROVE  Natural(l)
        <3>1. reducible[l] /\ \E x \in Blocks : latches[l] = {x}
            BY <2>1, <2>2 DEF CountedInv, L!Countable
        <3>2. \E x \in latches[l] : Dom(l, x)
            BY <2>1, <3>1 DEF LatchesInv
        <3> QED
            BY <3>1, <3>2 DEF Natural
    <2> QED
        BY <2>1, <2>2 DEF NaturalKept
<1>2. Inv /\ LoopsInv => LoopsAreNatural
    <2>1. ASSUME Inv
          PROVE  \A l : /\ L!NaturalLoop(succs, Start, l, latches[l]) = NaturalBlocks(l)
                        /\ (\A x \in latches[l] : L!DominatesIn(succs, Start, l, x)) <=> Natural(l)
        BY <2>1, NaturalBlocksAreTheLoop, SameLoopGraphs DEF Natural
    <2>2. L!Range(loops) = Range(loops)
        BY SameLoopGraphs
    <2> QED
        BY <1>1, <2>1, <2>2 DEF LoopsAreNatural, L!LoopsAreNatural
<1> QED
    BY <1>2, LoopsInvariant, PTL

(***************************************************************************)
(* The tree of the loops of any reducible graph is nesting, and names for  *)
(* each block the smallest loop it is in; in any graph it has no cycle and *)
(* a header's loop is its own.                                             *)
(***************************************************************************)
THEOREM LoopTreeIsNesting == AnalysesSpec => []TreeIsNesting
<1>1. ASSUME Inv, LoopsInv, stage = "done"
      PROVE  TreeIsNesting
    <2>1. NestInv /\ InnermostInv /\ PlacedInv /\ LoopTypeOK /\ place > Len(loops)
        BY <1>1 DEF LoopsInv, TreeStageInv
    <2>2. \A l \in Range(loops) : l \notin L!Around(l) /\ innermost[l] = l
        BY <1>1, <2>1, WhatIsAround DEF NestInv, InnermostInv
    <2>3. ASSUME IsReducible, NEW l \in Range(loops), NEW m \in Range(loops), l # m
          PROVE  /\ m \in L!Around(l) <=> l \in blocks[m]
                 /\ m \in L!Around(l) => blocks[l] \subseteq blocks[m]
                 /\ l \in L!Around(m) \/ m \in L!Around(l) \/ blocks[l] \cap blocks[m] = {}
        <3>1. /\ m \in L!Around(l) <=> l \in NaturalBlocks(m)
              /\ l \in L!Around(m) <=> m \in NaturalBlocks(l)
            BY <1>1, <2>1, <2>3, AroundIsAll
        <3>2. /\ blocks[l] = NaturalBlocks(l) /\ blocks[m] = NaturalBlocks(m)
              /\ l \in NaturalBlocks(m) => NaturalBlocks(l) \subseteq NaturalBlocks(m)
              /\ \A x \in NaturalBlocks(l) \cap NaturalBlocks(m) : l \in NaturalBlocks(m) \/ m \in NaturalBlocks(l)
            BY <1>1, <2>1, <2>3, LoopsNest DEF NestInv
        <3> QED
            BY <3>1, <3>2
    <2>4. ASSUME IsReducible, NEW x \in Blocks
          PROVE  LET In == {l \in Range(loops) : x \in blocks[l]}
                 IN  IF In = {} THEN innermost[x] = None
                     ELSE innermost[x] \in In /\ In = {innermost[x]} \cup L!Around(innermost[x])
        <3> DEFINE In == {l \in Range(loops) : x \in blocks[l]}
                   c == innermost[x]
        <3>1. \A l \in Range(loops) : blocks[l] = NaturalBlocks(l) /\ l # None
            BY <1>1, <2>1, <2>4, LoopsNest, LoopsAreBlocks DEF NestInv
        <3>2. Smallest(c, x, Range(loops))
            BY <2>1, <2>4 DEF InnermostInv
        <3>3. CASE c = None
            <4>1. In = {}
                BY <3>1, <3>2, <3>3 DEF Smallest
            <4> QED
                BY <3>3, <4>1
        <3>4. CASE c # None
            <4>1. /\ c \in Range(loops) /\ x \in NaturalBlocks(c)
                  /\ \A m \in Range(loops) : x \in NaturalBlocks(m) => c \in NaturalBlocks(m)
                BY <3>2, <3>4 DEF Smallest
            <4>2. L!Around(c) = {m \in Range(loops) \ {c} : c \in NaturalBlocks(m)}
                BY <1>1, <2>1, <2>4, <4>1, AroundIsAll
            <4>3. \A m \in Range(loops) : c \in NaturalBlocks(m) => x \in NaturalBlocks(m)
                BY <1>1, <2>1, <2>4, <4>1, LoopsNest DEF NestInv
            <4> HIDE DEF c
            <4>4. In = {c} \cup L!Around(c) /\ c \in In
                BY <3>1, <4>1, <4>2, <4>3
            <4> QED
                BY <4>4 DEF c
        <3> QED
            BY <3>3, <3>4
    <2>5. L!Range(loops) = Range(loops) /\ (L!Reducible(succs, Start) <=> IsReducible)
        BY SameLoopGraphs DEF IsReducible
    <2> QED
        BY <2>2, <2>3, <2>4, <2>5 DEF TreeIsNesting, L!TreeIsNesting, L!GetLoopForBlock
<1>2. Inv /\ LoopsInv => TreeIsNesting
    BY <1>1 DEF TreeIsNesting, L!TreeIsNesting
<1> QED
    BY <1>2, LoopsInvariant, PTL

=============================================================================
