------------------------ MODULE InstructionListProofs ------------------------
(***************************************************************************)
(* Proofs about InstructionList for any blocks and instructions: whatever  *)
(* calls are made, the pointers agree and every walk along next_ reaches   *)
(* the last instruction of its block.                                      *)
(*                                                                         *)
(* What a walk visits is the least set closed under next_, so that a walk  *)
(* reaches the last instruction says: every closed set with an instruction *)
(* of a block in it holds the last one of that block.  Each call changes   *)
(* next_ in one or two places, and a set closed after it is closed before  *)
(* it but for the instruction put in or taken out.                         *)
(*                                                                         *)
(* The second half proves that the pointers implement BlockSeq.  Of each   *)
(* block there is exactly one sequence that begins with first_inst_,       *)
(* follows next_ and ends where next_ is null; the walk has found it after *)
(* as many steps as there are instructions.  So to know a walk after a     *)
(* call it is enough to name a sequence and show that it is the code.      *)
(*                                                                         *)
(* At the end, a theorem about the records of uses that the instructions   *)
(* of these lists keep (UseDef): ReplaceAllUsesWith is exact.              *)
(***************************************************************************)
EXTENDS InstructionList, FiniteSetTheorems, SequenceTheorems, WellFoundedInduction, TLAPS

Reach == \A S \in SUBSET Insts :
    ClosedUnderNext(S) => \A i \in S : ~Detached(i) => last[owner[i]] \in S

IInv == TypeOK /\ WellLinked /\ Reach

\* ClosedUnderNext after the step.
ClosedAfter(S) == \A j \in S : next'[j] # Null => next'[j] \in S

LEMMA ReachIsWalksReachLast == ASSUME TypeOK PROVE Reach <=> WalksReachLast
<1>1. ASSUME Reach, NEW i \in Insts, ~Detached(i)
      PROVE  last[owner[i]] \in From(i)
    <2>1. ClosedUnderNext(Insts)
        BY DEF TypeOK, ClosedUnderNext
    <2> QED
        BY <1>1, <2>1 DEF Reach, From
<1>2. ASSUME WalksReachLast, NEW S \in SUBSET Insts, ClosedUnderNext(S),
             NEW i \in S, ~Detached(i)
      PROVE  last[owner[i]] \in S
    BY <1>2 DEF WalksReachLast, From
<1> QED
    BY <1>1, <1>2 DEF Reach, WalksReachLast

\* An instruction in no list points nowhere and nothing points to it.
LEMMA DetachedIsAlone ==
    ASSUME TypeOK, WellLinked, NEW i \in Insts, Detached(i)
    PROVE  /\ next[i] = Null /\ prev[i] = Null
           /\ \A j \in Insts : next[j] # i /\ prev[j] # i
           /\ \A b \in Blocks : first[b] # i /\ last[b] # i
BY NullAssumption DEF TypeOK, WellLinked, NeighboursAgree, EndsAgree, Detached

(***************************************************************************)
(* An instruction put in front of another of its block: a set closed after *)
(* the step is closed before it without the new instruction, and with the  *)
(* new one it holds the other.                                             *)
(***************************************************************************)
LEMMA InsertedReach ==
    ASSUME TypeOK, Reach, NEW b \in Blocks, NEW n \in Insts, NEW i \in Insts,
           owner[i] = b, i # n,
           owner' = [owner EXCEPT ![n] = b], last' = last,
           \A S \in SUBSET Insts : ClosedAfter(S) =>
                ClosedUnderNext(S \ {n}) /\ (n \in S => i \in S)
    PROVE  Reach'
<1>1. ASSUME NEW S \in SUBSET Insts, ClosedAfter(S), NEW j \in S, owner'[j] # Null
      PROVE  last'[owner'[j]] \in S
    <2>1. ClosedUnderNext(S \ {n}) /\ (n \in S => i \in S)
        BY <1>1
    <2>2. PICK k \in S \ {n} : owner[k] = owner'[j]
        BY <1>1, <2>1 DEF TypeOK
    <2> QED
        BY <1>1, <2>1, <2>2 DEF Reach, Detached
<1> QED
    BY <1>1 DEF Reach, ClosedUnderNext, ClosedAfter, Detached

-----------------------------------------------------------------------------

LEMMA InitIInv == Init => IInv
<1> SUFFICES ASSUME Init PROVE IInv
    OBVIOUS
<1>1. TypeOK
    BY DEF Init, TypeOK
<1>2. WellLinked
    BY NullAssumption DEF Init, WellLinked, NeighboursAgree, EndsAgree
<1>3. Reach
    BY DEF Init, Reach, Detached
<1> QED
    BY <1>1, <1>2, <1>3 DEF IInv

LEMMA CreateBasicBlockIInv ==
    ASSUME IInv, NEW b \in Blocks, CreateBasicBlock(b)
    PROVE  IInv'
BY DEF IInv, CreateBasicBlock, links, TypeOK, WellLinked, NeighboursAgree, EndsAgree,
       Reach, ClosedUnderNext, Detached

LEMMA PushBackIInv ==
    ASSUME IInv, NEW b \in Blocks, NEW n \in Insts, PushBackInstruction(b, n)
    PROVE  IInv'
<1> USE NullAssumption DEF IInv
<1>1. /\ next[n] = Null /\ prev[n] = Null
      /\ \A j \in Insts : next[j] # n /\ prev[j] # n
      /\ \A c \in Blocks : first[c] # n /\ last[c] # n
      /\ owner[n] = Null /\ b \in blocks
    BY DetachedIsAlone DEF PushBackInstruction, Detached
<1>2. CASE first[b] = Null
    <2>1. /\ first' = [first EXCEPT ![b] = n]
          /\ last' = [last EXCEPT ![b] = n]
          /\ owner' = [owner EXCEPT ![n] = b]
          /\ UNCHANGED <<prev, next, blocks>>
        BY <1>2 DEF PushBackInstruction
    <2>2. TypeOK'
        BY <2>1, <1>1 DEF TypeOK
    <2>3. last[b] = Null /\ \A j \in Insts : owner[j] # b
        BY <1>2 DEF TypeOK, WellLinked, EndsAgree
    <2>4. NeighboursAgree'
        BY <2>1, <1>1, <2>3 DEF TypeOK, WellLinked, NeighboursAgree, Detached
    <2>5. EndsAgree'
        BY <2>1, <1>1, <2>3 DEF TypeOK, WellLinked, EndsAgree
    <2>6. Reach'
        BY <2>1, <1>1, <2>3 DEF TypeOK, Reach, ClosedUnderNext, Detached
    <2> QED
        BY <2>2, <2>4, <2>5, <2>6 DEF WellLinked
<1>3. CASE first[b] # Null
    <2> DEFINE l == last[b]
    <2>1. /\ next' = [next EXCEPT ![l] = n]
          /\ prev' = [prev EXCEPT ![n] = l]
          /\ last' = [last EXCEPT ![b] = n]
          /\ owner' = [owner EXCEPT ![n] = b]
          /\ UNCHANGED <<first, blocks>>
        BY <1>3 DEF PushBackInstruction
    <2>2. l \in Insts /\ owner[l] = b /\ next[l] = Null /\ l # n
        BY <1>1, <1>3 DEF TypeOK, WellLinked, EndsAgree
    <2>3. TypeOK'
        BY <2>1, <2>2, <1>1 DEF TypeOK
    <2>4. NeighboursAgree'
        BY <2>1, <2>2, <1>1 DEF TypeOK, WellLinked, NeighboursAgree, Detached
    <2>5. EndsAgree'
        BY <2>1, <2>2, <1>1 DEF TypeOK, WellLinked, EndsAgree
    <2>6. ASSUME NEW S \in SUBSET Insts, ClosedAfter(S), NEW i \in S, owner'[i] # Null
          PROVE  last'[owner'[i]] \in S
        <3>1. ClosedUnderNext(S \ {n})
            BY <2>1, <2>2, <2>6, <1>1 DEF ClosedUnderNext, ClosedAfter, TypeOK
        <3>2. CASE i = n
            BY <2>1, <3>2, <1>1 DEF TypeOK
        <3>3. CASE i # n
            <4>1. owner'[i] = owner[i] /\ last[owner[i]] \in S \ {n}
                BY <2>1, <2>6, <3>1, <3>3 DEF TypeOK, Reach, Detached
            <4>2. owner[i] \in Blocks
                BY <2>6, <4>1 DEF TypeOK
            <4>3. CASE owner[i] = b
                BY <2>1, <2>2, <2>6, <4>1, <4>3, <1>1 DEF ClosedAfter, TypeOK
            <4>4. CASE owner[i] # b
                BY <2>1, <4>1, <4>2, <4>4 DEF TypeOK
            <4> QED
                BY <4>3, <4>4
        <3> QED
            BY <3>2, <3>3
    <2>7. Reach'
        BY <2>6 DEF Reach, ClosedUnderNext, ClosedAfter, Detached
    <2> QED
        BY <2>3, <2>4, <2>5, <2>7 DEF WellLinked
<1> QED
    BY <1>2, <1>3

LEMMA InsertBeforeIInv ==
    ASSUME IInv, NEW b \in Blocks, NEW n \in Insts, NEW i \in Insts, InsertBefore(b, n, i)
    PROVE  IInv'
<1> USE NullAssumption DEF IInv
<1>1. /\ next[n] = Null /\ prev[n] = Null
      /\ \A j \in Insts : next[j] # n /\ prev[j] # n
      /\ \A c \in Blocks : first[c] # n /\ last[c] # n
      /\ owner[n] = Null /\ owner[i] = b /\ b \in blocks /\ i # n
    BY DetachedIsAlone DEF InsertBefore, Detached
<1>2. /\ owner' = [owner EXCEPT ![n] = b]
      /\ UNCHANGED <<blocks, last>>
    BY DEF InsertBefore
<1>3. CASE i = first[b]
    <2>1. /\ next' = [next EXCEPT ![n] = i]
          /\ prev' = [prev EXCEPT ![i] = n]
          /\ first' = [first EXCEPT ![b] = n]
          /\ prev[i] = Null
        BY <1>3 DEF InsertBefore, WellLinked, EndsAgree
    <2>2. TypeOK'
        BY <2>1, <1>1, <1>2 DEF TypeOK
    <2>3. NeighboursAgree'
        BY <2>1, <1>1, <1>2 DEF TypeOK, WellLinked, NeighboursAgree, Detached
    <2>4. EndsAgree'
        BY <2>1, <1>1, <1>2, <1>3 DEF TypeOK, WellLinked, EndsAgree
    <2>5. ASSUME NEW S \in SUBSET Insts, ClosedAfter(S)
          PROVE  ClosedUnderNext(S \ {n}) /\ (n \in S => i \in S)
        BY <2>1, <2>5, <1>1 DEF ClosedUnderNext, ClosedAfter, TypeOK
    <2> QED
        BY <2>2, <2>3, <2>4, <2>5, <1>1, <1>2, InsertedReach DEF WellLinked
<1>4. CASE i # first[b]
    <2> DEFINE p == prev[i]
    <2>1. /\ next' = [next EXCEPT ![n] = i, ![p] = n]
          /\ prev' = [prev EXCEPT ![n] = p, ![i] = n]
          /\ UNCHANGED first
        BY <1>4 DEF InsertBefore
    <2>2. p \in Insts /\ p # n /\ next[p] = i /\ owner[p] = b
        BY <1>1, <1>4 DEF TypeOK, WellLinked, EndsAgree, NeighboursAgree
    <2>3. TypeOK'
        BY <2>1, <2>2, <1>1, <1>2 DEF TypeOK
    <2>4. NeighboursAgree'
        BY <2>1, <2>2, <1>1, <1>2 DEF TypeOK, WellLinked, NeighboursAgree, Detached
    <2>5. EndsAgree'
        BY <2>1, <2>2, <1>1, <1>2 DEF TypeOK, WellLinked, EndsAgree
    <2>6. ASSUME NEW S \in SUBSET Insts, ClosedAfter(S)
          PROVE  ClosedUnderNext(S \ {n}) /\ (n \in S => i \in S)
        BY <2>1, <2>2, <2>6, <1>1 DEF ClosedUnderNext, ClosedAfter, TypeOK
    <2> QED
        BY <2>3, <2>4, <2>5, <2>6, <1>1, <1>2, InsertedReach DEF WellLinked
<1> QED
    BY <1>3, <1>4

LEMMA RemoveInstructionIInv ==
    ASSUME IInv, NEW b \in Blocks, NEW i \in Insts, RemoveInstruction(b, i)
    PROVE  IInv'
<1> USE NullAssumption DEF IInv
<1> DEFINE p == prev[i]
           n == next[i]
<1>1. /\ owner[i] = b /\ b \in blocks
      /\ first' = IF p = Null THEN [first EXCEPT ![b] = n] ELSE first
      /\ last' = IF n = Null THEN [last EXCEPT ![b] = p] ELSE last
      /\ next' = [j \in Insts |-> IF j = i THEN Null ELSE IF j = p THEN n ELSE next[j]]
      /\ prev' = [j \in Insts |-> IF j = i THEN Null ELSE IF j = n THEN p ELSE prev[j]]
      /\ owner' = [owner EXCEPT ![i] = Null]
      /\ UNCHANGED blocks
    BY DEF RemoveInstruction
<1>2. /\ p # Null => p \in Insts /\ next[p] = i /\ owner[p] = b
      /\ n # Null => n \in Insts /\ prev[n] = i /\ owner[n] = b
    BY <1>1 DEF TypeOK, WellLinked, NeighboursAgree
<1>3. ASSUME NEW S \in SUBSET Insts, ClosedUnderNext(S), NEW j \in S, owner[j] = b
      PROVE  last[b] \in S
    BY <1>1, <1>3 DEF Reach, Detached
<1>4. p # i /\ n # i
    <2>1. CASE n = i
        <3>1. ClosedUnderNext({i})
            BY <2>1 DEF ClosedUnderNext
        <3>2. last[b] = i
            BY <1>1, <1>3, <3>1
        <3> QED
            BY <2>1, <3>2 DEF WellLinked, EndsAgree
    <2> QED
        BY <2>1, <1>2
<1>5. TypeOK'
    BY <1>1, <1>2 DEF TypeOK
<1>6. NeighboursAgree'
    BY <1>1, <1>2, <1>4 DEF TypeOK, WellLinked, NeighboursAgree, Detached
<1>7. ASSUME NEW j \in Insts, owner[j] = b, j # i
      PROVE  p # Null \/ n # Null
    <2>1. SUFFICES ASSUME p = Null, n = Null
                   PROVE  FALSE
        OBVIOUS
    <2>2. ClosedUnderNext(Insts \ {i})
        BY <2>1 DEF ClosedUnderNext, TypeOK, WellLinked, NeighboursAgree
    <2>3. last[b] = i
        BY <2>1, <1>1 DEF WellLinked, EndsAgree
    <2> QED
        BY <1>3, <1>7, <2>2, <2>3
<1>8. EndsAgree'
    <2> SUFFICES ASSUME NEW c \in Blocks, NEW j \in Insts
                 PROVE  /\ first'[c] = j <=> owner'[j] = c /\ prev'[j] = Null
                        /\ last'[c] = j <=> owner'[j] = c /\ next'[j] = Null
                        /\ owner'[j] = c => first'[c] # Null /\ last'[c] # Null
        BY DEF EndsAgree
    <2>1. first'[c] = j <=> owner'[j] = c /\ prev'[j] = Null
        BY <1>1, <1>2, <1>4 DEF TypeOK, WellLinked, EndsAgree, NeighboursAgree
    <2>2. last'[c] = j <=> owner'[j] = c /\ next'[j] = Null
        BY <1>1, <1>2, <1>4 DEF TypeOK, WellLinked, EndsAgree, NeighboursAgree
    <2>3. ASSUME owner'[j] = c
          PROVE  first'[c] # Null /\ last'[c] # Null
        <3>1. j # i /\ owner[j] = c
            BY <1>1, <2>3 DEF TypeOK
        <3>2. first[c] # Null /\ last[c] # Null
            BY <3>1 DEF WellLinked, EndsAgree
        <3>3. CASE c # b
            BY <1>1, <3>2, <3>3 DEF TypeOK
        <3>4. CASE c = b
            <4>1. p = Null => n # Null
                BY <1>7, <3>1, <3>4
            <4> QED
                BY <1>1, <3>2, <3>4, <4>1 DEF TypeOK
        <3> QED
            BY <3>3, <3>4
    <2> QED
        BY <2>1, <2>2, <2>3
<1>9. ASSUME NEW S \in SUBSET Insts, ClosedAfter(S), NEW j \in S, owner'[j] # Null
      PROVE  last'[owner'[j]] \in S
    <2> DEFINE T == IF p \in S THEN S \cup {i} ELSE S \ {i}
    <2>1. ClosedUnderNext(T) /\ T \in SUBSET Insts
        <3> SUFFICES ASSUME NEW x \in T, next[x] # Null
                     PROVE  next[x] \in T
            BY DEF ClosedUnderNext
        <3>1. x \in Insts /\ next[x] \in Insts
            BY DEF TypeOK
        <3>2. CASE x = i
            <4>1. p \in S /\ p \in Insts
                BY <3>2
            <4>2. next'[p] = n
                BY <1>1, <1>4, <4>1
            <4> QED
                BY <1>9, <3>2, <4>1, <4>2 DEF ClosedAfter
        <3>3. CASE x # i /\ next[x] = i
            <4>1. p = x
                BY <3>1, <3>3 DEF WellLinked, NeighboursAgree
            <4> QED
                BY <3>3, <4>1
        <3>4. CASE x # i /\ next[x] # i
            <4>1. next'[x] = next[x]
                BY <1>1, <1>2, <3>1, <3>4
            <4> QED
                BY <1>9, <3>4, <4>1 DEF ClosedAfter
        <3> QED
            BY <3>2, <3>3, <3>4
    <2>2. j # i /\ owner'[j] = owner[j] /\ owner[j] \in Blocks /\ j \in T
        BY <1>1, <1>9 DEF TypeOK
    <2>3. last[owner[j]] \in T
        BY <2>1, <2>2, <1>9 DEF Reach, Detached
    <2>4. CASE last[owner[j]] = i
        <3>1. owner[j] = b /\ n = Null
            BY <1>1, <2>2, <2>4 DEF WellLinked, EndsAgree
        <3>2. p \in S
            BY <2>3, <2>4
        <3> QED
            BY <1>1, <2>2, <3>1, <3>2 DEF TypeOK
    <2>5. CASE last[owner[j]] # i
        <3>1. last'[owner[j]] = last[owner[j]]
            BY <1>1, <2>2, <2>5 DEF TypeOK, WellLinked, EndsAgree
        <3> QED
            BY <2>2, <2>3, <2>5, <3>1
    <2> QED
        BY <2>4, <2>5
<1>10. Reach'
    BY <1>9 DEF Reach, ClosedUnderNext, ClosedAfter, Detached
<1> QED
    BY <1>5, <1>6, <1>8, <1>10 DEF WellLinked

(***************************************************************************)
(* SplitAt relabels what a walk from i visits.  It holds everything behind *)
(* i and nothing before it: were the instruction before i in it, the walk  *)
(* would go round, and then it would not reach the last instruction.       *)
(***************************************************************************)
LEMMA SuffixFacts ==
    ASSUME IInv, NEW b \in Blocks, NEW i \in Insts, owner[i] = b
    PROVE  /\ i \in From(i)
           /\ \A j \in From(i) : owner[j] = b
           /\ ClosedUnderNext(From(i))
           /\ last[b] \in From(i)
           /\ \A j \in Insts : next[j] \in From(i) /\ j \notin From(i) => next[j] = i
           /\ prev[i] \notin From(i)
<1> USE NullAssumption DEF IInv
<1>1. i \in From(i)
    BY DEF From
<1>2. ClosedUnderNext(From(i))
    BY DEF From, ClosedUnderNext, TypeOK
<1>3. \A j \in From(i) : owner[j] = b
    <2> DEFINE S == {j \in Insts : owner[j] = b}
    <2>1. S \in SUBSET Insts /\ i \in S /\ ClosedUnderNext(S)
        BY DEF ClosedUnderNext, TypeOK, WellLinked, NeighboursAgree
    <2> QED
        BY <2>1 DEF From
<1>4. last[b] \in From(i)
    <2>1. From(i) \in SUBSET Insts
        BY DEF From
    <2> QED
        BY <1>1, <1>2, <2>1 DEF Reach, TypeOK, Detached
<1>5. ASSUME NEW j \in Insts, next[j] \in From(i), j \notin From(i)
      PROVE  next[j] = i
    <2> SUFFICES ASSUME next[j] # i
                 PROVE  FALSE
        OBVIOUS
    <2> DEFINE S == From(i) \ {next[j]}
    <2>1. ClosedUnderNext(S)
        <3> SUFFICES ASSUME NEW x \in S, next[x] # Null
                     PROVE  next[x] \in S
            BY DEF ClosedUnderNext
        <3>1. x \in Insts /\ x # j /\ next[x] \in From(i)
            BY <1>2, <1>5 DEF From, ClosedUnderNext
        <3>2. next[x] # next[j]
            <4>1. next[x] \in Insts
                BY <3>1 DEF From
            <4> QED
                BY <3>1, <4>1 DEF WellLinked, NeighboursAgree
        <3> QED
            BY <3>1, <3>2
    <2>2. S \in SUBSET Insts /\ i \in S
        BY <1>1 DEF From
    <2> QED
        BY <1>5, <2>1, <2>2 DEF From
<1>6. ASSUME prev[i] \in From(i)
      PROVE  FALSE
    <2> DEFINE p == prev[i]
               W == {x \in Insts : p \in From(x)}
    <2>1. p \in Insts /\ next[p] = i
        BY <1>6 DEF From, WellLinked, NeighboursAgree
    <2>2. i \in W
        BY <1>6
    <2>3. ClosedUnderNext(W)
        <3> SUFFICES ASSUME NEW x \in W, next[x] # Null
                     PROVE  next[x] \in W
            BY DEF ClosedUnderNext
        <3>1. x \in Insts /\ next[x] \in Insts
            BY DEF TypeOK
        <3>2. CASE x = p
            BY <2>1, <2>2, <3>2
        <3>3. CASE x # p
            <4> SUFFICES ASSUME NEW S \in SUBSET Insts, next[x] \in S, ClosedUnderNext(S)
                         PROVE  p \in S
                BY <2>1, <3>1 DEF From
            <4>1. ClosedUnderNext(S \cup {x})
                BY DEF ClosedUnderNext
            <4>2. p \in S \cup {x}
                BY <3>1, <4>1 DEF From
            <4> QED
                BY <3>3, <4>2
        <3> QED
            BY <3>2, <3>3
    <2>4. last[b] \in W
        BY <2>2, <2>3 DEF Reach, TypeOK, Detached
    <2>5. last[b] = p
        <3> DEFINE l == last[b]
        <3>1. l \in Insts /\ next[l] = Null
            BY <2>4 DEF WellLinked, EndsAgree
        <3>2. ClosedUnderNext({l})
            BY <3>1 DEF ClosedUnderNext
        <3> QED
            BY <2>4, <3>1, <3>2 DEF From
    <2> QED
        BY <2>1, <2>5 DEF WellLinked, EndsAgree
<1> QED
    BY <1>1, <1>2, <1>3, <1>4, <1>5, <1>6

LEMMA SplitAtIInv ==
    ASSUME IInv, NEW b \in Blocks, NEW new \in Blocks, NEW i \in Insts, SplitAt(b, new, i)
    PROVE  IInv'
<1> USE NullAssumption DEF IInv
<1> DEFINE p == prev[i]
           F == From(i)
           l == last[b]
<1>1. /\ owner[i] = b /\ b \in blocks /\ new \notin blocks /\ b # new
      /\ blocks' = blocks \cup {new}
      /\ owner' = [j \in Insts |-> IF j \in F THEN new ELSE owner[j]]
    BY DEF SplitAt
<1>2. \A j \in Insts : owner[j] # new
    BY <1>1 DEF TypeOK
<1>3. first[new] = Null /\ last[new] = Null
    BY <1>2 DEF TypeOK, WellLinked, EndsAgree
<1>4. /\ i \in F /\ l \in F /\ p \notin F
      /\ F \subseteq Insts
      /\ \A j \in F : owner[j] = b
      /\ \A j \in F : next[j] # Null => next[j] \in F
      /\ \A j \in Insts : next[j] \in F /\ j \notin F => next[j] = i
    <2>1. F \subseteq Insts
        BY DEF From
    <2> QED
        BY <1>1, <2>1, SuffixFacts DEF ClosedUnderNext
<1>5. /\ first' = [first EXCEPT ![new] = i, ![b] = IF p = Null THEN Null ELSE @]
      /\ last' = [last EXCEPT ![new] = l, ![b] = p]
      /\ next' = [j \in Insts |-> IF j = p THEN Null ELSE next[j]]
      /\ prev' = [prev EXCEPT ![i] = Null]
    <2>1. CASE p # Null
        <3>1. p \in Insts
            BY <2>1 DEF TypeOK
        <3> QED
            BY <1>1, <2>1, <3>1 DEF SplitAt, TypeOK
    <2>2. CASE p = Null
        BY <1>1, <2>2 DEF SplitAt, TypeOK
    <2> QED
        BY <2>1, <2>2
<1>6. p # Null => p \in Insts /\ next[p] = i /\ owner[p] = b
    BY <1>1 DEF TypeOK, WellLinked, NeighboursAgree
<1>7. \A j \in Insts : next[j] = i <=> j = p
    BY <1>6 DEF WellLinked, NeighboursAgree
<1> HIDE DEF F
<1>8. TypeOK'
    BY <1>1, <1>4, <1>5 DEF TypeOK
<1>9. NeighboursAgree'
    <2> SUFFICES ASSUME NEW x \in Insts, NEW y \in Insts
                 PROVE  /\ next'[x] = y <=> prev'[y] = x
                        /\ next'[x] = y => owner'[x] = owner'[y] /\ owner'[x] # Null
        BY DEF NeighboursAgree, Detached
    <2>1. next'[x] = y <=> prev'[y] = x
        BY <1>5, <1>6, <1>7 DEF TypeOK, WellLinked, NeighboursAgree
    <2>2. ASSUME next'[x] = y
          PROVE  owner'[x] = owner'[y] /\ owner'[x] # Null
        <3>1. next[x] = y /\ x # p
            BY <1>5, <2>2
        <3>2. y # i
            BY <1>7, <3>1
        <3>3. x \in F <=> y \in F
            BY <1>4, <3>1, <3>2
        <3>4. owner[x] = owner[y] /\ owner[x] # Null
            BY <3>1 DEF WellLinked, NeighboursAgree, Detached
        <3> QED
            BY <1>1, <3>3, <3>4
    <2> QED
        BY <2>1, <2>2
\* The first of a list is behind i only where it is i.
<1>10. \A j \in F : prev[j] = Null => j = i
    <2> SUFFICES ASSUME NEW j \in F, prev[j] = Null, j # i
                 PROVE  FALSE
        OBVIOUS
    <2>1. \A x \in F \ {j} : next[x] # Null => next[x] \in F \ {j}
        BY <1>4 DEF TypeOK, WellLinked, NeighboursAgree
    <2> QED
        BY <1>4, <2>1 DEF F, From, ClosedUnderNext
\* Where nothing is before i, all of the block is behind it.
<1>11. ASSUME NEW j \in Insts, owner[j] = b, j \notin F
       PROVE  p # Null /\ first[b] # i
    <2>1. SUFFICES ASSUME p = Null
                   PROVE  FALSE
        BY DEF WellLinked, EndsAgree
    <2> DEFINE C == {x \in Insts : x \notin F}
    <2>2. ClosedUnderNext(C)
        BY <1>4, <1>7, <2>1 DEF ClosedUnderNext, TypeOK
    <2> QED
        BY <1>1, <1>4, <1>11, <2>2 DEF Reach, Detached
<1>12. EndsAgree'
    <2> SUFFICES ASSUME NEW c \in Blocks, NEW j \in Insts
                 PROVE  /\ first'[c] = j <=> owner'[j] = c /\ prev'[j] = Null
                        /\ last'[c] = j <=> owner'[j] = c /\ next'[j] = Null
                        /\ owner'[j] = c => first'[c] # Null /\ last'[c] # Null
        BY DEF EndsAgree
    <2>1. CASE c = new
        <3>1. first'[c] = i /\ last'[c] = l
            BY <1>1, <1>5, <2>1 DEF TypeOK
        <3>2. owner'[j] = c <=> j \in F
            BY <1>1, <1>2, <2>1
        <3>3. i = j <=> j \in F /\ prev'[j] = Null
            BY <1>4, <1>5, <1>10 DEF TypeOK
        <3>4. l = j <=> j \in F /\ next'[j] = Null
            BY <1>4, <1>5 DEF WellLinked, EndsAgree
        <3> QED
            BY <1>4, <3>1, <3>2, <3>3, <3>4
    <2>2. CASE c = b
        <3>1. first'[c] = (IF p = Null THEN Null ELSE first[b]) /\ last'[c] = p
            BY <1>1, <1>5, <2>2 DEF TypeOK
        <3>2. owner'[j] = c <=> owner[j] = b /\ j \notin F
            BY <1>1, <2>2
        <3>3. first'[c] = j <=> owner'[j] = c /\ prev'[j] = Null
            <4>1. CASE p = Null
                BY <1>11, <3>1, <3>2, <4>1
            <4>2. CASE p # Null
                <5>1. j # i => prev'[j] = prev[j]
                    BY <1>5 DEF TypeOK
                <5>2. first[b] = j <=> owner[j] = b /\ prev[j] = Null
                    BY DEF WellLinked, EndsAgree
                <5> QED
                    BY <1>4, <1>10, <3>1, <3>2, <4>2, <5>1, <5>2
            <4> QED
                BY <4>1, <4>2
        <3>4. last'[c] = j <=> owner'[j] = c /\ next'[j] = Null
            <4>1. next[j] = Null /\ owner[j] = b => j \in F
                BY <1>4 DEF WellLinked, EndsAgree
            <4>2. next'[j] = Null <=> j = p \/ next[j] = Null
                BY <1>5
            <4> QED
                BY <1>4, <1>6, <3>1, <3>2, <4>1, <4>2
        <3>5. owner'[j] = c => first'[c] # Null /\ last'[c] # Null
            BY <1>11, <3>1, <3>2 DEF WellLinked, EndsAgree
        <3> QED
            BY <3>3, <3>4, <3>5
    <2>3. CASE c # new /\ c # b
        <3>1. first'[c] = first[c] /\ last'[c] = last[c]
            BY <1>5, <2>3 DEF TypeOK
        <3>2. owner'[j] = c <=> owner[j] = c
            BY <1>1, <1>4, <2>3
        <3>3. owner[j] = c => prev'[j] = prev[j] /\ next'[j] = next[j]
            BY <1>1, <1>5, <1>6, <2>3 DEF TypeOK
        <3> QED
            BY <3>1, <3>2, <3>3 DEF WellLinked, EndsAgree
    <2> QED
        BY <2>1, <2>2, <2>3
<1>13. ASSUME NEW S \in SUBSET Insts, ClosedAfter(S), NEW j \in S, owner'[j] # Null
       PROVE  last'[owner'[j]] \in S
    <2>1. \A x \in S : x # p /\ next[x] # Null => next[x] \in S
        BY <1>5, <1>13 DEF ClosedAfter
    <2>2. CASE j \in F
        <3>1. ClosedUnderNext(S \cap F)
            BY <1>4, <2>1 DEF ClosedUnderNext
        <3>2. l \in S \cap F
            BY <1>1, <1>4, <2>2, <3>1 DEF Reach, Detached
        <3> QED
            BY <1>1, <1>5, <2>2, <3>2 DEF TypeOK
    <2>3. CASE j \notin F /\ owner[j] = b
        <3>1. p \in S
            <4> SUFFICES ASSUME p \notin S
                         PROVE  FALSE
                OBVIOUS
            <4>1. ClosedUnderNext(S \ F)
                BY <1>4, <1>7, <2>1 DEF ClosedUnderNext
            <4> QED
                BY <1>1, <1>4, <2>3, <4>1 DEF Reach, Detached
        <3> QED
            BY <1>1, <1>5, <2>3, <3>1 DEF TypeOK
    <2>4. CASE owner[j] # b
        <3> DEFINE C == {x \in S : owner[x] # b}
        <3>1. ClosedUnderNext(C)
            BY <1>6, <2>1 DEF ClosedUnderNext, TypeOK, WellLinked, NeighboursAgree
        <3>2. owner'[j] = owner[j] /\ owner[j] \in Blocks /\ owner[j] # new
            BY <1>1, <1>2, <1>4, <1>13, <2>4 DEF TypeOK
        <3>3. last[owner[j]] \in S
            BY <1>13, <2>4, <3>1, <3>2 DEF Reach, Detached
        <3> QED
            BY <1>5, <2>4, <3>2, <3>3 DEF TypeOK
    <2> QED
        BY <2>2, <2>3, <2>4
<1>14. Reach'
    BY <1>13 DEF Reach, ClosedUnderNext, ClosedAfter, Detached
<1> QED
    BY <1>8, <1>9, <1>12, <1>14 DEF WellLinked

LEMMA SplitAtEndIInv ==
    ASSUME IInv, NEW b \in Blocks, NEW new \in Blocks, SplitAtEnd(b, new)
    PROVE  IInv'
BY DEF IInv, SplitAtEnd, links, TypeOK, WellLinked, NeighboursAgree, EndsAgree,
       Reach, ClosedUnderNext, Detached

LEMMA NextIInv == IInv /\ [Next]_vars => IInv'
<1> SUFFICES ASSUME IInv, [Next]_vars
             PROVE  IInv'
    OBVIOUS
<1>1. CASE UNCHANGED vars
    BY <1>1 DEF vars, links, IInv, TypeOK, WellLinked, NeighboursAgree, EndsAgree,
                Reach, ClosedUnderNext, Detached
<1>2. CASE Next
    BY <1>2, CreateBasicBlockIInv, PushBackIInv, InsertBeforeIInv, RemoveInstructionIInv,
       SplitAtIInv, SplitAtEndIInv DEF Next
<1> QED
    BY <1>1, <1>2

(***************************************************************************)
(* The inductive invariant: the pointers agree, and every set closed under *)
(* next_ that holds an instruction of a block holds its last instruction.  *)
(***************************************************************************)
THEOREM InductiveInvariant == Spec => []IInv
BY InitIInv, NextIInv, PTL DEF Spec

(***************************************************************************)
(* Every pointer of a list is null or points to an instruction, and an     *)
(* instruction in a list belongs to a block of the graph.                  *)
(***************************************************************************)
THEOREM TypeCorrect == Spec => []TypeOK
<1>1. IInv => TypeOK
    BY DEF IInv
<1> QED
    BY <1>1, InductiveInvariant, PTL

(***************************************************************************)
(* The pointers of the instruction lists agree after any calls of          *)
(* PushBackInstruction, InsertBefore, RemoveInstruction and SplitAt.       *)
(***************************************************************************)
THEOREM ListsAreWellLinked == Spec => []WellLinked
<1>1. IInv => WellLinked
    BY DEF IInv
<1> QED
    BY <1>1, InductiveInvariant, PTL

(***************************************************************************)
(* Every walk from an instruction of a block along next_ reaches the last  *)
(* instruction of that block: no list ever runs in a circle.               *)
(***************************************************************************)
THEOREM EveryWalkReachesLast == Spec => []WalksReachLast
<1>1. IInv => WalksReachLast
    BY ReachIsWalksReachLast DEF IInv
<1> QED
    BY <1>1, InductiveInvariant, PTL

-----------------------------------------------------------------------------
(* The pointers implement the sequences of BlockSeq.  What a walk along    *)
(* next_ from the first instruction collects is described without          *)
(* recursion: a sequence of instructions that follow each other, up to one *)
(* without a next.  There is one such sequence for each block.             *)

\* Every set of numbers has a least element.
LEMMA LeastNumber ==
    ASSUME NEW T \in SUBSET Nat, T # {}
    PROVE  \E n \in T : \A m \in T : n <= m
<1>1. PICK n \in T : \A m \in T : ~ <<m, n>> \in OpToRel(<, Nat)
    BY NatLessThanWellFounded, WFMin
<1>2. \A m \in T : ~ (m < n)
    BY <1>1 DEF OpToRel
<1> QED
    BY <1>2

\* The instructions of a block up to some point of its list.
Linked(b, s) ==
    /\ s \in Seq(Insts)
    /\ s = <<>> <=> first[b] = Null
    /\ s # <<>> => s[1] = first[b]
    /\ \A k \in 1 .. Len(s) - 1 : next[s[k]] = s[k + 1]

Complete(s) == s # <<>> => next[s[Len(s)]] = Null

IsCode(b, s) == Linked(b, s) /\ Complete(s)

Repeats(s) == \E i, j \in 1 .. Len(s) : i < j /\ s[i] = s[j]

LEMMA Length ==
    ASSUME NEW s \in Seq(Insts)
    PROVE  /\ Len(s) \in Nat /\ DOMAIN s = 1 .. Len(s)
           /\ s = <<>> <=> Len(s) = 0
           /\ \A k \in 1 .. Len(s) : s[k] \in Insts
OBVIOUS

LEMMA LinkedFacts ==
    ASSUME IInv, NEW b \in Blocks, NEW s, Linked(b, s)
    PROVE  /\ \A k \in 1 .. Len(s) : owner[s[k]] = b
           /\ \A k \in 2 .. Len(s) : prev[s[k]] = s[k - 1]
           /\ s # <<>> => prev[s[1]] = Null
           /\ ~Repeats(s)
<1> USE NullAssumption DEF Linked, IInv
<1>1. s \in Seq(Insts) /\ Len(s) \in Nat /\ (s = <<>> <=> Len(s) = 0) /\ \A k \in 1 .. Len(s) : s[k] \in Insts
    BY Length
<1>2. s # <<>> => prev[s[1]] = Null /\ owner[s[1]] = b /\ s[1] \in Insts
    BY <1>1 DEF TypeOK, WellLinked, EndsAgree
<1>3. \A k \in 2 .. Len(s) : /\ k - 1 \in 1 .. Len(s) - 1 /\ k - 1 \in 1 .. Len(s) /\ (k - 1) + 1 = k
                             /\ next[s[k - 1]] = s[k] /\ s[k - 1] \in Insts /\ s[k] \in Insts
    BY <1>1
<1>4. \A k \in 2 .. Len(s) : prev[s[k]] = s[k - 1] /\ owner[s[k]] = owner[s[k - 1]]
    BY <1>3 DEF WellLinked, NeighboursAgree
<1>5. \A k \in 1 .. Len(s) : owner[s[k]] = b
    <2> DEFINE T == {k \in 1 .. Len(s) : owner[s[k]] # b}
    <2>1. SUFFICES ASSUME T # {}
                   PROVE  FALSE
        OBVIOUS
    <2>2. PICK k \in T : \A m \in T : k <= m
        <3>1. T \in SUBSET Nat
            OBVIOUS
        <3> HIDE DEF T
        <3> QED
            BY <2>1, <3>1, LeastNumber
    <2>3. k # 1
        BY <1>1, <1>2, <2>2
    <2>4. k \in 2 .. Len(s) /\ ~(k <= k - 1)
        BY <1>1, <2>2, <2>3
    <2>5. owner[s[k - 1]] = b
        BY <1>3, <2>2, <2>4
    <2> QED
        BY <1>4, <2>2, <2>4, <2>5
<1>6. ~Repeats(s)
    <2> DEFINE T == {i \in 1 .. Len(s) : \E j \in 1 .. Len(s) : i < j /\ s[i] = s[j]}
    <2>1. SUFFICES ASSUME T # {}
                   PROVE  FALSE
        BY DEF Repeats
    <2>2. PICK i \in T : \A m \in T : i <= m
        <3>1. T \in SUBSET Nat
            OBVIOUS
        <3> HIDE DEF T
        <3> QED
            BY <2>1, <3>1, LeastNumber
    <2>3. PICK j \in 1 .. Len(s) : i < j /\ s[i] = s[j]
        BY <2>2
    <2>4. j \in 2 .. Len(s) /\ prev[s[j]] = s[j - 1] /\ s[j - 1] \in Insts /\ j - 1 \in 1 .. Len(s)
        BY <1>1, <1>3, <1>4, <2>2, <2>3
    <2>5. i # 1
        BY <1>1, <1>2, <2>3, <2>4
    <2>6. i \in 2 .. Len(s) /\ prev[s[i]] = s[i - 1] /\ i - 1 \in 1 .. Len(s) /\ i - 1 < j - 1 /\ ~(i <= i - 1)
        BY <1>1, <1>3, <1>4, <2>2, <2>3, <2>5
    <2>7. s[i - 1] = s[j - 1]
        BY <2>3, <2>4, <2>6
    <2>8. i - 1 \in T
        BY <2>4, <2>6, <2>7
    <2> QED
        BY <2>2, <2>6, <2>8
<1> QED
    BY <1>2, <1>4, <1>5, <1>6

\* The code of a block has every instruction of the block, and ends with the last.
LEMMA CodeFacts ==
    ASSUME IInv, NEW b \in Blocks, NEW s, IsCode(b, s)
    PROVE  /\ Range(s) = {i \in Insts : owner[i] = b}
           /\ s # <<>> => last[b] = s[Len(s)]
<1> USE NullAssumption DEF IsCode, IInv
<1>1. s \in Seq(Insts) /\ Len(s) \in Nat /\ DOMAIN s = 1 .. Len(s) /\ (s = <<>> <=> Len(s) = 0)
      /\ \A k \in 1 .. Len(s) : s[k] \in Insts
    BY Length DEF Linked
<1>2. /\ \A k \in 1 .. Len(s) : owner[s[k]] = b
      /\ \A k \in 2 .. Len(s) : prev[s[k]] = s[k - 1]
      /\ s # <<>> => prev[s[1]] = Null
    BY LinkedFacts
<1>3. s # <<>> => last[b] = s[Len(s)] /\ Len(s) \in 1 .. Len(s)
    <2>1. s # <<>> => Len(s) \in 1 .. Len(s)
        BY <1>1
    <2> QED
        BY <1>1, <1>2, <2>1 DEF Complete, WellLinked, EndsAgree
<1>4. ASSUME NEW i \in Insts, owner[i] = b, i \notin Range(s)
      PROVE  FALSE
    <2> DEFINE D == {j \in Insts : owner[j] = b /\ j \notin Range(s)}
    <2>1. s # <<>>
        BY <1>4 DEF Linked, WellLinked, EndsAgree
    <2>2. ASSUME NEW j \in D, next[j] # Null
          PROVE  next[j] \in D
        <3> DEFINE n == next[j]
        <3>1. n \in Insts /\ owner[n] = b /\ prev[n] = j
            BY <2>2 DEF TypeOK, WellLinked, NeighboursAgree
        <3>2. ASSUME NEW k \in 1 .. Len(s), n = s[k]
              PROVE  FALSE
            <4>1. CASE k = 1
                BY <1>2, <2>1, <2>2, <3>1, <3>2, <4>1
            <4>2. CASE k # 1
                <5>1. k \in 2 .. Len(s) /\ k - 1 \in 1 .. Len(s)
                    BY <1>1, <4>2
                <5>2. j = s[k - 1]
                    BY <1>2, <3>1, <3>2, <5>1
                <5> QED
                    BY <1>1, <2>2, <5>1, <5>2 DEF Range
            <4> QED
                BY <4>1, <4>2
        <3>3. n \notin Range(s)
            BY <1>1, <3>2 DEF Range
        <3> QED
            BY <3>1, <3>3
    <2>3. ClosedUnderNext(D) /\ D \in SUBSET Insts
        BY <2>2 DEF ClosedUnderNext
    <2>4. i \in D /\ ~Detached(i)
        BY <1>4 DEF Detached
    <2>5. last[b] \in D
        BY <1>4, <2>3, <2>4 DEF Reach
    <2> QED
        BY <1>1, <1>3, <2>1, <2>5 DEF Range
<1>5. \A i \in Range(s) : i \in Insts /\ owner[i] = b
    BY <1>1, <1>2 DEF Range
<1> QED
    BY <1>3, <1>4, <1>5

\* One sequence is no longer than the other, and the same as far as it goes.
LEMMA Leads ==
    ASSUME NEW b, NEW s, NEW t, Linked(b, s), IsCode(b, t)
    PROVE  \A k \in 1 .. Len(s) : k \in 1 .. Len(t) /\ s[k] = t[k]
<1> USE NullAssumption DEF Linked, IsCode
<1>1. /\ s \in Seq(Insts) /\ Len(s) \in Nat /\ (s = <<>> <=> Len(s) = 0) /\ \A k \in 1 .. Len(s) : s[k] \in Insts
      /\ t \in Seq(Insts) /\ Len(t) \in Nat /\ (t = <<>> <=> Len(t) = 0)
    BY Length
<1> DEFINE T == {k \in 1 .. Len(s) : ~(k \in 1 .. Len(t) /\ s[k] = t[k])}
<1>2. SUFFICES ASSUME T # {}
               PROVE  FALSE
    OBVIOUS
<1>3. PICK k \in T : \A m \in T : k <= m
    <2>1. T \in SUBSET Nat
        OBVIOUS
    <2> HIDE DEF T
    <2> QED
        BY <1>2, <2>1, LeastNumber
<1>4. CASE k = 1
    <2>1. s # <<>> /\ t # <<>>
        BY <1>1, <1>3
    <2> QED
        BY <1>1, <1>3, <1>4, <2>1
<1>5. CASE k # 1
    <2>1. k - 1 \in 1 .. Len(s) - 1 /\ k - 1 \in 1 .. Len(s) /\ (k - 1) + 1 = k /\ ~(k <= k - 1) /\ k \in 1 .. Len(s)
        BY <1>1, <1>3, <1>5
    <2>2. k - 1 \in 1 .. Len(t) /\ s[k - 1] = t[k - 1]
        BY <1>3, <2>1
    <2>3. next[s[k - 1]] = s[k] /\ s[k] \in Insts
        BY <1>1, <2>1
    <2>4. k - 1 # Len(t)
        BY <1>1, <2>2, <2>3 DEF Complete
    <2>5. k - 1 \in 1 .. Len(t) - 1 /\ k \in 1 .. Len(t)
        BY <1>1, <2>1, <2>2, <2>4
    <2>6. next[t[k - 1]] = t[k]
        BY <2>1, <2>5
    <2> QED
        BY <1>3, <2>2, <2>3, <2>5, <2>6
<1> QED
    BY <1>4, <1>5

LEMMA OneCode ==
    ASSUME NEW b, NEW s, NEW t, IsCode(b, s), IsCode(b, t)
    PROVE  s = t
<1>1. /\ \A k \in 1 .. Len(s) : k \in 1 .. Len(t) /\ s[k] = t[k]
      /\ \A k \in 1 .. Len(t) : k \in 1 .. Len(s)
    BY Leads DEF IsCode
<1>2. s \in Seq(Insts) /\ t \in Seq(Insts)
    BY DEF IsCode, Linked
<1>3. Len(s) = Len(t)
    BY <1>1, <1>2
<1> QED
    BY <1>1, <1>2, <1>3

-----------------------------------------------------------------------------
(* The walk. *)

Beginning(b) == IF first[b] = Null THEN <<>> ELSE <<first[b]>>

Extended(s) == IF s = <<>> \/ next[Last(s)] = Null THEN s ELSE Append(s, next[Last(s)])

\* The first n steps of a walk from the first instruction of b.
IsWalk(f, b, n) == f = [k \in 0 .. n |-> IF k = 0 THEN Beginning(b) ELSE Extended(f[k - 1])]

LEMMA WalkExists ==
    ASSUME NEW b, NEW steps \in Nat
    PROVE  \E f : IsWalk(f, b, steps)
<1> DEFINE T == {n \in 0 .. steps : \A f : ~IsWalk(f, b, n)}
<1>1. SUFFICES ASSUME T # {}
               PROVE  FALSE
    OBVIOUS
<1>2. PICK n \in T : \A m \in T : n <= m
    <2>1. T \in SUBSET Nat
        OBVIOUS
    <2> QED
        BY <1>1, <2>1, LeastNumber
<1>3. CASE n = 0
    <2> DEFINE g == [k \in 0 .. 0 |-> Beginning(b)]
    <2>1. \A k \in 0 .. 0 : k = 0
        OBVIOUS
    <2>2. g = [k \in 0 .. 0 |-> IF k = 0 THEN Beginning(b) ELSE Extended(g[k - 1])]
        BY <2>1
    <2>3. IsWalk(g, b, n)
        BY <1>3, <2>2 DEF IsWalk
    <2> QED
        BY <1>2, <2>3
<1>4. CASE n # 0
    <2>1. n \in Nat /\ n > 0 /\ n - 1 \in 0 .. steps /\ n - 1 < n
        BY <1>2, <1>4
    <2>2. PICK f : IsWalk(f, b, n - 1)
        BY <1>2, <2>1
    <2>3. \A k \in 0 .. n - 1 : f[k] = IF k = 0 THEN Beginning(b) ELSE Extended(f[k - 1])
        BY <2>2 DEF IsWalk
    <2> DEFINE g == [k \in 0 .. n |-> IF k = n THEN Extended(f[n - 1]) ELSE f[k]]
    <2>4. \A k \in 0 .. n : /\ k = n \/ k \in 0 .. n - 1
                            /\ k # 0 => k - 1 \in 0 .. n - 1 /\ k - 1 \in 0 .. n /\ k - 1 # n
        BY <2>1
    <2>5. ASSUME NEW k \in 0 .. n
          PROVE  g[k] = IF k = 0 THEN Beginning(b) ELSE Extended(g[k - 1])
        <3>1. k # 0 => g[k - 1] = f[k - 1]
            BY <2>4
        <3>2. CASE k = n
            BY <1>4, <3>1, <3>2
        <3>3. CASE k # n
            BY <2>3, <2>4, <3>1, <3>3
        <3> QED
            BY <3>2, <3>3
    <2>6. g = [k \in 0 .. n |-> g[k]]
        OBVIOUS
    <2> HIDE DEF g
    <2>7. IsWalk(g, b, n)
        BY <2>5, <2>6 DEF IsWalk
    <2> QED
        BY <1>2, <2>7
<1> QED
    BY <1>3, <1>4

LEMMA BeginningIsLinked ==
    ASSUME TypeOK, NEW b \in Blocks
    PROVE  Linked(b, Beginning(b)) /\ (Beginning(b) # <<>> => Len(Beginning(b)) = 1)
<1>1. CASE first[b] = Null
    BY <1>1 DEF Linked, Beginning
<1>2. CASE first[b] # Null
    <2> DEFINE s == <<first[b]>>
    <2>1. first[b] \in Insts
        BY <1>2 DEF TypeOK
    <2>2. s \in Seq(Insts) /\ Len(s) = 1 /\ s # <<>> /\ s[1] = first[b]
        BY <2>1
    <2>3. Beginning(b) = s
        BY <1>2 DEF Beginning
    <2> HIDE DEF s
    <2>4. \A k \in 1 .. Len(s) - 1 : next[s[k]] = s[k + 1]
        BY <2>2
    <2> QED
        BY <1>2, <2>2, <2>3, <2>4 DEF Linked
<1> QED
    BY <1>1, <1>2

LEMMA ExtendedIsLinked ==
    ASSUME TypeOK, NEW b \in Blocks, NEW s, Linked(b, s)
    PROVE  /\ Linked(b, Extended(s))
           /\ Complete(s) => Extended(s) = s
           /\ ~Complete(s) => Len(Extended(s)) = Len(s) + 1
<1>1. s \in Seq(Insts) /\ Len(s) \in Nat /\ (s = <<>> <=> Len(s) = 0) /\ \A k \in 1 .. Len(s) : s[k] \in Insts
    BY Length DEF Linked
<1>2. Complete(s) <=> s = <<>> \/ next[Last(s)] = Null
    BY DEF Complete, Last
<1>3. CASE Complete(s)
    BY <1>2, <1>3 DEF Extended
<1>4. CASE ~Complete(s)
    <2> DEFINE n == next[s[Len(s)]]
               t == Append(s, n)
    <2>1. s # <<>> /\ Extended(s) = t
        BY <1>2, <1>4 DEF Extended, Last
    <2>2. Len(s) \in 1 .. Len(s) /\ s[Len(s)] \in Insts
        BY <1>1, <2>1
    <2>3. n \in Insts
        BY <1>4, <2>2 DEF Complete, TypeOK
    <2>4. t \in Seq(Insts) /\ Len(t) = Len(s) + 1
          /\ \A k \in 1 .. Len(t) : t[k] = IF k = Len(s) + 1 THEN n ELSE s[k]
        <3> HIDE DEF n
        <3> QED
            BY <1>1, <2>3
    <2>5. t # <<>> /\ t[1] = s[1]
        BY <1>1, <2>2, <2>4
    <2>6. ASSUME NEW k \in 1 .. Len(t) - 1
          PROVE  next[t[k]] = t[k + 1]
        <3>1. k \in 1 .. Len(s) /\ k \in 1 .. Len(t) /\ k + 1 \in 1 .. Len(t) /\ t[k] = s[k]
            BY <1>1, <2>4
        <3>2. CASE k = Len(s)
            BY <2>4, <3>1, <3>2
        <3>3. CASE k # Len(s)
            <4>1. k \in 1 .. Len(s) - 1 /\ k + 1 # Len(s) + 1
                BY <1>1, <3>1, <3>3
            <4> QED
                BY <2>4, <3>1, <4>1 DEF Linked
        <3> QED
            BY <3>2, <3>3
    <2> HIDE DEF t, n
    <2>7. Linked(b, t)
        BY <2>1, <2>4, <2>5, <2>6 DEF Linked
    <2> QED
        BY <1>4, <2>1, <2>4, <2>7
<1> QED
    BY <1>3, <1>4

\* There are no more instructions in a list than there are instructions.
LEMMA LinkedIsShort ==
    ASSUME IInv, NEW b \in Blocks, NEW s, Linked(b, s)
    PROVE  Len(s) <= Cardinality(Insts)
<1>1. s \in Seq(Insts) /\ Len(s) \in Nat /\ DOMAIN s = 1 .. Len(s) /\ \A k \in 1 .. Len(s) : s[k] \in Insts
    BY Length DEF Linked
<1>2. ~Repeats(s)
    BY LinkedFacts
<1>3. Cardinality(Insts) \in Nat
    BY InstsAssumption, FS_CardinalityType
<1> DEFINE D == 1 .. Len(s)
<1>4. IsFiniteSet(D) /\ Cardinality(D) = Len(s)
    <2> DEFINE n == Len(s)
    <2>1. n \in Int /\ 1 \in Int /\ (1 > n <=> n = 0) /\ n - 1 + 1 = n
        BY <1>1
    <2> HIDE DEF n
    <2>2. IsFiniteSet(1 .. n) /\ Cardinality(1 .. n) = IF 1 > n THEN 0 ELSE n - 1 + 1
        BY <2>1, FS_Interval
    <2> QED
        BY <2>1, <2>2 DEF n
<1>5. s \in [D -> Insts]
    BY <1>1
<1> SUFFICES ASSUME Cardinality(Insts) < Cardinality(D)
             PROVE  FALSE
    BY <1>1, <1>3, <1>4
<1> HIDE DEF D
<1>6. PICK i, j \in D : i # j /\ s[i] = s[j]
    BY <1>4, <1>5, InstsAssumption, FS_PigeonHole
<1>7. i \in 1 .. Len(s) /\ j \in 1 .. Len(s) /\ (i < j \/ j < i)
    BY <1>1, <1>6 DEF D
<1> QED
    BY <1>2, <1>6, <1>7 DEF Repeats

LEMMA WalkIsCode == IInv => \A b \in Blocks : IsCode(b, Walk(b))
<1> SUFFICES ASSUME IInv, NEW b \in Blocks
             PROVE  IsCode(b, Walk(b))
    OBVIOUS
<1> DEFINE N == Cardinality(Insts)
           f == CHOOSE g : g = [n \in 0 .. N |->
                    IF n = 0 THEN IF first[b] = Null THEN <<>> ELSE <<first[b]>>
                    ELSE IF g[n - 1] = <<>> \/ next[Last(g[n - 1])] = Null THEN g[n - 1]
                         ELSE Append(g[n - 1], next[Last(g[n - 1])])]
<1>1. N \in Nat
    BY InstsAssumption, FS_CardinalityType
<1>2. IsWalk(f, b, N)
    <2> HIDE DEF N
    <2>1. \E g : g = [n \in 0 .. N |->
                    IF n = 0 THEN IF first[b] = Null THEN <<>> ELSE <<first[b]>>
                    ELSE IF g[n - 1] = <<>> \/ next[Last(g[n - 1])] = Null THEN g[n - 1]
                         ELSE Append(g[n - 1], next[Last(g[n - 1])])]
        <3>1. \E g : IsWalk(g, b, N)
            BY <1>1, WalkExists
        <3> QED
            BY <3>1 DEF IsWalk, Beginning, Extended
    <2>2. f = [n \in 0 .. N |->
                    IF n = 0 THEN IF first[b] = Null THEN <<>> ELSE <<first[b]>>
                    ELSE IF f[n - 1] = <<>> \/ next[Last(f[n - 1])] = Null THEN f[n - 1]
                         ELSE Append(f[n - 1], next[Last(f[n - 1])])]
        BY <2>1
    <2> HIDE DEF f
    <2> QED
        BY <2>2 DEF IsWalk, Beginning, Extended
<1>3. Walk(b) = f[N]
    BY DEF Walk
<1> HIDE DEF f, N
<1>4. \A k \in 0 .. N : f[k] = IF k = 0 THEN Beginning(b) ELSE Extended(f[k - 1])
    BY <1>2 DEF IsWalk
<1> DEFINE OK(k) == Linked(b, f[k]) /\ (Complete(f[k]) \/ Len(f[k]) = k + 1)
           T == {k \in 0 .. N : ~OK(k)}
<1>5. TypeOK
    BY DEF IInv
<1>6. T = {}
    <2>1. SUFFICES ASSUME T # {}
                   PROVE  FALSE
        OBVIOUS
    <2>2. PICK k \in T : \A m \in T : k <= m
        <3>1. T \in SUBSET Nat
            BY <1>1
        <3> HIDE DEF T
        <3> QED
            BY <2>1, <3>1, LeastNumber
    <2>3. CASE k = 0
        <3>1. f[0] = Beginning(b)
            BY <1>1, <1>4
        <3>2. Linked(b, f[0]) /\ (f[0] # <<>> => Len(f[0]) = 1)
            BY <1>5, <3>1, BeginningIsLinked
        <3>3. OK(0)
            BY <3>2 DEF Complete
        <3> QED
            BY <2>2, <2>3, <3>3
    <2>4. CASE k # 0
        <3>1. k \in 1 .. N /\ k \in 0 .. N /\ k - 1 \in 0 .. N /\ ~(k <= k - 1) /\ (k - 1) + 1 = k
            BY <1>1, <2>2, <2>4
        <3>2. OK(k - 1)
            BY <2>2, <3>1
        <3> DEFINE s == f[k - 1]
        <3>3. f[k] = Extended(s)
            BY <1>4, <2>4, <3>1
        <3>4. Linked(b, s) /\ (Complete(s) \/ Len(s) = k)
            BY <3>1, <3>2
        <3> HIDE DEF s, OK
        <3>5. /\ Linked(b, Extended(s))
              /\ Complete(s) => Extended(s) = s
              /\ ~Complete(s) => Len(Extended(s)) = Len(s) + 1
            BY <1>5, <3>4, ExtendedIsLinked
        <3>6. OK(k)
            BY <3>3, <3>4, <3>5 DEF OK
        <3> QED
            BY <2>2, <3>6
    <2> QED
        BY <2>3, <2>4
<1>7. OK(N)
    <2>1. N \in 0 .. N
        BY <1>1
    <2> HIDE DEF OK
    <2> QED
        BY <1>6, <2>1
<1>8. Len(f[N]) <= N
    <2>1. Linked(b, f[N])
        BY <1>7
    <2> QED
        BY <2>1, LinkedIsShort DEF N
<1> QED
    BY <1>1, <1>3, <1>7, <1>8 DEF IsCode

\* To know a walk, find a sequence that is the code.
WalksKnown == \A b \in Blocks, s \in Seq(Insts) : IsCode(b, s) => Walk(b) = s

LEMMA CodeIsWalk == IInv => WalksKnown
<1> SUFFICES ASSUME IInv, NEW b \in Blocks, NEW s \in Seq(Insts), IsCode(b, s)
             PROVE  Walk(b) = s
    BY DEF WalksKnown
<1> QED
    BY WalkIsCode, OneCode

LEMMA CodeIsWalkNext == IInv' => WalksKnown'
BY CodeIsWalk, PTL

\* IsCode after the step.
CodeAfter(b, s) ==
    /\ s = <<>> <=> first'[b] = Null
    /\ s # <<>> => s[1] = first'[b] /\ next'[s[Len(s)]] = Null
    /\ \A k \in 1 .. Len(s) - 1 : next'[s[k]] = s[k + 1]

LEMMA CodeIsWalkAfter ==
    ASSUME IInv', NEW b \in Blocks, NEW s \in Seq(Insts), CodeAfter(b, s)
    PROVE  Walk(b)' = s
<1>1. WalksKnown'
    BY CodeIsWalkNext
<1>2. IsCode(b, s)'
    BY DEF CodeAfter, IsCode, Linked, Complete
<1>3. IsCode(b, s)' => Walk(b)' = s
    BY <1>1 DEF WalksKnown
<1> QED
    BY <1>2, <1>3

LEMMA WalkFacts ==
    ASSUME IInv, NEW b \in Blocks, NEW s, s = Walk(b)
    PROVE  /\ s \in Seq(Insts) /\ Len(s) \in Nat /\ DOMAIN s = 1 .. Len(s) /\ (s = <<>> <=> Len(s) = 0)
           /\ s = <<>> <=> first[b] = Null
           /\ s # <<>> => s[1] = first[b] /\ prev[s[1]] = Null /\ s[Len(s)] = last[b] /\ next[s[Len(s)]] = Null
           /\ \A k \in 1 .. Len(s) : s[k] \in Insts /\ owner[s[k]] = b
           /\ \A k \in 1 .. Len(s) - 1 : next[s[k]] = s[k + 1]
           /\ \A k \in 2 .. Len(s) : prev[s[k]] = s[k - 1]
           /\ \A i \in Insts : owner[i] = b => \E k \in 1 .. Len(s) : s[k] = i
           /\ \A j, k \in 1 .. Len(s) : s[j] = s[k] => j = k
<1>1. IsCode(b, s)
    BY WalkIsCode
<1>2. Linked(b, s) /\ Complete(s) /\ s \in Seq(Insts)
    BY <1>1 DEF IsCode, Linked
<1>3. Len(s) \in Nat /\ DOMAIN s = 1 .. Len(s) /\ (s = <<>> <=> Len(s) = 0)
    BY <1>2
<1>4. /\ \A k \in 1 .. Len(s) : owner[s[k]] = b
      /\ \A k \in 2 .. Len(s) : prev[s[k]] = s[k - 1]
      /\ s # <<>> => prev[s[1]] = Null
      /\ ~Repeats(s)
    BY <1>2, LinkedFacts
<1>5. Range(s) = {i \in Insts : owner[i] = b} /\ (s # <<>> => last[b] = s[Len(s)])
    BY <1>1, CodeFacts
<1>6. \A i \in Insts : owner[i] = b => \E k \in 1 .. Len(s) : s[k] = i
    BY <1>3, <1>5 DEF Range
<1>7. ASSUME NEW j \in 1 .. Len(s), NEW k \in 1 .. Len(s), s[j] = s[k]
      PROVE  j = k
    <2>1. ~(j < k) /\ ~(k < j)
        BY <1>4, <1>7 DEF Repeats
    <2> QED
        BY <1>3, <2>1
<1>8. \A k \in 1 .. Len(s) : s[k] \in Insts
    BY <1>2
<1> QED
    BY <1>2, <1>3, <1>4, <1>5, <1>6, <1>7, <1>8 DEF Linked, Complete

\* A list in which no instruction and no link has changed.
LEMMA Untouched ==
    ASSUME IInv, IInv', NEW c \in Blocks, first'[c] = first[c],
           \A i \in Insts : owner[i] = c => next'[i] = next[i]
    PROVE  Walk(c)' = Walk(c)
<1>1. PICK s : s = Walk(c)
    OBVIOUS
<1>2. /\ s \in Seq(Insts) /\ Len(s) \in Nat /\ (s = <<>> <=> Len(s) = 0)
      /\ s = <<>> <=> first[c] = Null
      /\ s # <<>> => s[1] = first[c] /\ next[s[Len(s)]] = Null
      /\ \A k \in 1 .. Len(s) : s[k] \in Insts /\ owner[s[k]] = c
      /\ \A k \in 1 .. Len(s) - 1 : next[s[k]] = s[k + 1]
    BY <1>1, WalkFacts
<1>3. \A k \in 1 .. Len(s) : next'[s[k]] = next[s[k]]
    BY <1>2
<1>4. s # <<>> => next'[s[Len(s)]] = Null
    <2>1. s # <<>> => Len(s) \in 1 .. Len(s)
        BY <1>2
    <2> QED
        BY <1>2, <1>3, <2>1
<1>5. \A k \in 1 .. Len(s) - 1 : next'[s[k]] = s[k + 1]
    <2>1. \A k \in 1 .. Len(s) - 1 : k \in 1 .. Len(s)
        BY <1>2
    <2> QED
        BY <1>2, <1>3, <2>1
<1>6. CodeAfter(c, s)
    BY <1>2, <1>4, <1>5 DEF CodeAfter
<1>7. Walk(c)' = s
    BY <1>2, <1>6, CodeIsWalkAfter
<1> QED
    BY <1>1, <1>7

\* The one place of an instruction is the one the CHOOSE of PositionOf finds.
LEMMA Place ==
    ASSUME IInv, NEW b \in Blocks, NEW i \in Insts, owner[i] = b
    PROVE  /\ Sequences!PositionOf(b, i) \in 1 .. Len(Walk(b))
           /\ Walk(b)[Sequences!PositionOf(b, i)] = i
           /\ \A k \in 1 .. Len(Walk(b)) : Walk(b)[k] = i => k = Sequences!PositionOf(b, i)
<1>1. /\ \E k \in 1 .. Len(Walk(b)) : Walk(b)[k] = i
      /\ \A j, k \in 1 .. Len(Walk(b)) : Walk(b)[j] = Walk(b)[k] => j = k
    BY WalkFacts
<1>2. Sequences!PositionOf(b, i) = CHOOSE k \in 1 .. Len(Walk(b)) : Walk(b)[k] = i
    BY DEF Sequences!PositionOf
<1> QED
    BY <1>1, <1>2

\* t is s with i put in at place p.
IsInserted(t, s, p, i) ==
    /\ t \in Seq(Insts) /\ Len(t) = Len(s) + 1
    /\ \A k \in 1 .. Len(s) + 1 : t[k] = IF k < p THEN s[k] ELSE IF k = p THEN i ELSE s[k - 1]

LEMMA InsertedAt ==
    ASSUME NEW s \in Seq(Insts), NEW p \in 1 .. Len(s), NEW i \in Insts
    PROVE  IsInserted(InsertAt(s, p, i), s, p, i)
<1> DEFINE a == SubSeq(s, 1, p - 1)
           c == SubSeq(s, p, Len(s))
           m == Append(a, i)
<1>1. p \in Nat /\ Len(s) \in Nat /\ p >= 1 /\ p <= Len(s)
    OBVIOUS
<1>2. /\ a \in Seq(Insts) /\ Len(a) = p - 1 /\ \A k \in 1 .. p - 1 : a[k] = s[k]
      /\ c \in Seq(Insts) /\ Len(c) = Len(s) - p + 1 /\ \A k \in 1 .. Len(s) - p + 1 : c[k] = s[p + k - 1]
    <2>1. a \in Seq(Insts) /\ Len(a) = p - 1
        BY <1>1
    <2>2. \A k \in 1 .. p - 1 : a[k] = s[k]
        BY <1>1
    <2>3. c \in Seq(Insts) /\ Len(c) = Len(s) - p + 1
        BY <1>1
    <2>4. \A k \in 1 .. Len(s) - p + 1 : c[k] = s[p + k - 1]
        BY <1>1
    <2> QED
        BY <2>1, <2>2, <2>3, <2>4
<1>3. InsertAt(s, p, i) = m \o c
    <2>1. InsertAt(s, p, i) = (a \o <<i>>) \o c
        BY DEF InsertAt
    <2> HIDE DEF a, c
    <2> QED
        BY <1>2, <2>1, AppendIsConcat
<1> HIDE DEF a, c
<1>4. m \in Seq(Insts) /\ Len(m) = p /\ \A k \in 1 .. p : m[k] = IF k < p THEN s[k] ELSE i
    BY <1>1, <1>2
<1> HIDE DEF m
<1>5. m \o c \in Seq(Insts) /\ Len(m \o c) = Len(m) + Len(c)
    BY <1>2, <1>4, ConcatProperties
<1>6. Len(m \o c) = Len(s) + 1
    BY <1>1, <1>2, <1>4, <1>5
<1>7. ASSUME NEW k \in 1 .. Len(s) + 1
      PROVE  (m \o c)[k] = IF k < p THEN s[k] ELSE IF k = p THEN i ELSE s[k - 1]
    <2>1. (m \o c)[k] = IF k <= Len(m) THEN m[k] ELSE c[k - Len(m)]
        BY <1>2, <1>4, <1>6
    <2>2. CASE k <= p
        <3>1. k \in 1 .. p
            BY <1>1, <2>2
        <3> QED
            BY <1>1, <1>4, <2>1, <2>2, <3>1
    <2>3. CASE ~(k <= p)
        <3>1. k - p \in 1 .. Len(s) - p + 1 /\ p + (k - p) - 1 = k - 1 /\ ~(k < p) /\ k # p
            BY <1>1, <2>3
        <3> QED
            BY <1>2, <1>4, <2>1, <2>3, <3>1
    <2> QED
        BY <2>2, <2>3
<1> QED
    BY <1>3, <1>5, <1>6, <1>7 DEF IsInserted

LEMMA RemovedAt ==
    ASSUME NEW s \in Seq(Insts), NEW p \in 1 .. Len(s)
    PROVE  /\ RemoveAt(s, p) \in Seq(Insts)
           /\ Len(RemoveAt(s, p)) = Len(s) - 1
           /\ \A k \in 1 .. Len(s) - 1 : RemoveAt(s, p)[k] = IF k < p THEN s[k] ELSE s[k + 1]
<1> DEFINE a == SubSeq(s, 1, p - 1)
           c == SubSeq(s, p + 1, Len(s))
<1>1. p \in Nat /\ Len(s) \in Nat /\ p >= 1 /\ p <= Len(s)
    OBVIOUS
<1>2. /\ a \in Seq(Insts) /\ Len(a) = p - 1 /\ \A k \in 1 .. p - 1 : a[k] = s[k]
      /\ c \in Seq(Insts) /\ Len(c) = Len(s) - p /\ \A k \in 1 .. Len(s) - p : c[k] = s[p + k]
    BY <1>1
<1>3. RemoveAt(s, p) = a \o c
    BY DEF RemoveAt
<1> HIDE DEF a, c
<1>4. a \o c \in Seq(Insts) /\ Len(a \o c) = Len(a) + Len(c)
    BY <1>2, ConcatProperties
<1>5. Len(a \o c) = Len(s) - 1
    BY <1>1, <1>2, <1>4
<1>6. ASSUME NEW k \in 1 .. Len(s) - 1
      PROVE  (a \o c)[k] = IF k < p THEN s[k] ELSE s[k + 1]
    <2>1. (a \o c)[k] = IF k <= Len(a) THEN a[k] ELSE c[k - Len(a)]
        BY <1>2, <1>5
    <2>2. CASE k < p
        <3>1. k \in 1 .. p - 1 /\ k <= Len(a)
            BY <1>1, <1>2, <2>2
        <3> QED
            BY <1>2, <2>1, <2>2, <3>1
    <2>3. CASE ~(k < p)
        <3>1. k - (p - 1) \in 1 .. Len(s) - p /\ p + (k - (p - 1)) = k + 1 /\ ~(k <= Len(a))
            BY <1>1, <1>2, <2>3
        <3> QED
            BY <1>2, <2>1, <2>3, <3>1
    <2> QED
        BY <2>2, <2>3
<1> QED
    BY <1>3, <1>4, <1>5, <1>6

-----------------------------------------------------------------------------
(* What each call does to the walks. *)

LEMMA WalkPushBack ==
    ASSUME IInv, IInv', NEW b \in Blocks, NEW i \in Insts, PushBackInstruction(b, i)
    PROVE  /\ Walk(b)' = Append(Walk(b), i)
           /\ \A c \in Blocks : c # b => Walk(c)' = Walk(c)
<1> USE NullAssumption DEF IInv
<1>1. PICK s : s = Walk(b)
    OBVIOUS
<1>2. /\ s \in Seq(Insts) /\ Len(s) \in Nat /\ (s = <<>> <=> Len(s) = 0)
      /\ s = <<>> <=> first[b] = Null
      /\ s # <<>> => s[1] = first[b] /\ s[Len(s)] = last[b]
      /\ \A k \in 1 .. Len(s) : s[k] \in Insts /\ owner[s[k]] = b
      /\ \A k \in 1 .. Len(s) - 1 : next[s[k]] = s[k + 1]
      /\ \A j, k \in 1 .. Len(s) : s[j] = s[k] => j = k
    BY <1>1, WalkFacts
<1>3. owner[i] = Null /\ next[i] = Null /\ b # Null
    BY DetachedIsAlone DEF PushBackInstruction, Detached
<1> DEFINE t == Append(s, i)
<1>4. /\ t \in Seq(Insts) /\ Len(t) = Len(s) + 1 /\ t # <<>>
      /\ \A k \in 1 .. Len(s) : t[k] = s[k]
      /\ t[Len(s) + 1] = i
    <2>1. t \in Seq(Insts) /\ Len(t) = Len(s) + 1
        BY <1>2
    <2>2. \A k \in 1 .. Len(s) : t[k] = s[k]
        BY <1>2
    <2>3. t[Len(s) + 1] = i
        BY <1>2
    <2> HIDE DEF t
    <2>4. t # <<>>
        BY <1>2, <2>1
    <2> QED
        BY <2>1, <2>2, <2>3, <2>4
<1> HIDE DEF t
<1>5. \A j \in Insts : next'[j] = IF first[b] # Null /\ j = last[b] THEN i ELSE next[j]
    BY DEF PushBackInstruction, TypeOK
<1>6. first'[b] = IF first[b] = Null THEN i ELSE first[b]
    BY DEF PushBackInstruction, TypeOK
<1>7. \A c \in Blocks : c # b => first'[c] = first[c]
    BY DEF PushBackInstruction, TypeOK
<1>8. s # <<>> => Len(s) \in 1 .. Len(s) /\ last[b] \in Insts /\ owner[last[b]] = b
    BY <1>2
<1>9. t[1] = first'[b]
    <2>1. CASE s = <<>>
        BY <1>2, <1>4, <1>6, <2>1
    <2>2. CASE s # <<>>
        <3>1. 1 \in 1 .. Len(s)
            BY <1>2, <2>2
        <3> QED
            BY <1>2, <1>4, <1>6, <2>2, <3>1
    <2> QED
        BY <2>1, <2>2
<1>10. next'[t[Len(t)]] = Null
    <2>1. t[Len(t)] = i
        BY <1>4
    <2> QED
        BY <1>2, <1>3, <1>5, <1>8, <2>1
<1>11. ASSUME NEW k \in 1 .. Len(t) - 1
       PROVE  next'[t[k]] = t[k + 1]
    <2>1. k \in 1 .. Len(s) /\ t[k] = s[k] /\ s[k] \in Insts /\ s # <<>>
        BY <1>2, <1>4
    <2>2. CASE k = Len(s)
        BY <1>2, <1>4, <1>5, <2>1, <2>2
    <2>3. CASE k # Len(s)
        <3>1. k \in 1 .. Len(s) - 1 /\ k + 1 \in 1 .. Len(s)
            BY <1>2, <2>1, <2>3
        <3>2. s[k] # last[b]
            BY <1>2, <1>8, <2>1, <2>3
        <3> QED
            BY <1>2, <1>4, <1>5, <2>1, <3>1, <3>2
    <2> QED
        BY <2>2, <2>3
<1>12. first'[b] # Null
    BY <1>6
<1>13. CodeAfter(b, t)
    BY <1>4, <1>9, <1>10, <1>11, <1>12 DEF CodeAfter
<1>14. Walk(b)' = t
    BY <1>4, <1>13, CodeIsWalkAfter
<1>15. ASSUME NEW c \in Blocks, c # b
       PROVE  Walk(c)' = Walk(c)
    <2>1. \A j \in Insts : owner[j] = c => next'[j] = next[j]
        BY <1>2, <1>5, <1>8, <1>15
    <2> QED
        BY <1>7, <1>15, <2>1, Untouched
<1> QED
    BY <1>1, <1>14, <1>15 DEF t

LEMMA WalkInsertBefore ==
    ASSUME IInv, IInv', NEW b \in Blocks, NEW new \in Insts, NEW i \in Insts, InsertBefore(b, new, i)
    PROVE  /\ Walk(b)' = InsertAt(Walk(b), Sequences!PositionOf(b, i), new)
           /\ \A c \in Blocks : c # b => Walk(c)' = Walk(c)
<1> USE NullAssumption DEF IInv
<1>1. PICK s : s = Walk(b)
    OBVIOUS
<1>2. /\ s \in Seq(Insts) /\ Len(s) \in Nat
      /\ s # <<>> => s[1] = first[b] /\ prev[s[1]] = Null /\ next[s[Len(s)]] = Null
      /\ \A k \in 1 .. Len(s) : s[k] \in Insts /\ owner[s[k]] = b
      /\ \A k \in 1 .. Len(s) - 1 : next[s[k]] = s[k + 1]
      /\ \A k \in 2 .. Len(s) : prev[s[k]] = s[k - 1]
      /\ \A j, k \in 1 .. Len(s) : s[j] = s[k] => j = k
    BY <1>1, WalkFacts
<1>3. owner[new] = Null /\ owner[i] = b /\ b # Null
    BY DEF InsertBefore, Detached
<1>4. PICK p \in 1 .. Len(s) : p = Sequences!PositionOf(b, i) /\ s[p] = i
    BY <1>1, <1>3, Place
<1>5. s # <<>> /\ 1 \in 1 .. Len(s) /\ Len(s) \in 1 .. Len(s) /\ p \in Nat
    BY <1>2, <1>4
<1>6. i = first[b] <=> p = 1
    BY <1>2, <1>4, <1>5
<1>7. p # 1 => p \in 2 .. Len(s) /\ p - 1 \in 1 .. Len(s) /\ prev[i] = s[p - 1] /\ prev[i] \in Insts /\ prev[i] # new
    BY <1>2, <1>3, <1>4, <1>5
<1>8. \A j \in Insts : next'[j] = IF j = new THEN i ELSE IF p # 1 /\ j = s[p - 1] THEN new ELSE next[j]
    BY <1>6, <1>7 DEF InsertBefore, TypeOK
<1>9. first'[b] = (IF p = 1 THEN new ELSE first[b]) /\ \A c \in Blocks : c # b => first'[c] = first[c]
    BY <1>6 DEF InsertBefore, TypeOK
<1> DEFINE t == InsertAt(s, p, new)
<1>10. s \in Seq(Insts)
    BY <1>2
<1>11. /\ t \in Seq(Insts) /\ Len(t) = Len(s) + 1
       /\ \A k \in 1 .. Len(s) + 1 : t[k] = IF k < p THEN s[k] ELSE IF k = p THEN new ELSE s[k - 1]
    <2>1. IsInserted(t, s, p, new)
        BY <1>4, <1>10, InsertedAt
    <2> HIDE DEF t
    <2> QED
        BY <2>1 DEF IsInserted
<1> HIDE DEF t
<1>12. t # <<>> /\ first'[b] # Null /\ t[1] = first'[b]
    <2>1. t # <<>> /\ 1 \in 1 .. Len(s) + 1
        BY <1>2, <1>11
    <2>2. t[1] = IF p = 1 THEN new ELSE s[1]
        BY <1>4, <1>5, <1>11, <2>1
    <2> QED
        BY <1>2, <1>5, <1>9, <2>1, <2>2
<1>13. next'[t[Len(t)]] = Null
    <2>1. Len(t) = Len(s) + 1 /\ Len(s) + 1 \in 1 .. Len(s) + 1 /\ ~(Len(s) + 1 < p) /\ Len(s) + 1 # p /\ (Len(s) + 1) - 1 = Len(s)
        BY <1>2, <1>4, <1>11
    <2>2. t[Len(t)] = s[Len(s)]
        BY <1>11, <2>1
    <2>3. s[Len(s)] # new /\ s[Len(s)] \in Insts
        BY <1>2, <1>3, <1>5
    <2>4. p # 1 => s[Len(s)] # s[p - 1]
        BY <1>2, <1>4, <1>5, <1>7
    <2> QED
        BY <1>2, <1>5, <1>8, <2>2, <2>3, <2>4
<1>14. ASSUME NEW k \in 1 .. Len(t) - 1
       PROVE  next'[t[k]] = t[k + 1]
    <2>1. k \in 1 .. Len(s) /\ k \in 1 .. Len(s) + 1 /\ k + 1 \in 1 .. Len(s) + 1 /\ k \in Nat
        BY <1>2, <1>11
    <2>2. CASE k < p - 1
        <3>1. k < p /\ k + 1 < p /\ k \in 1 .. Len(s) - 1 /\ k # p - 1
            BY <1>2, <1>4, <2>1, <2>2
        <3>2. t[k] = s[k] /\ t[k + 1] = s[k + 1]
            BY <1>11, <2>1, <3>1
        <3>3. s[k] # new /\ s[k] \in Insts
            BY <1>2, <1>3, <2>1
        <3>4. p # 1 => s[k] # s[p - 1]
            BY <1>2, <1>7, <2>1, <3>1
        <3>5. next'[s[k]] = next[s[k]]
            BY <1>8, <3>3, <3>4
        <3>6. next[s[k]] = s[k + 1]
            BY <1>2, <3>1
        <3> QED
            BY <3>2, <3>5, <3>6
    <2>3. CASE k = p - 1
        <3>1. k < p /\ k + 1 = p /\ ~(k + 1 < p) /\ p # 1
            BY <1>4, <2>1, <2>3
        <3>2. t[k] = s[p - 1] /\ t[k + 1] = new
            BY <1>11, <2>1, <2>3, <3>1
        <3> QED
            BY <1>7, <1>8, <3>1, <3>2
    <2>4. CASE k = p
        <3>1. ~(k < p) /\ ~(k + 1 < p) /\ k + 1 # p /\ (k + 1) - 1 = p
            BY <1>4, <2>1, <2>4
        <3>2. t[k] = new /\ t[k + 1] = s[p]
            BY <1>11, <2>1, <2>4, <3>1
        <3> QED
            BY <1>4, <1>8, <3>2
    <2>5. CASE k > p
        <3>1. /\ ~(k < p) /\ k # p /\ ~(k + 1 < p) /\ k + 1 # p /\ (k + 1) - 1 = k /\ (k - 1) + 1 = k
              /\ k - 1 \in 1 .. Len(s) - 1 /\ k - 1 \in 1 .. Len(s) /\ k - 1 # p - 1
            BY <1>2, <1>4, <2>1, <2>5
        <3>2. t[k] = s[k - 1] /\ t[k + 1] = s[k]
            BY <1>11, <2>1, <3>1
        <3>3. s[k - 1] # new /\ s[k - 1] \in Insts
            BY <1>2, <1>3, <3>1
        <3>4. p # 1 => s[k - 1] # s[p - 1]
            BY <1>2, <1>7, <3>1
        <3>5. next'[s[k - 1]] = next[s[k - 1]]
            BY <1>8, <3>3, <3>4
        <3>6. next[s[k - 1]] = s[(k - 1) + 1]
            BY <1>2, <3>1
        <3> QED
            BY <3>1, <3>2, <3>5, <3>6
    <2> QED
        BY <1>4, <2>1, <2>2, <2>3, <2>4, <2>5
<1>15. CodeAfter(b, t)
    BY <1>12, <1>13, <1>14 DEF CodeAfter
<1>16. Walk(b)' = t
    BY <1>11, <1>15, CodeIsWalkAfter
<1>17. ASSUME NEW c \in Blocks, c # b
       PROVE  Walk(c)' = Walk(c)
    <2>1. c # Null
        OBVIOUS
    <2>2. p # 1 => owner[s[p - 1]] = b
        BY <1>2, <1>7
    <2>3. \A j \in Insts : owner[j] = c => next'[j] = next[j]
        BY <1>3, <1>8, <1>17, <2>1, <2>2
    <2> QED
        BY <1>9, <1>17, <2>3, Untouched
<1> QED
    BY <1>1, <1>4, <1>16, <1>17 DEF t

LEMMA WalkRemoveInstruction ==
    ASSUME IInv, IInv', NEW b \in Blocks, NEW i \in Insts, RemoveInstruction(b, i)
    PROVE  /\ Walk(b)' = RemoveAt(Walk(b), Sequences!PositionOf(b, i))
           /\ \A c \in Blocks : c # b => Walk(c)' = Walk(c)
<1> USE NullAssumption DEF IInv
<1>1. PICK s : s = Walk(b)
    OBVIOUS
<1>2. /\ s \in Seq(Insts) /\ Len(s) \in Nat
      /\ s # <<>> => s[1] = first[b] /\ prev[s[1]] = Null /\ next[s[Len(s)]] = Null
      /\ \A k \in 1 .. Len(s) : s[k] \in Insts /\ owner[s[k]] = b
      /\ \A k \in 1 .. Len(s) - 1 : next[s[k]] = s[k + 1]
      /\ \A k \in 2 .. Len(s) : prev[s[k]] = s[k - 1]
      /\ \A j, k \in 1 .. Len(s) : s[j] = s[k] => j = k
    BY <1>1, WalkFacts
<1>3. owner[i] = b
    BY DEF RemoveInstruction
<1>4. PICK p \in 1 .. Len(s) : p = Sequences!PositionOf(b, i) /\ s[p] = i
    BY <1>1, <1>3, Place
<1>5. s # <<>> /\ 1 \in 1 .. Len(s) /\ Len(s) \in 1 .. Len(s) /\ p \in Nat
    BY <1>2, <1>4
<1>6. p # 1 => p \in 2 .. Len(s) /\ p - 1 \in 1 .. Len(s) /\ prev[i] = s[p - 1] /\ prev[i] \in Insts
    BY <1>2, <1>4, <1>5
<1>7. prev[i] = Null <=> p = 1
    BY <1>2, <1>4, <1>5, <1>6
<1>8. next[i] = IF p = Len(s) THEN Null ELSE s[p + 1]
    <2>1. p # Len(s) => p \in 1 .. Len(s) - 1
        BY <1>2, <1>4
    <2> QED
        BY <1>2, <1>4, <1>5, <2>1
<1>9. \A j \in Insts : j # i => next'[j] = IF p # 1 /\ j = s[p - 1] THEN next[i] ELSE next[j]
    BY <1>6, <1>7 DEF RemoveInstruction
<1>10. first'[b] = (IF p = 1 THEN next[i] ELSE first[b]) /\ \A c \in Blocks : c # b => first'[c] = first[c]
    BY <1>7 DEF RemoveInstruction, TypeOK
<1> DEFINE t == RemoveAt(s, p)
<1>11. /\ t \in Seq(Insts) /\ Len(t) = Len(s) - 1
       /\ \A k \in 1 .. Len(s) - 1 : t[k] = IF k < p THEN s[k] ELSE s[k + 1]
    <2>1. s \in Seq(Insts)
        BY <1>2
    <2> QED
        BY <1>4, <2>1, RemovedAt
<1> HIDE DEF t
<1>12. /\ Len(s) \in Nat /\ p \in Nat /\ 1 <= p /\ p <= Len(s) /\ Len(t) = Len(s) - 1
       /\ t = <<>> <=> Len(s) = 1
    BY <1>2, <1>4, <1>5, <1>11
<1>13. t # <<>> => t[1] = first'[b] /\ first'[b] # Null
    <2>1. SUFFICES ASSUME t # <<>>
                   PROVE  t[1] = first'[b] /\ first'[b] # Null
        OBVIOUS
    <2>2. 1 \in 1 .. Len(s) - 1 /\ 2 \in 1 .. Len(s)
        BY <1>12, <2>1
    <2>3. CASE p = 1
        <3>1. ~(1 < p) /\ 1 + 1 = 2 /\ p + 1 = 2 /\ p # Len(s)
            BY <1>2, <2>2, <2>3
        <3> QED
            BY <1>2, <1>8, <1>10, <1>11, <2>2, <2>3, <3>1
    <2>4. CASE p # 1
        <3>1. 1 < p
            BY <1>4, <1>5, <2>4
        <3> QED
            BY <1>2, <1>5, <1>10, <1>11, <2>2, <2>4, <3>1
    <2> QED
        BY <2>3, <2>4
<1>14. t = <<>> => first'[b] = Null
    <2>1. Len(s) = 1 => p = 1 /\ p = Len(s)
        BY <1>4
    <2> QED
        BY <1>8, <1>10, <1>12, <2>1
<1>15. t # <<>> => next'[t[Len(t)]] = Null
    <2>1. SUFFICES ASSUME t # <<>>
                   PROVE  next'[t[Len(t)]] = Null
        OBVIOUS
    <2>2. Len(s) - 1 \in 1 .. Len(s) - 1 /\ Len(s) - 1 \in 1 .. Len(s) /\ (Len(s) - 1) + 1 = Len(s) /\ Len(s) - 1 # Len(s)
        BY <1>12, <2>1
    <2>3. t[Len(t)] = IF Len(s) - 1 < p THEN s[Len(s) - 1] ELSE s[Len(s)]
        BY <1>11, <2>2
    <2>4. CASE p = Len(s)
        <3>1. Len(s) - 1 < p /\ p # 1
            BY <1>12, <2>1, <2>4
        <3>2. s[Len(s) - 1] # i /\ s[Len(s) - 1] \in Insts
            BY <1>2, <1>4, <2>2, <2>4
        <3>3. t[Len(t)] = s[p - 1]
            BY <2>3, <2>4, <3>1
        <3> QED
            BY <1>8, <1>9, <2>4, <3>1, <3>2, <3>3
    <2>5. CASE p # Len(s)
        <3>1. ~(Len(s) - 1 < p)
            BY <1>2, <1>4, <2>5
        <3>2. s[Len(s)] # i /\ s[Len(s)] \in Insts
            BY <1>2, <1>4, <1>5, <2>5
        <3>3. p # 1 => p - 1 # Len(s) /\ s[p - 1] # s[Len(s)]
            BY <1>2, <1>4, <1>5, <1>6
        <3>4. next'[s[Len(s)]] = next[s[Len(s)]]
            BY <1>9, <3>2, <3>3
        <3> QED
            BY <1>2, <1>5, <2>3, <3>1, <3>4
    <2> QED
        BY <2>4, <2>5
<1>16. ASSUME NEW k \in 1 .. Len(t) - 1
       PROVE  next'[t[k]] = t[k + 1]
    <2>1. k \in Nat /\ k \in 1 .. Len(s) - 1 /\ k + 1 \in 1 .. Len(s) - 1 /\ k \in 1 .. Len(s) /\ k + 1 \in 1 .. Len(s)
        BY <1>2, <1>5, <1>11
    <2>2. CASE k < p - 1
        <3>1. k < p /\ k + 1 < p /\ k # p - 1 /\ k # p
            BY <1>4, <1>5, <2>1, <2>2
        <3>2. t[k] = s[k] /\ t[k + 1] = s[k + 1]
            BY <1>11, <2>1, <3>1
        <3>3. s[k] # i /\ s[k] \in Insts
            BY <1>2, <1>4, <2>1, <3>1
        <3>4. p # 1 => s[k] # s[p - 1]
            BY <1>2, <1>6, <2>1, <3>1
        <3>5. next'[s[k]] = next[s[k]]
            BY <1>9, <3>3, <3>4
        <3>6. next[s[k]] = s[k + 1]
            BY <1>2, <2>1
        <3> QED
            BY <3>2, <3>5, <3>6
    <2>3. CASE k = p - 1
        <3>1. k < p /\ k + 1 = p /\ ~(k + 1 < p) /\ p # 1 /\ p # Len(s) /\ k # p /\ (k + 1) + 1 = p + 1
            BY <1>2, <1>4, <1>5, <2>1, <2>3
        <3>2. t[k] = s[p - 1] /\ t[k + 1] = s[p + 1]
            BY <1>11, <2>1, <2>3, <3>1
        <3>3. s[p - 1] # i /\ s[p - 1] \in Insts
            BY <1>2, <1>4, <2>1, <2>3, <3>1
        <3> QED
            BY <1>8, <1>9, <3>1, <3>2, <3>3
    <2>4. CASE k >= p
        <3>1. /\ ~(k < p) /\ ~(k + 1 < p) /\ k + 1 # p /\ k + 1 # p - 1
              /\ (k + 1) \in 1 .. Len(s) - 1
            BY <1>2, <1>4, <1>5, <2>1, <2>4
        <3>2. t[k] = s[k + 1] /\ t[k + 1] = s[(k + 1) + 1]
            BY <1>11, <2>1, <3>1
        <3>3. s[k + 1] # i /\ s[k + 1] \in Insts
            BY <1>2, <1>4, <2>1, <3>1
        <3>4. p # 1 => s[k + 1] # s[p - 1]
            BY <1>2, <1>6, <2>1, <3>1
        <3>5. next'[s[k + 1]] = next[s[k + 1]]
            BY <1>9, <3>3, <3>4
        <3>6. next[s[k + 1]] = s[(k + 1) + 1]
            BY <1>2, <3>1
        <3> QED
            BY <3>2, <3>5, <3>6
    <2> QED
        BY <1>4, <1>5, <2>1, <2>2, <2>3, <2>4
<1>17. CodeAfter(b, t)
    BY <1>13, <1>14, <1>15, <1>16 DEF CodeAfter
<1>18. Walk(b)' = t
    BY <1>11, <1>17, CodeIsWalkAfter
<1>19. ASSUME NEW c \in Blocks, c # b
       PROVE  Walk(c)' = Walk(c)
    <2>1. p # 1 => owner[s[p - 1]] = b
        BY <1>2, <1>6
    <2>2. \A j \in Insts : owner[j] = c => next'[j] = next[j]
        BY <1>3, <1>9, <1>19, <2>1
    <2> QED
        BY <1>10, <1>19, <2>2, Untouched
<1> QED
    BY <1>1, <1>4, <1>18, <1>19 DEF t

LEMMA WalkSplitAt ==
    ASSUME IInv, IInv', NEW b \in Blocks, NEW new \in Blocks, NEW i \in Insts, SplitAt(b, new, i)
    PROVE  /\ Walk(b)' = SubSeq(Walk(b), 1, Sequences!PositionOf(b, i) - 1)
           /\ Walk(new)' = SubSeq(Walk(b), Sequences!PositionOf(b, i), Len(Walk(b)))
           /\ \A c \in Blocks : c # b /\ c # new => Walk(c)' = Walk(c)
<1> USE NullAssumption DEF IInv
<1>1. PICK s : s = Walk(b)
    OBVIOUS
<1>2. /\ s \in Seq(Insts) /\ Len(s) \in Nat
      /\ s # <<>> => s[1] = first[b] /\ prev[s[1]] = Null /\ next[s[Len(s)]] = Null
      /\ \A k \in 1 .. Len(s) : s[k] \in Insts /\ owner[s[k]] = b
      /\ \A k \in 1 .. Len(s) - 1 : next[s[k]] = s[k + 1]
      /\ \A k \in 2 .. Len(s) : prev[s[k]] = s[k - 1]
      /\ \A j, k \in 1 .. Len(s) : s[j] = s[k] => j = k
    BY <1>1, WalkFacts
<1>3. owner[i] = b /\ b # new
    BY DEF SplitAt
<1>4. PICK p \in 1 .. Len(s) : p = Sequences!PositionOf(b, i) /\ s[p] = i
    BY <1>1, <1>3, Place
<1>5. s # <<>> /\ 1 \in 1 .. Len(s) /\ Len(s) \in 1 .. Len(s) /\ p \in Nat
    BY <1>2, <1>4
<1>6. p # 1 => p \in 2 .. Len(s) /\ p - 1 \in 1 .. Len(s) /\ prev[i] = s[p - 1] /\ prev[i] \in Insts
    BY <1>2, <1>4, <1>5
<1>7. prev[i] = Null <=> p = 1
    BY <1>2, <1>4, <1>5, <1>6
<1>8. \A j \in Insts : next'[j] = IF p # 1 /\ j = s[p - 1] THEN Null ELSE next[j]
    BY <1>6, <1>7 DEF SplitAt, TypeOK
<1>9. /\ first'[b] = IF p = 1 THEN Null ELSE first[b]
      /\ first'[new] = i
      /\ \A c \in Blocks : c # b /\ c # new => first'[c] = first[c]
    BY <1>3, <1>7 DEF SplitAt, TypeOK
<1> DEFINE u == SubSeq(s, 1, p - 1)
           v == SubSeq(s, p, Len(s))
<1>10. /\ u \in Seq(Insts) /\ Len(u) = p - 1 /\ \A k \in 1 .. p - 1 : u[k] = s[k]
       /\ v \in Seq(Insts) /\ Len(v) = Len(s) - p + 1 /\ \A k \in 1 .. Len(s) - p + 1 : v[k] = s[p + k - 1]
    BY <1>2, <1>4
<1> HIDE DEF u, v
<1>11. Len(s) \in Nat /\ p \in Nat /\ 1 <= p /\ p <= Len(s) /\ Len(u) = p - 1 /\ Len(v) = Len(s) - p + 1
    BY <1>2, <1>4, <1>10
<1>12. Walk(b)' = u
    <2>1. u = <<>> <=> p = 1
        BY <1>5, <1>10
    <2>2. p # 1 => u[1] = first[b] /\ first[b] # Null
        <3>1. p # 1 => 1 \in 1 .. p - 1
            BY <1>4, <1>5
        <3> QED
            BY <1>2, <1>5, <1>10, <3>1
    <2>3. p # 1 => next'[u[Len(u)]] = Null
        <3>1. p # 1 => Len(u) \in 1 .. p - 1 /\ Len(u) = p - 1
            BY <1>4, <1>5, <1>10
        <3>2. p # 1 => u[Len(u)] = s[p - 1]
            BY <1>10, <3>1
        <3> QED
            BY <1>2, <1>6, <1>8, <3>2
    <2>4. ASSUME NEW k \in 1 .. Len(u) - 1
          PROVE  next'[u[k]] = u[k + 1]
        <3>1. /\ k \in 1 .. p - 1 /\ k + 1 \in 1 .. p - 1 /\ k \in 1 .. Len(s) - 1 /\ k \in 1 .. Len(s)
              /\ k # p - 1 /\ p # 1
            BY <1>11
        <3>2. s[k] # s[p - 1] /\ s[k] \in Insts
            BY <1>2, <1>6, <3>1
        <3>3. next'[s[k]] = next[s[k]]
            BY <1>8, <3>2
        <3>4. next[s[k]] = s[k + 1]
            BY <1>2, <3>1
        <3> QED
            BY <1>10, <3>1, <3>3, <3>4
    <2>5. CodeAfter(b, u)
        BY <1>9, <2>1, <2>2, <2>3, <2>4 DEF CodeAfter
    <2> QED
        BY <1>10, <2>5, CodeIsWalkAfter
<1>13. Walk(new)' = v
    <2>1. v # <<>> /\ 1 \in 1 .. Len(s) - p + 1 /\ p + 1 - 1 = p
        <3>1. Len(v) # 0 /\ 1 \in 1 .. Len(s) - p + 1 /\ p + 1 - 1 = p
            BY <1>11
        <3> QED
            BY <1>10, <3>1
    <2>2. v[1] = i
        BY <1>4, <1>10, <2>1
    <2>3. next'[v[Len(v)]] = Null
        <3>1. Len(v) \in 1 .. Len(s) - p + 1 /\ p + Len(v) - 1 = Len(s)
            BY <1>11
        <3>2. v[Len(v)] = s[Len(s)]
            BY <1>10, <3>1
        <3> QED
            BY <1>2, <1>5, <1>8, <3>2
    <2>4. ASSUME NEW k \in 1 .. Len(v) - 1
          PROVE  next'[v[k]] = v[k + 1]
        <3> DEFINE n == p + k - 1
        <3>1. /\ k \in 1 .. Len(s) - p + 1 /\ k + 1 \in 1 .. Len(s) - p + 1
              /\ n \in 1 .. Len(s) - 1 /\ n \in 1 .. Len(s) /\ p + (k + 1) - 1 = n + 1 /\ n # p - 1
            BY <1>11
        <3>2. v[k] = s[n]
            BY <1>10, <3>1
        <3>3. v[k + 1] = s[n + 1]
            <4>1. v[k + 1] = s[p + (k + 1) - 1]
                BY <1>10, <3>1
            <4> QED
                BY <3>1, <4>1
        <3> HIDE DEF n
        <3>4. p # 1 => s[n] # s[p - 1]
            BY <1>2, <1>6, <3>1
        <3>5. next'[s[n]] = next[s[n]]
            BY <1>2, <1>8, <3>1, <3>4
        <3>6. next[s[n]] = s[n + 1]
            BY <1>2, <3>1
        <3> QED
            BY <3>2, <3>3, <3>5, <3>6
    <2>5. CodeAfter(new, v)
        BY <1>9, <2>1, <2>2, <2>3, <2>4 DEF CodeAfter
    <2> QED
        BY <1>10, <2>5, CodeIsWalkAfter
<1>14. ASSUME NEW c \in Blocks, c # b, c # new
       PROVE  Walk(c)' = Walk(c)
    <2>1. p # 1 => owner[s[p - 1]] = b
        BY <1>2, <1>6
    <2>2. \A j \in Insts : owner[j] = c => next'[j] = next[j]
        BY <1>8, <1>14, <2>1
    <2> QED
        BY <1>9, <1>14, <2>2, Untouched
<1> QED
    BY <1>1, <1>4, <1>12, <1>13, <1>14 DEF u, v

-----------------------------------------------------------------------------
(* Every call is the call of BlockSeq with the same arguments. *)

LEMMA ListedIsOwned ==
    ASSUME IInv
    PROVE  /\ \A b \in Blocks, i \in Insts : i \in Range(Walk(b)) <=> owner[i] = b
           /\ \A i \in Insts : Detached(i) => i \notin Sequences!Listed
<1>1. \A b \in Blocks : Range(Walk(b)) = {i \in Insts : owner[i] = b}
    BY WalkIsCode, CodeFacts
<1>2. ASSUME NEW i \in Insts, Detached(i), i \in Sequences!Listed
      PROVE  FALSE
    <2>1. PICK b \in Blocks : i \in Range(Walk(b))
        BY <1>2 DEF Sequences!Listed, Sequences!Range, Range
    <2> QED
        BY <1>1, <1>2, <2>1, NullAssumption DEF Detached
<1> QED
    BY <1>1, <1>2

LEMMA SamePushBack ==
    ASSUME IInv, IInv', NEW b \in Blocks, NEW i \in Insts, PushBackInstruction(b, i)
    PROVE  Sequences!PushBackInstruction(b, i)
<1>1. b \in blocks /\ i \notin Sequences!Listed /\ blocks' = blocks
    BY ListedIsOwned DEF PushBackInstruction
<1>2. Walk(b)' = Append(Walk(b), i) /\ \A c \in Blocks : c # b => Walk(c)' = Walk(c)
    BY WalkPushBack
<1>3. [c \in Blocks |-> Walk(c)'] = [[c \in Blocks |-> Walk(c)] EXCEPT ![b] = Append(@, i)]
    BY <1>2
<1> QED
    BY <1>1, <1>3 DEF Sequences!PushBackInstruction

LEMMA SameInsertBefore ==
    ASSUME IInv, IInv', NEW b \in Blocks, NEW new \in Insts, NEW i \in Insts, InsertBefore(b, new, i)
    PROVE  Sequences!InsertBefore(b, new, i)
<1>1. new \notin Sequences!Listed /\ i \in Range(Walk(b)) /\ blocks' = blocks
    BY ListedIsOwned DEF InsertBefore
<1>2. /\ Walk(b)' = InsertAt(Walk(b), Sequences!PositionOf(b, i), new)
      /\ \A c \in Blocks : c # b => Walk(c)' = Walk(c)
    BY WalkInsertBefore
<1>3. [c \in Blocks |-> Walk(c)'] =
        [[c \in Blocks |-> Walk(c)] EXCEPT ![b] = InsertAt(@, Sequences!PositionOf(b, i), new)]
    BY <1>2
<1> QED
    BY <1>1, <1>3 DEF Sequences!InsertBefore, Sequences!InsertAt, InsertAt, Sequences!Range, Range

LEMMA SameRemoveInstruction ==
    ASSUME IInv, IInv', NEW b \in Blocks, NEW i \in Insts, RemoveInstruction(b, i)
    PROVE  Sequences!RemoveInstruction(b, i)
<1>1. i \in Range(Walk(b)) /\ blocks' = blocks
    BY ListedIsOwned DEF RemoveInstruction
<1>2. /\ Walk(b)' = RemoveAt(Walk(b), Sequences!PositionOf(b, i))
      /\ \A c \in Blocks : c # b => Walk(c)' = Walk(c)
    BY WalkRemoveInstruction
<1>3. [c \in Blocks |-> Walk(c)'] =
        [[c \in Blocks |-> Walk(c)] EXCEPT ![b] = RemoveAt(@, Sequences!PositionOf(b, i))]
    BY <1>2
<1> QED
    BY <1>1, <1>3 DEF Sequences!RemoveInstruction, Sequences!RemoveAt, RemoveAt, Sequences!Range, Range

LEMMA SameSplitAt ==
    ASSUME IInv, IInv', NEW b \in Blocks, NEW new \in Blocks, NEW i \in Insts, SplitAt(b, new, i)
    PROVE  /\ Sequences!PositionOf(b, i) - 1 \in 0 .. Len(Walk(b))
           /\ Sequences!SplitAt(b, new, Sequences!PositionOf(b, i) - 1)
<1>1. b \in blocks /\ new \notin blocks /\ blocks' = blocks \cup {new} /\ b # new
    BY DEF SplitAt
<1>2. Sequences!PositionOf(b, i) \in 1 .. Len(Walk(b)) /\ Len(Walk(b)) \in Nat
    BY Place, WalkFacts DEF SplitAt
<1>3. /\ Walk(b)' = SubSeq(Walk(b), 1, Sequences!PositionOf(b, i) - 1)
      /\ Walk(new)' = SubSeq(Walk(b), Sequences!PositionOf(b, i), Len(Walk(b)))
      /\ \A c \in Blocks : c # b /\ c # new => Walk(c)' = Walk(c)
    BY WalkSplitAt
<1> DEFINE p == Sequences!PositionOf(b, i)
           k == p - 1
<1>4. k \in 0 .. Len(Walk(b)) /\ k + 1 = p
    <2> HIDE DEF p
    <2> QED
        BY <1>2 DEF p
<1>5. [c \in Blocks |-> Walk(c)'] =
        [[c \in Blocks |-> Walk(c)] EXCEPT ![b] = SubSeq(Walk(b), 1, k),
                                           ![new] = SubSeq(Walk(b), p, Len(Walk(b)))]
    <2> HIDE DEF p
    <2>1. Walk(b)' = SubSeq(Walk(b), 1, k) /\ Walk(new)' = SubSeq(Walk(b), p, Len(Walk(b)))
        BY <1>3 DEF p
    <2> HIDE DEF k
    <2> QED
        BY <1>1, <1>3, <2>1
<1>6. Sequences!SplitAt(b, new, k)
    <2> HIDE DEF p, k
    <2>1. [c \in Blocks |-> Walk(c)'] =
            [[c \in Blocks |-> Walk(c)] EXCEPT ![b] = SubSeq(Walk(b), 1, k),
                                               ![new] = SubSeq(Walk(b), k + 1, Len(Walk(b)))]
        BY <1>4, <1>5
    <2> QED
        BY <1>1, <2>1 DEF Sequences!SplitAt
<1> QED
    BY <1>4, <1>6

\* A block that is not yet in the graph has no code.
LEMMA NewIsEmpty ==
    ASSUME IInv, NEW b \in Blocks, b \notin blocks
    PROVE  Walk(b) = <<>>
<1>1. first[b] = Null
    BY NullAssumption DEF IInv, TypeOK, WellLinked, EndsAgree
<1>2. PICK s : s = Walk(b)
    OBVIOUS
<1> QED
    BY <1>1, <1>2, WalkFacts

LEMMA SameWalks ==
    ASSUME IInv, IInv', UNCHANGED links
    PROVE  [c \in Blocks |-> Walk(c)'] = [c \in Blocks |-> Walk(c)]
<1>1. \A c \in Blocks : Walk(c)' = Walk(c)
    BY Untouched DEF links
<1> QED
    BY <1>1

LEMMA SameSplitAtEnd ==
    ASSUME IInv, IInv', NEW b \in Blocks, NEW new \in Blocks, SplitAtEnd(b, new)
    PROVE  /\ Len(Walk(b)) \in 0 .. Len(Walk(b))
           /\ Sequences!SplitAt(b, new, Len(Walk(b)))
<1>1. b \in blocks /\ new \notin blocks /\ blocks' = blocks \cup {new} /\ b # new
    BY DEF SplitAtEnd
<1>2. [c \in Blocks |-> Walk(c)'] = [c \in Blocks |-> Walk(c)]
    BY SameWalks DEF SplitAtEnd
<1>3. Walk(new) = <<>>
    BY <1>1, NewIsEmpty
<1>4. PICK s : s = Walk(b)
    OBVIOUS
<1>5. s \in Seq(Insts) /\ Len(s) \in Nat
    BY <1>4, WalkFacts
<1>6. SubSeq(s, 1, Len(s)) = s /\ SubSeq(s, Len(s) + 1, Len(s)) = <<>>
    BY <1>5
<1>7. [c \in Blocks |-> Walk(c)] =
        [[c \in Blocks |-> Walk(c)] EXCEPT ![b] = s, ![new] = <<>>]
    BY <1>1, <1>3, <1>4
<1>8. [c \in Blocks |-> Walk(c)'] =
        [[c \in Blocks |-> Walk(c)] EXCEPT ![b] = SubSeq(s, 1, Len(s)),
                                           ![new] = SubSeq(s, Len(s) + 1, Len(s))]
    BY <1>2, <1>6, <1>7
<1>9. Sequences!SplitAt(b, new, Len(Walk(b)))
    BY <1>1, <1>4, <1>8 DEF Sequences!SplitAt
<1> QED
    BY <1>4, <1>5, <1>9

LEMMA InitSame == Init => Sequences!Init
<1> SUFFICES ASSUME Init
             PROVE  Sequences!Init
    OBVIOUS
<1>1. IInv
    BY InitIInv
<1>2. \A b \in Blocks : Walk(b) = <<>>
    BY <1>1, NewIsEmpty DEF Init
<1> QED
    BY <1>2 DEF Init, Sequences!Init

LEMMA NextSame ==
    ASSUME IInv, IInv', [Next]_vars
    PROVE  [Sequences!Next]_(Sequences!vars) /\ [SameCall]_vars
<1>1. CASE UNCHANGED vars
    <2>1. blocks' = blocks /\ [c \in Blocks |-> Walk(c)'] = [c \in Blocks |-> Walk(c)]
        BY <1>1, SameWalks DEF vars
    <2> QED
        BY <1>1, <2>1 DEF Sequences!vars
<1>2. CASE Next
    <2>1. SameCall
        BY SamePushBack, SameRemoveInstruction, SameInsertBefore, SameSplitAt, SameSplitAtEnd DEF SameCall
    <2>2. ASSUME NEW b \in Blocks, CreateBasicBlock(b)
          PROVE  Sequences!Next
        <3>1. [c \in Blocks |-> Walk(c)'] = [c \in Blocks |-> Walk(c)]
            BY <2>2, SameWalks DEF CreateBasicBlock
        <3>2. Sequences!CreateBasicBlock(b)
            BY <2>2, <3>1 DEF CreateBasicBlock, Sequences!CreateBasicBlock
        <3> QED
            BY <3>2 DEF Sequences!Next
    <2>3. ASSUME NEW b \in Blocks, NEW i \in Insts, PushBackInstruction(b, i) \/ RemoveInstruction(b, i)
          PROVE  Sequences!Next
        <3>1. Sequences!PushBackInstruction(b, i) \/ Sequences!RemoveInstruction(b, i)
            BY <2>3, SamePushBack, SameRemoveInstruction
        <3> QED
            BY <3>1 DEF Sequences!Next
    <2>4. ASSUME NEW b \in Blocks, NEW new \in Insts, NEW i \in Insts, InsertBefore(b, new, i)
          PROVE  Sequences!Next
        <3>1. Sequences!InsertBefore(b, new, i)
            BY <2>4, SameInsertBefore
        <3> QED
            BY <3>1 DEF Sequences!Next
    <2>5. ASSUME NEW b \in Blocks, NEW new \in Blocks,
                 SplitAtEnd(b, new) \/ \E i \in Insts : SplitAt(b, new, i)
          PROVE  Sequences!Next
        <3>1. \E k \in 0 .. Len(Walk(b)) : Sequences!SplitAt(b, new, k)
            BY <2>5, SameSplitAt, SameSplitAtEnd
        <3> QED
            BY <3>1 DEF Sequences!Next
    <2> QED
        BY <1>2, <2>1, <2>2, <2>3, <2>4, <2>5 DEF Next
<1> QED
    BY <1>1, <1>2

(***************************************************************************)
(* The pointers implement sequences: whatever calls are made, the code of  *)
(* a block is what a walk from its first instruction visits, and every     *)
(* call appends, inserts, removes or splits there as the same call of      *)
(* BlockSeq does, leaving the code of all other blocks as it was.          *)
(***************************************************************************)
THEOREM ListsImplementSequences == Spec => ImplementsBlockSeq
<1>1. IInv /\ IInv' /\ [Next]_vars => [Sequences!Next]_(Sequences!vars) /\ [SameCall]_vars
    BY NextSame
<1> QED
    BY <1>1, InitSame, InductiveInvariant, PTL DEF Spec, ImplementsBlockSeq, Sequences!Spec

-----------------------------------------------------------------------------
(* The records of uses, for any graph of UseDef. *)

Uses == INSTANCE UseDef

IsInstruction(n) == n \in
    [op : {n.op}, in : Seq(Int), val : {n.val}, users : SUBSET (Int \X Int), block : Int]

IsGraph(g) ==
    /\ g \in [insts : {g.insts}, code : {g.code}, succs : {g.succs}, preds : {g.preds}]
    /\ \A j \in DOMAIN g.insts : IsInstruction(g.insts[j])

\* Each input of an instruction in a block is on record with what it is an input
\* of, and with nothing else.
Recorded(g) == \A j \in DOMAIN g.insts : g.insts[j].block # 0 =>
    \A k \in DOMAIN g.insts[j].in :
        /\ g.insts[j].in[k] \in DOMAIN g.insts
        /\ \A d \in DOMAIN g.insts : <<j, k>> \in g.insts[d].users <=> d = g.insts[j].in[k]

\* h is g with the recorded uses of i rewritten, field by field.
IsReplaced(h, g, i, other) ==
    /\ DOMAIN h.insts = DOMAIN g.insts
    /\ \A j \in DOMAIN g.insts :
          /\ h.insts[j].block = g.insts[j].block
          /\ h.insts[j].in = [k \in DOMAIN g.insts[j].in |->
                 IF <<j, k>> \in g.insts[i].users THEN other ELSE g.insts[j].in[k]]
          /\ h.insts[j].users =
                 IF j = i THEN {}
                 ELSE IF j = other
                 THEN g.insts[j].users \cup {u \in g.insts[i].users : g.insts[u[1]].block # 0}
                 ELSE g.insts[j].users

LEMMA ReplacedFields ==
    ASSUME NEW g, IsGraph(g), NEW i \in DOMAIN g.insts, NEW other \in DOMAIN g.insts, other # i,
           NEW h, h = Uses!ReplaceAllUsesWith(g, i, other)
    PROVE  IsReplaced(h, g, i, other)
<1> DEFINE uses == g.insts[i].users
           listed == {u \in uses : g.insts[u[1]].block # 0}
           rewritten == [j \in DOMAIN g.insts |->
                [g.insts[j] EXCEPT !.in = [k \in DOMAIN @ |-> IF <<j, k>> \in uses THEN other ELSE @[k]]]]
           replaced == [j \in DOMAIN rewritten |->
                [rewritten[j] EXCEPT !.users = IF j = i THEN {} ELSE IF j = other THEN @ \cup listed ELSE @]]
<1>1. h = [g EXCEPT !.insts = replaced]
    BY DEF Uses!ReplaceAllUsesWith
<1>2. h.insts = replaced
    <2> HIDE DEF replaced
    <2> QED
        BY <1>1 DEF IsGraph
<1>3. ASSUME NEW j \in DOMAIN g.insts
      PROVE  /\ replaced[j].block = g.insts[j].block
             /\ replaced[j].in = [k \in DOMAIN g.insts[j].in |->
                    IF <<j, k>> \in uses THEN other ELSE g.insts[j].in[k]]
             /\ replaced[j].users = IF j = i THEN {}
                                    ELSE IF j = other THEN g.insts[j].users \cup listed ELSE g.insts[j].users
    <2> DEFINE n == g.insts[j]
               in == [k \in DOMAIN n.in |-> IF <<j, k>> \in uses THEN other ELSE n.in[k]]
               m == [n EXCEPT !.in = in]
    <2>1. n \in [op : {n.op}, in : Seq(Int), val : {n.val}, users : SUBSET (Int \X Int), block : Int]
        BY DEF IsGraph, IsInstruction
    <2>2. rewritten[j] = m
        OBVIOUS
    <2>3. /\ m.in = in /\ m.users = n.users /\ m.block = n.block
          /\ DOMAIN m = DOMAIN n /\ DOMAIN n = {"op", "in", "val", "users", "block"}
        <3> HIDE DEF n, in
        <3> QED
            BY <2>1
    <2> DEFINE us == IF j = i THEN {} ELSE IF j = other THEN m.users \cup listed ELSE m.users
    <2>4. replaced[j] = [m EXCEPT !.users = us]
        <3> HIDE DEF listed, m
        <3> QED
            BY <2>2
    <2>5. [m EXCEPT !.users = us].users = us /\ [m EXCEPT !.users = us].in = m.in
          /\ [m EXCEPT !.users = us].block = m.block
        <3> HIDE DEF us, m
        <3> QED
            BY <2>3
    <2> HIDE DEF replaced, listed, m, in
    <2> QED
        BY <2>3, <2>4, <2>5 DEF in
<1>4. DOMAIN replaced = DOMAIN g.insts
    OBVIOUS
<1> HIDE DEF replaced
<1> QED
    BY <1>2, <1>3, <1>4 DEF IsReplaced

(***************************************************************************)
(* ReplaceAllUsesWith finds all uses and only uses, in any graph: where    *)
(* each input is on record with what it is an input of and with nothing    *)
(* else, it makes the other instruction the input of exactly those that    *)
(* had the replaced one, and the records are exact again, so that the next *)
(* replacement finds all uses too.                                         *)
(***************************************************************************)
THEOREM ReplacementIsExact ==
    ASSUME NEW g, IsGraph(g), Recorded(g), NEW i \in DOMAIN g.insts, NEW other \in DOMAIN g.insts
    PROVE  LET h == Uses!ReplaceAllUsesWith(g, i, other)
           IN  /\ Recorded(h)
               /\ \A j \in DOMAIN g.insts : g.insts[j].block # 0 =>
                     h.insts[j].in = [k \in DOMAIN g.insts[j].in |->
                         IF g.insts[j].in[k] = i THEN other ELSE g.insts[j].in[k]]
<1>1. PICK h : h = Uses!ReplaceAllUsesWith(g, i, other)
    OBVIOUS
<1>2. CASE other = i
    <2>1. h = g
        BY <1>1, <1>2 DEF Uses!ReplaceAllUsesWith
    <2>2. ASSUME NEW j \in DOMAIN g.insts
          PROVE  g.insts[j].in = [k \in DOMAIN g.insts[j].in |->
                                     IF g.insts[j].in[k] = i THEN other ELSE g.insts[j].in[k]]
        <3>1. g.insts[j].in \in Seq(Int)
            BY DEF IsGraph, IsInstruction
        <3>2. g.insts[j].in = [k \in DOMAIN g.insts[j].in |-> g.insts[j].in[k]]
            BY <3>1
        <3> QED
            BY <1>2, <3>2
    <2> QED
        BY <1>1, <2>1, <2>2
<1>3. CASE other # i
    <2>1. /\ DOMAIN h.insts = DOMAIN g.insts
          /\ \A j \in DOMAIN g.insts :
                /\ h.insts[j].block = g.insts[j].block
                /\ h.insts[j].in = [k \in DOMAIN g.insts[j].in |->
                       IF <<j, k>> \in g.insts[i].users THEN other ELSE g.insts[j].in[k]]
                /\ h.insts[j].users =
                       IF j = i THEN {}
                       ELSE IF j = other
                       THEN g.insts[j].users \cup {u \in g.insts[i].users : g.insts[u[1]].block # 0}
                       ELSE g.insts[j].users
        <3>1. IsReplaced(h, g, i, other)
            BY <1>1, <1>3, ReplacedFields
        <3> QED
            BY <3>1 DEF IsReplaced
    <2>2. ASSUME NEW j \in DOMAIN g.insts, g.insts[j].block # 0, NEW k \in DOMAIN g.insts[j].in
          PROVE  /\ g.insts[j].in[k] \in DOMAIN g.insts
                 /\ \A d \in DOMAIN g.insts : <<j, k>> \in g.insts[d].users <=> d = g.insts[j].in[k]
                 /\ <<j, k>> \in g.insts[i].users <=> g.insts[j].in[k] = i
        BY <2>2 DEF Recorded
    <2>3. ASSUME NEW j \in DOMAIN g.insts, g.insts[j].block # 0
          PROVE  h.insts[j].in = [k \in DOMAIN g.insts[j].in |->
                                     IF g.insts[j].in[k] = i THEN other ELSE g.insts[j].in[k]]
        <3>1. \A k \in DOMAIN g.insts[j].in : <<j, k>> \in g.insts[i].users <=> g.insts[j].in[k] = i
            BY <2>2, <2>3
        <3>2. h.insts[j].in = [k \in DOMAIN g.insts[j].in |->
                  IF <<j, k>> \in g.insts[i].users THEN other ELSE g.insts[j].in[k]]
            BY <2>1
        <3> QED
            BY <3>1, <3>2
    <2>4. ASSUME NEW j \in DOMAIN g.insts, g.insts[j].block # 0, NEW k \in DOMAIN g.insts[j].in
          PROVE  /\ h.insts[j].in[k] \in DOMAIN g.insts
                 /\ \A d \in DOMAIN g.insts : <<j, k>> \in h.insts[d].users <=> d = h.insts[j].in[k]
        <3>1. h.insts[j].in[k] = IF g.insts[j].in[k] = i THEN other ELSE g.insts[j].in[k]
            BY <2>3, <2>4
        <3>2. h.insts[j].in[k] \in DOMAIN g.insts
            BY <2>2, <2>4, <3>1
        <3>3. ASSUME NEW d \in DOMAIN g.insts
              PROVE  <<j, k>> \in h.insts[d].users <=> d = h.insts[j].in[k]
            <4>1. <<j, k>>[1] = j
                OBVIOUS
            <4>2. <<j, k>> \in {u \in g.insts[i].users : g.insts[u[1]].block # 0}
                    <=> <<j, k>> \in g.insts[i].users
                BY <2>4, <4>1
            <4>3. /\ <<j, k>> \in g.insts[d].users <=> d = g.insts[j].in[k]
                  /\ <<j, k>> \in g.insts[i].users <=> g.insts[j].in[k] = i
                BY <2>2, <2>4
            <4>4. h.insts[d].users = IF d = i THEN {}
                     ELSE IF d = other
                     THEN g.insts[d].users \cup {u \in g.insts[i].users : g.insts[u[1]].block # 0}
                     ELSE g.insts[d].users
                BY <2>1
            <4>5. CASE d = i
                BY <1>3, <3>1, <4>4, <4>5
            <4>6. CASE d # i /\ d = other
                <5>1. <<j, k>> \in h.insts[d].users <=> <<j, k>> \in g.insts[d].users \/ <<j, k>> \in g.insts[i].users
                    BY <4>2, <4>4, <4>6
                <5> QED
                    BY <3>1, <4>3, <4>6, <5>1
            <4>7. CASE d # i /\ d # other
                BY <3>1, <4>3, <4>4, <4>7
            <4> QED
                BY <4>5, <4>6, <4>7
        <3> QED
            BY <3>2, <3>3
    <2>5. Recorded(h)
        <3>1. ASSUME NEW j \in DOMAIN h.insts, h.insts[j].block # 0, NEW k \in DOMAIN h.insts[j].in
              PROVE  /\ h.insts[j].in[k] \in DOMAIN h.insts
                     /\ \A d \in DOMAIN h.insts : <<j, k>> \in h.insts[d].users <=> d = h.insts[j].in[k]
            <4>1. j \in DOMAIN g.insts /\ g.insts[j].block # 0 /\ k \in DOMAIN g.insts[j].in
                BY <2>1, <3>1
            <4> QED
                BY <2>1, <2>4, <4>1
        <3> QED
            BY <3>1 DEF Recorded
    <2> QED
        BY <1>1, <2>3, <2>5
<1> QED
    BY <1>2, <1>3

=============================================================================
