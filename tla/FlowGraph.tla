------------------------------ MODULE FlowGraph ------------------------------
(***************************************************************************)
(* Graphs, and the textbook definitions on paths that the analyses are     *)
(* compared with.  G maps each block to the set of its successors.         *)
(***************************************************************************)
EXTENDS Integers, FiniteSets

PredsIn(G, x) == {p \in DOMAIN G : x \in G[p]}

\* The sets that hold S and that no edge into Within leaves.
ClosedSets(G, S, Within) ==
    {R \in {S \cup T : T \in SUBSET (Within \ S)} : \A x \in R : G[x] \cap Within \subseteq R}

\* What is reached from S by edges into Within, S included: the least closed set.
ReachFrom(G, S, Within) ==
    LET closed == ClosedSets(G, S, Within)
    IN  {x \in S \cup Within : \A R \in closed : x \in R}

\* x and its ancestors in a tree given by the parent of each node.
ChainIn(parent, none, x) ==
    ReachFrom([y \in DOMAIN parent |-> {parent[y]} \ {none}], {x}, DOMAIN parent)

\* d dominates x: from the start, x is not reached without going through d.
DominatesIn(G, start, d, x) ==
    x \notin ReachFrom(G, {start} \ {d}, DOMAIN G \ {d})

ReachableIn(G, start) == ReachFrom(G, {start}, DOMAIN G)

\* The edges that go back to a dominator of their source.
NaturalBackEdges(G, start) ==
    {e \in ReachableIn(G, start) \X DOMAIN G :
        e[2] \in G[e[1]] /\ DominatesIn(G, start, e[2], e[1])}

\* Without those edges no block reaches itself.
Reducible(G, start) ==
    LET R == ReachableIn(G, start)
        Forward == [x \in R |-> {y \in G[x] : <<x, y>> \notin NaturalBackEdges(G, start)}]
    IN  \A x \in R : x \notin ReachFrom(Forward, Forward[x], R)

\* The header, and what reaches a latch without going through the header.
NaturalLoop(G, start, header, latches) ==
    LET Backwards == [x \in DOMAIN G |-> IF x = header THEN {} ELSE PredsIn(G, x)]
    IN  {header} \cup ReachFrom(Backwards, latches, ReachableIn(G, start))

=============================================================================
