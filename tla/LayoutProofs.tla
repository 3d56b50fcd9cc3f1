---------------------------- MODULE LayoutProofs ----------------------------
(***************************************************************************)
(* The loop analysis keeps the graph well formed, however many headers and *)
(* pre-headers it puts in; what LinearOrder makes of the graph it leaves   *)
(* runs as the graph says; and the analysis changes no path, cuts every    *)
(* cycle by a header and has every natural loop entered through its        *)
(* pre-header; and the loops nest as the natural loops of the graph do,    *)
(* unless one of them is a single block: all that for whatever graph, of   *)
(* any size.                                                               *)
(***************************************************************************)
EXTENDS Layout, FlowGraphProofs

-----------------------------------------------------------------------------
\* f[n] is what a is after n turns of SplitBackEdge.
AreTurns(a, heads, edges, f) ==
  f = [n \in Nat |-> IF n = 0 THEN a
                    ELSE InsertHeader(f[n - 1], heads[n + 1], heads[n], edges[n])]

\* The graphs that the turns lead to are there, whatever the lists are.
LEMMA TurnsExist ==
  ASSUME NEW a, NEW heads, NEW edges
  PROVE  \E f : AreTurns(a, heads, edges, f)
<1> DEFINE InsertTurn(n, x) == InsertHeader(x, heads[n + 1], heads[n], edges[n])
           IsUpTo(n, g) == /\ g = [k \in 0 .. n |-> g[k]] /\ g[0] = a
                           /\ \A k \in 0 .. n - 1 : g[k + 1] = InsertTurn(k + 1, g[k])
           G == {n \in Nat : \E g : IsUpTo(n, g)}
<1> HIDE DEF InsertTurn
<1>1. Nat \subseteq G
  <2>1. 0 \in G
    <3>1. IsUpTo(0, [k \in 0 .. 0 |-> a])
      OBVIOUS
    <3> QED
      BY <3>1
  <2>2. ASSUME NEW n \in Nat, n \in G PROVE n + 1 \in G
    <3>1. PICK g : IsUpTo(n, g)
      BY <2>2
    <3> DEFINE h == [k \in 0 .. n + 1 |-> IF k = n + 1 THEN InsertTurn(n + 1, g[n]) ELSE g[k]]
    <3>2. h = [k \in 0 .. n + 1 |-> h[k]]
      OBVIOUS
    <3>3. h[0] = a
      BY <3>1
    <3>4. ASSUME NEW k \in 0 .. n PROVE h[k + 1] = InsertTurn(k + 1, h[k])
      <4>1. k + 1 \in 0 .. n + 1 /\ k \in 0 .. n + 1 /\ k # n + 1 /\ h[k] = g[k]
        OBVIOUS
      <4>2. CASE k = n
        BY <4>1, <4>2
      <4>3. CASE k # n
        <5>1. k \in 0 .. n - 1 /\ k + 1 # n + 1
          BY <4>3
        <5>2. g[k + 1] = InsertTurn(k + 1, g[k])
          BY <3>1, <5>1
        <5> QED
          BY <4>1, <5>1, <5>2
      <4> QED
        BY <4>2, <4>3
    <3>5. IsUpTo(n + 1, h)
      <4>1. (n + 1) - 1 = n
        OBVIOUS
      <4> HIDE DEF h
      <4> QED
        BY <3>2, <3>3, <3>4, <4>1
    <3> HIDE DEF IsUpTo, h
    <3> QED
      BY <3>5
  <2> HIDE DEF G
  <2> QED
    BY <2>1, <2>2, SetInduction
<1>2. ASSUME NEW m \in Nat, NEW n \in Nat, NEW g, NEW h, IsUpTo(m, g), IsUpTo(n, h), m <= n
      PROVE  g[m] = h[m]
  <2> DEFINE A == {k \in Nat : k <= m => g[k] = h[k]}
  <2>1. 0 \in A
    BY <1>2
  <2>2. ASSUME NEW k \in Nat, k \in A PROVE k + 1 \in A
    <3>1. CASE k + 1 <= m
      <4>1. k \in 0 .. m - 1 /\ k \in 0 .. n - 1 /\ g[k] = h[k]
        BY <1>2, <2>2, <3>1
      <4>2. g[k + 1] = InsertTurn(k + 1, g[k]) /\ h[k + 1] = InsertTurn(k + 1, h[k])
        BY <1>2, <4>1
      <4> QED
        BY <4>1, <4>2
    <3> QED
      BY <3>1
  <2>3. m \in A
    <3> HIDE DEF A
    <3> QED
      BY <2>1, <2>2, SetInduction
  <2> QED
    BY <2>3
<1> DEFINE f == [n \in Nat |-> (CHOOSE g : IsUpTo(n, g))[n]]
<1>3. ASSUME NEW n \in Nat, NEW g, IsUpTo(n, g) PROVE f[n] = g[n]
  <2>1. IsUpTo(n, CHOOSE x : IsUpTo(n, x))
    BY <1>3, Zenon
  <2>2. (CHOOSE x : IsUpTo(n, x))[n] = g[n]
    <3> HIDE DEF IsUpTo
    <3> QED
      BY <1>2, <1>3, <2>1
  <2> QED
    BY <2>2, Zenon
<1>4. ASSUME NEW n \in Nat PROVE f[n + 1] = InsertTurn(n + 1, f[n])
  <2>1. PICK g : IsUpTo(n + 1, g)
    <3>1. n + 1 \in G
      <4> HIDE DEF G
      <4> QED
        BY <1>1
    <3> HIDE DEF IsUpTo
    <3> QED
      BY <3>1
  <2> DEFINE h == [k \in 0 .. n |-> g[k]]
  <2>2. IsUpTo(n, h)
    <3>1. h = [k \in 0 .. n |-> h[k]] /\ h[0] = a
      BY <2>1
    <3>2. ASSUME NEW k \in 0 .. n - 1 PROVE h[k + 1] = InsertTurn(k + 1, h[k])
      <4>1. k \in 0 .. (n + 1) - 1 /\ k \in 0 .. n /\ k + 1 \in 0 .. n
        OBVIOUS
      <4>2. g[k + 1] = InsertTurn(k + 1, g[k])
        BY <2>1, <4>1
      <4> QED
        BY <4>1, <4>2
    <3> HIDE DEF h
    <3> QED
      BY <3>1, <3>2
  <2>3. f[n + 1] = g[n + 1]
    <3> HIDE DEF f, IsUpTo
    <3> QED
      BY <2>1, <1>3
  <2>4. f[n] = h[n]
    <3> HIDE DEF f, IsUpTo, h
    <3> QED
      BY <2>2, <1>3
  <2>5. h[n] = g[n] /\ n \in 0 .. (n + 1) - 1
    OBVIOUS
  <2>6. g[n + 1] = InsertTurn(n + 1, g[n])
    BY <2>1, <2>5
  <2> HIDE DEF f, h, IsUpTo
  <2> QED
    BY <2>3, <2>4, <2>5, <2>6
<1>5. f[0] = a
  <2> DEFINE g == [k \in 0 .. 0 |-> a]
  <2>1. IsUpTo(0, g) /\ g[0] = a
    OBVIOUS
  <2> HIDE DEF f, IsUpTo, g
  <2> QED
    BY <2>1, <1>3
<1>6. \A n \in Nat : f[n] = IF n = 0 THEN a ELSE InsertTurn(n, f[n - 1])
  <2> SUFFICES ASSUME NEW n \in Nat PROVE f[n] = IF n = 0 THEN a ELSE InsertTurn(n, f[n - 1])
    OBVIOUS
  <2>1. CASE n # 0
    <3>1. n - 1 \in Nat /\ (n - 1) + 1 = n
      BY <2>1
    <3>2. f[(n - 1) + 1] = InsertTurn((n - 1) + 1, f[n - 1])
      <4> HIDE DEF f
      <4> QED
        BY <1>4, <3>1
    <3> HIDE DEF f
    <3> QED
      BY <2>1, <3>1, <3>2
  <2> HIDE DEF f
  <2> QED
    BY <1>5, <2>1
<1>7. f = [n \in Nat |-> f[n]]
  OBVIOUS
<1> HIDE DEF f
<1>8. f = [n \in Nat |-> IF n = 0 THEN a ELSE InsertTurn(n, f[n - 1])]
  BY <1>6, <1>7
<1> QED
  BY <1>8 DEF InsertTurn, AreTurns

\* A turn keeps the graph well formed, and the headers still to come without edges.
LEMMA InsertHeaderWF ==
  ASSUME NEW g, WF(g), NEW head, NEW prev, NEW edge,
         CanInsertHeader(g, head, prev, edge), Isolated(g, head), g.term[head] = "none"
  PROVE  LET h == InsertHeader(g, head, prev, edge)
         IN  /\ WF(h) /\ h.blocks = g.blocks /\ h.term = g.term
             /\ \A c \in g.blocks \ {head} : Isolated(g, c) => Isolated(h, c)
<1> DEFINE i == InsertBlockBefore(g, head, prev)
           h == InsertHeader(g, head, prev, edge)
<1>1. /\ head \in g.blocks /\ prev \in g.blocks /\ g.preds[prev] # {}
      /\ g \in Graphs /\ g.blocks \subseteq Ids
  BY DEF CanInsertHeader, CanInsertBefore, HasNoPredecessors, WF, Shape, Graphs
<1>2. WF(i) /\ i.blocks = g.blocks /\ i.term = g.term
  <2>1. CanInsertBefore(g, head, prev)
    BY DEF CanInsertHeader
  <2>2. WF(i)
    BY <1>1, <2>1, InsertBeforeWF
  <2>3. i.blocks = g.blocks /\ i.term = g.term
    BY <1>1, <2>1, InsertBeforeShape DEF WF
  <2> QED
    BY <2>2, <2>3
<1>3. CanReplaceSuccessor(i, edge, head, prev)
  BY DEF CanInsertHeader
<1>4. edge \in i.blocks /\ edge \in Ids /\ head \in SuccSet(i, edge)
  <2>1. edge \in i.blocks /\ edge \in i.preds[head]
    BY <1>3 DEF CanReplaceSuccessor
  <2> QED
    BY <1>1, <1>2, <2>1 DEF WF, Shape, Symmetric
<1>5. h = ReplaceSuccessor(i, edge, head, prev)
  BY DEF InsertHeader
<1>6. WF(h)
  BY <1>1, <1>2, <1>3, <1>4, <1>5, ReplaceSuccessorWF
<1>7. /\ h.blocks = i.blocks /\ h.term = i.term
      /\ \A c \in Ids \ {edge} : h.succs[c] = i.succs[c]
      /\ \A c \in Ids : c # prev /\ c # head => h.preds[c] = i.preds[c]
  BY <1>1, <1>2, <1>3, <1>4, <1>5, ReplaceSuccessorFacts
<1>8. ASSUME NEW c \in g.blocks \ {head}, Isolated(g, c) PROVE Isolated(h, c)
  <2>1. c # prev /\ c \in Ids
    BY <1>1, <1>8 DEF Isolated
  <2>2. SuccSet(g, c) = {}
    BY <1>8 DEF Isolated, SuccSet, NoSuccs
  <2>3. c \notin g.preds[prev]
    BY <1>1, <2>2 DEF WF, Shape, Symmetric
  <2>4. i.succs[c] = g.succs[c] /\ i.preds[c] = g.preds[c]
    BY <1>1, <2>1, <2>3 DEF InsertBlockBefore, Graphs
  <2>5. SuccSet(i, c) = {}
    BY <2>2, <2>4 DEF SuccSet
  <2>6. c # edge
    BY <1>4, <2>5
  <2> HIDE DEF h, i
  <2> QED
    BY <1>7, <1>8, <2>1, <2>4, <2>6 DEF Isolated
<1> HIDE DEF i
<1> QED
  BY <1>2, <1>6, <1>7, <1>8 DEF h

\* What a turn of SplitBackEdge does to the edges.
LEMMA InsertHeaderDetours ==
  ASSUME NEW g, WF(g), NEW head, NEW prev, NEW edge,
         CanInsertHeader(g, head, prev, edge), Isolated(g, head), g.term[head] = "none"
  PROVE  LET h == InsertHeader(g, head, prev, edge)
         IN  /\ prev \in g.blocks /\ head \in g.blocks /\ ~Isolated(g, prev)
             /\ Detoured(g, h, head, prev)
             /\ h.preds[prev] = {head, edge} /\ h.preds[head] = g.preds[prev] \ {edge}
             /\ \A c \in Ids \ {head, prev} : h.preds[c] = g.preds[c]
<1> DEFINE i == InsertBlockBefore(g, head, prev)
           h == InsertHeader(g, head, prev, edge)
<1>1. /\ head \in g.blocks /\ prev \in g.blocks /\ g.preds[prev] # {}
      /\ g \in Graphs /\ g.blocks \subseteq Ids
      /\ \A p \in g.preds[prev] : HasSuccessor(g, p, prev)
  BY DEF CanInsertHeader, CanInsertBefore, HasNoPredecessors, WF, Shape, Graphs
<1>2. ~Isolated(g, prev) /\ head # prev /\ g.preds[head] = {} /\ g.succs[head] = NoSuccs
  BY <1>1 DEF Isolated
<1>3. CanInsertBefore(g, head, prev) /\ CanReplaceSuccessor(i, edge, head, prev)
  BY DEF CanInsertHeader
<1>4. /\ WF(i) /\ i.blocks = g.blocks
  BY <1>1, <1>3, InsertBeforeWF, InsertBeforeShape DEF WF
<1>5. /\ i.succs[head] = [g.succs[head] EXCEPT ![FALLTHROUGH] = prev]
      /\ \A c \in Ids \ {head} : i.succs[c] = IF c \in g.preds[prev]
                                              THEN ReplacedSuccs(g, c, prev, head) ELSE g.succs[c]
      /\ i.preds[head] = g.preds[prev] /\ i.preds[prev] = {head}
      /\ \A c \in Ids \ {head, prev} : i.preds[c] = g.preds[c]
  <2>1. i.succs = [c \in Ids |-> CASE c = head -> [g.succs[head] EXCEPT ![FALLTHROUGH] = prev]
                            [] c \in g.preds[prev] -> ReplacedSuccs(g, c, prev, head)
                            [] OTHER -> g.succs[c]]
    BY <1>1 DEF InsertBlockBefore, Graphs
  <2>2. i.preds = [c \in Ids |-> CASE c = head -> g.preds[head] \cup g.preds[prev]
                                   [] c = prev -> {head} [] OTHER -> g.preds[c]]
    BY <1>1 DEF InsertBlockBefore, Graphs
  <2> HIDE DEF i
  <2>3. i.succs[head] = [g.succs[head] EXCEPT ![FALLTHROUGH] = prev]
    <3>1. SuccSet(g, head) = {}
      BY <1>2 DEF SuccSet, NoSuccs
    <3>2. head \notin g.preds[prev] /\ head \in Ids
      BY <1>1, <3>1 DEF WF, Shape, Symmetric
    <3> QED
      BY <2>1, <3>2
  <2>4. ASSUME NEW c \in Ids \ {head}
        PROVE  i.succs[c] = IF c \in g.preds[prev] THEN ReplacedSuccs(g, c, prev, head) ELSE g.succs[c]
    BY <2>1
  <2>5. i.preds[head] = g.preds[prev] /\ i.preds[prev] = {head}
    BY <1>1, <1>2, <2>2
  <2>6. ASSUME NEW c \in Ids \ {head, prev} PROVE i.preds[c] = g.preds[c]
    BY <2>2
  <2> QED
    BY <2>3, <2>4, <2>5, <2>6
<1>6. i.succs[head][0] = prev /\ i.succs[head][1] = None /\ SuccSet(i, head) = {prev}
  BY <1>1, <1>2, <1>5, SlotFacts, FlowGraphAssumption DEF NoSuccs, SuccSet, FALLTHROUGH
<1>7. edge \in g.blocks /\ edge # head /\ edge \in g.preds[prev] /\ head \in SuccSet(i, edge)
  <2>1. edge \in i.blocks /\ edge \in i.preds[head]
    BY <1>3 DEF CanReplaceSuccessor
  <2>2. head \in SuccSet(i, edge)
    BY <1>1, <1>4, <2>1 DEF WF, Shape, Symmetric
  <2> QED
    BY <1>2, <1>4, <1>5, <1>6, <2>1, <2>2
<1>8. h = ReplaceSuccessor(i, edge, head, prev)
  BY DEF InsertHeader
<1> HIDE DEF i, h
<1>9. /\ \A c \in Ids \ {edge} : h.succs[c] = i.succs[c]
      /\ h.succs[edge] = ReplacedSuccs(i, edge, head, prev)
      /\ h.preds[prev] = i.preds[prev] \cup {edge} /\ h.preds[head] = i.preds[head] \ {edge}
      /\ \A c \in Ids \ {head, prev} : h.preds[c] = i.preds[c]
  BY <1>1, <1>2, <1>4, <1>7, <1>8 DEF ReplaceSuccessor, WF, Shape, Graphs
<1>10. ASSUME NEW c \in g.blocks \ {head}, NEW s \in Slots
       PROVE  \/ h.succs[c][s] = g.succs[c][s]
              \/ g.succs[c][s] = prev /\ h.succs[c][s] = head
  <2>1. g.succs[c][s] # head
    <3>1. head \notin SuccSet(g, c)
      BY <1>1, <1>2 DEF WF, Shape, Symmetric
    <3> QED
      BY <1>1, <3>1, SuccSetFacts, SlotFacts
  <2>2. \/ i.succs[c][s] = g.succs[c][s]
        \/ g.succs[c][s] = prev /\ i.succs[c][s] = head
    <3>1. i.succs[c] = IF c \in g.preds[prev] THEN ReplacedSuccs(g, c, prev, head)
                       ELSE g.succs[c]
      BY <1>1, <1>5
    <3> QED
      BY <3>1 DEF ReplacedSuccs, IsSlotOf
  <2>3. h.succs[c][s] = i.succs[c][s] \/ (i.succs[c][s] = head /\ h.succs[c][s] = prev)
    BY <1>1, <1>9 DEF ReplacedSuccs, IsSlotOf
  <2> QED
    BY <2>1, <2>2, <2>3
<1>11. h.succs[head] = i.succs[head]
  BY <1>1, <1>7, <1>9
<1>12. h.succs[head][0] = prev /\ SuccSet(h, head) = {prev}
  BY <1>6, <1>11 DEF SuccSet
<1> QED
  BY <1>1, <1>2, <1>5, <1>9, <1>10, <1>12 DEF Detoured, h

\* Before turn n + 1 of SplitBackEdge, which makes h of g.
IsTurn(g, h, heads, edges, n) ==
  /\ heads[n + 2] \in g.blocks /\ Isolated(g, heads[n + 2])
  /\ heads[n + 1] \in g.blocks /\ ~Isolated(g, heads[n + 1])
  /\ h.blocks = g.blocks /\ Detoured(g, h, heads[n + 2], heads[n + 1])
  /\ h.preds[heads[n + 1]] = {heads[n + 2], edges[n + 1]}
  /\ h.preds[heads[n + 2]] = g.preds[heads[n + 1]] \ {edges[n + 1]}
  /\ \A c \in Ids \ {heads[n + 1], heads[n + 2]} : h.preds[c] = g.preds[c]
  /\ \A c \in g.blocks \ {heads[n + 2]} : Isolated(g, c) => Isolated(h, c)

\* The m turns that insert the headers heads[2], heads[3], ...
TurnByTurn(G, heads, edges, m) ==
  /\ \A n \in 0 .. m : /\ WF(G[n])
                      /\ G[n].blocks = graph.blocks \cup {heads[i + 1] : i \in 1 .. m}
  /\ \A c \in graph.blocks : G[0].succs[c] = graph.succs[c] /\ G[0].preds[c] = graph.preds[c]
  /\ \A i \in 1 .. m : Isolated(G[0], heads[i + 1])
  /\ \A n \in 0 .. m - 1 : IsTurn(G[n], G[n + 1], heads, edges, n)

\* After n turns the graph is well formed, and the headers still to come have no edges.
LEMMA HeadersInsertedFacts ==
  ASSUME WF(graph), NEW edges, NEW heads, NEW m \in Nat, Len(heads) = m + 1,
         ToSet(Tail(heads)) = {heads[i + 1] : i \in 1 .. m},
         \A i \in 1 .. m : heads[i + 1] \in Ids \ graph.blocks,
         \A i, j \in 1 .. m : heads[i + 1] = heads[j + 1] => i = j,
         \A i \in 1 .. m : CanInsertHeader(HeadersInserted(edges, heads)[i - 1],
                                           heads[i + 1], heads[i], edges[i])
  PROVE  TurnByTurn(HeadersInserted(edges, heads), heads, edges, m)
<1> DEFINE new == ToSet(Tail(heads))
           a == NewBlocks(graph, new)
           G[n \in Nat] == IF n = 0 THEN NewBlocks(graph, ToSet(Tail(heads)))
                           ELSE InsertHeader(G[n - 1], heads[n + 1], heads[n], edges[n])
           Rule(f) == f = [n \in Nat |-> IF n = 0 THEN NewBlocks(graph, ToSet(Tail(heads)))
                           ELSE InsertHeader(f[n - 1], heads[n + 1], heads[n], edges[n])]
<1>1. G = CHOOSE f : Rule(f)
  OBVIOUS
<1>2. \E f : Rule(f)
  <2>1. \E f : AreTurns(a, heads, edges, f)
    BY TurnsExist
  <2> QED
    BY <2>1 DEF AreTurns
<1>3. Rule(G)
  <2> HIDE DEF Rule, G
  <2> QED
    BY <1>1, <1>2
<1>4. HeadersInserted(edges, heads) = [n \in 0 .. Len(heads) - 1 |-> G[n]]
  BY DEF HeadersInserted, G
<1> HIDE DEF G
<1>5. \A n \in 0 .. m : HeadersInserted(edges, heads)[n] = G[n]
  BY <1>4
<1>6. G[0] = a
  BY <1>3
<1>7. ASSUME NEW n \in Nat
      PROVE  G[n + 1] = InsertHeader(G[n], heads[(n + 1) + 1], heads[n + 1], edges[n + 1])
  <2>1. n + 1 \in Nat /\ n + 1 # 0 /\ (n + 1) - 1 = n
    OBVIOUS
  <2> QED
    BY <1>3, <2>1
<1>8. new \in SUBSET Ids /\ new \cap graph.blocks = {}
  OBVIOUS
<1> DEFINE Good(n) == /\ WF(G[n]) /\ G[n].blocks = graph.blocks \cup new
                      /\ \A k \in n + 1 .. m : /\ Isolated(G[n], heads[k + 1])
                                               /\ G[n].term[heads[k + 1]] = "none"
           A == {n \in Nat : n <= m => Good(n)}
<1>9. 0 \in A
  <2>1. WF(a) /\ a.blocks = graph.blocks \cup new /\ \A b \in new : Isolated(a, b) /\ a.term[b] = "none"
    BY <1>8, NewBlocksWF
  <2> HIDE DEF a
  <2>2. \A k \in 1 .. m : heads[k + 1] \in new
    OBVIOUS
  <2> QED
    BY <1>6, <2>1, <2>2
<1>10. ASSUME NEW n \in Nat, n \in A PROVE n + 1 \in A
  <2> SUFFICES ASSUME n + 1 <= m PROVE Good(n + 1)
    OBVIOUS
  <2> DEFINE g == G[n]
             head == heads[(n + 1) + 1]
  <2>1. n + 1 \in 1 .. m /\ n \in 0 .. m /\ (n + 1) - 1 = n /\ n <= m
    OBVIOUS
  <2>2. Good(n)
    BY <1>10, <2>1
  <2>3. CanInsertHeader(g, head, heads[n + 1], edges[n + 1])
    BY <1>5, <2>1
  <2>4. WF(g) /\ Isolated(g, head) /\ g.term[head] = "none"
    <3>1. n + 1 \in n + 1 .. m
      OBVIOUS
    <3> QED
      BY <2>2, <3>1
  <2>5. G[n + 1] = InsertHeader(g, head, heads[n + 1], edges[n + 1])
    BY <1>7
  <2>6. /\ WF(G[n + 1]) /\ G[n + 1].blocks = g.blocks /\ G[n + 1].term = g.term
        /\ \A c \in g.blocks \ {head} : Isolated(g, c) => Isolated(G[n + 1], c)
    BY <2>3, <2>4, <2>5, InsertHeaderWF
  <2>7. ASSUME NEW k \in (n + 1) + 1 .. m
        PROVE  Isolated(G[n + 1], heads[k + 1]) /\ G[n + 1].term[heads[k + 1]] = "none"
    <3>1. k \in n + 1 .. m /\ k \in 1 .. m /\ k # n + 1
      OBVIOUS
    <3>2. heads[k + 1] # head /\ heads[k + 1] \in new
      BY <2>1, <3>1
    <3>3. heads[k + 1] \in g.blocks
      BY <2>2, <3>2
    <3> QED
      BY <2>2, <2>6, <3>1, <3>2, <3>3
  <2> QED
    BY <2>2, <2>6, <2>7
<1>11. Nat \subseteq A
  <2> HIDE DEF A
  <2> QED
    BY <1>9, <1>10, SetInduction
<1> HIDE DEF a
<1>12. ASSUME NEW n \in 0 .. m PROVE Good(n)
  <2>1. n \in A
    BY <1>11
  <2> QED
    BY <2>1
<1>13. /\ \A c \in graph.blocks : a.succs[c] = graph.succs[c] /\ a.preds[c] = graph.preds[c]
       /\ \A i \in 1 .. m : Isolated(a, heads[i + 1])
  <2>1. \A c \in graph.blocks : c \in Ids /\ c \notin new
    BY <1>8 DEF WF, Shape, Graphs
  <2>2. \A c \in graph.blocks : a.succs[c] = graph.succs[c] /\ a.preds[c] = graph.preds[c]
    BY <2>1 DEF a, NewBlocks, WF, Shape, Graphs
  <2>3. \A i \in 1 .. m : Isolated(G[0], heads[i + 1])
    BY <1>12
  <2> QED
    BY <1>6, <2>2, <2>3
<1>14. ASSUME NEW n \in 0 .. m - 1 PROVE IsTurn(G[n], G[n + 1], heads, edges, n)
  <2> DEFINE g == G[n]
             head == heads[n + 2]
  <2>1. n + 1 \in 1 .. m /\ n \in 0 .. m /\ (n + 1) - 1 = n /\ (n + 1) + 1 = n + 2 /\ n + 1 \in n + 1 .. m
    OBVIOUS
  <2>2. Good(n)
    BY <1>12, <2>1
  <2>3. CanInsertHeader(g, head, heads[n + 1], edges[n + 1])
    <3>1. CanInsertHeader(HeadersInserted(edges, heads)[(n + 1) - 1], heads[(n + 1) + 1], heads[n + 1], edges[n + 1])
      BY <2>1
    <3> QED
      BY <1>5, <2>1, <3>1
  <2>4. WF(g) /\ Isolated(g, head) /\ g.term[head] = "none"
    <3>1. Isolated(g, heads[(n + 1) + 1]) /\ g.term[heads[(n + 1) + 1]] = "none"
      BY <2>1, <2>2
    <3> QED
      BY <2>1, <2>2, <3>1
  <2>5. G[n + 1] = InsertHeader(g, head, heads[n + 1], edges[n + 1])
    BY <1>7, <2>1
  <2>6. /\ G[n + 1].blocks = g.blocks
        /\ \A c \in g.blocks \ {head} : Isolated(g, c) => Isolated(G[n + 1], c)
    BY <2>3, <2>4, <2>5, InsertHeaderWF
  <2> DEFINE p == heads[n + 1]
             e == edges[n + 1]
             h == InsertHeader(g, head, p, e)
  <2>7. /\ p \in g.blocks /\ head \in g.blocks /\ ~Isolated(g, p)
        /\ Detoured(g, h, head, p)
        /\ h.preds[p] = {head, e} /\ h.preds[head] = g.preds[p] \ {e}
        /\ \A c \in Ids \ {head, p} : h.preds[c] = g.preds[c]
    <3>1. CanInsertHeader(g, head, p, e)
      BY <2>3
    <3> HIDE DEF g, head, p, e
    <3> QED
      BY <2>4, <3>1, InsertHeaderDetours
  <2>8. G[n + 1] = h
    BY <2>5
  <2> HIDE DEF h
  <2> QED
    BY <2>4, <2>6, <2>7, <2>8, Zenon DEF IsTurn
<1> DEFINE H == HeadersInserted(edges, heads)
<1>16. \A n \in 0 .. m : H[n] = G[n] /\ WF(H[n]) /\ H[n].blocks = graph.blocks \cup {heads[i + 1] : i \in 1 .. m}
  BY <1>5, <1>12
<1>17. ASSUME NEW n \in 0 .. m - 1 PROVE IsTurn(H[n], H[n + 1], heads, edges, n)
  <2>1. n \in 0 .. m /\ n + 1 \in 0 .. m
    OBVIOUS
  <2>2. H[n] = G[n] /\ H[n + 1] = G[n + 1]
    BY <1>5, <2>1
  <2> HIDE DEF H
  <2> QED
    BY <1>14, <2>2
<1>18. H[0] = a
  <2>1. 0 \in 0 .. m
    OBVIOUS
  <2> QED
    BY <1>5, <1>6, <2>1
<1> HIDE DEF H
<1>19. TurnByTurn(H, heads, edges, m)
  BY <1>13, <1>16, <1>17, <1>18 DEF TurnByTurn
<1> QED
  BY <1>19 DEF H

\* What SplitBackEdge does to the graph.
LEMMA SplitBackEdgeWF ==
  ASSUME WF(graph), SplitBackEdge
  PROVE  WF(graph') /\ graph.blocks \subseteq graph'.blocks
<1> DEFINE bcks == {b \in Ids : b \in ToSet(loops_[Head(todo)].back_edges)}
           h == loops_[Head(todo)].header
           N == Cardinality(graph.blocks)
<1>1. PICK edges \in [1 .. Cardinality(bcks) -> bcks] :
         LET new   == NewIds(Len(edges) - 1)
             heads == <<h>> \o new
             G     == HeadersInserted(edges, heads)
         IN  /\ Len(edges) > 1
             /\ \A i \in DOMAIN new : CanNewBlock(graph, new[i])
             /\ \A i \in DOMAIN new : CanInsertHeader(G[i - 1], heads[i + 1], heads[i], edges[i])
             /\ graph' = G[Len(new)]
  BY Zenon DEF SplitBackEdge, SortedBackEdges
<1> DEFINE m == Len(edges) - 1
           new == NewIds(m)
           heads == <<h>> \o new
           G == HeadersInserted(edges, heads)
<1>2. Cardinality(bcks) \in Nat
  BY FiniteIds, FS_Subset, FS_CardinalityType
<1>3. N \in Nat
  <2>1. graph.blocks \subseteq Ids
    BY DEF WF, Shape, Graphs
  <2> QED
    BY <2>1, FiniteIds, FS_Subset, FS_CardinalityType
<1>4. Len(edges) = Cardinality(bcks)
  <2> HIDE DEF bcks
  <2>1. edges \in Seq(bcks) /\ DOMAIN edges = 1 .. Cardinality(bcks)
    BY <1>2
  <2> QED
    BY <1>2, <2>1
<1>5. m \in Nat /\ Len(edges) > 1
  BY <1>1, <1>2, <1>4
<1> HIDE DEF bcks, m
<1>6. /\ new = [i \in 1 .. m |-> N + i - 1] /\ DOMAIN new = 1 .. m
      /\ \A i \in 1 .. m : new[i] = N + i - 1
  BY DEF NewIds
<1>7. \A i, j \in 1 .. m : new[i] = new[j] => i = j
  BY <1>3, <1>6
<1>8. \A i \in 1 .. m : new[i] \in Ids \ graph.blocks
  BY <1>1, <1>6 DEF CanNewBlock, m
<1>9. new \in Seq(Ids) /\ Len(new) = m
  <2> HIDE DEF new
  <2> QED
    BY <1>5, <1>6, <1>8
<1> HIDE DEF new, h
<1>10. /\ heads \in Seq(Ids \cup {h}) /\ Len(heads) = m + 1
       /\ \A i \in 1 .. m : heads[i + 1] = new[i]
  <2>1. <<h>> \in Seq(Ids \cup {h}) /\ Len(<<h>>) = 1 /\ new \in Seq(Ids \cup {h})
    BY <1>9
  <2>2. /\ heads \in Seq(Ids \cup {h}) /\ Len(heads) = 1 + m
        /\ \A i \in 1 .. m : heads[1 + i] = new[i]
    BY <1>9, <2>1, ConcatFacts
  <2> QED
    BY <1>5, <2>2
<1>11. ToSet(Tail(heads)) = {heads[i + 1] : i \in 1 .. m}
  <2> HIDE DEF heads
  <2>1. heads # <<>>
    BY <1>5, <1>10
  <2>2. /\ Tail(heads) \in Seq(Ids \cup {h}) /\ Len(Tail(heads)) = m
        /\ \A i \in 1 .. m : Tail(heads)[i] = heads[i + 1]
    BY <1>5, <1>10, <2>1, HeadTailFacts
  <2>3. ToSet(Tail(heads)) = {Tail(heads)[i] : i \in 1 .. m}
    BY <2>2, ToSetFacts
  <2> QED
    BY <2>2, <2>3
<1>12. /\ \A i \in 1 .. m : CanInsertHeader(G[i - 1], heads[i + 1], heads[i], edges[i])
       /\ graph' = G[m]
  BY <1>1, <1>6, <1>9 DEF m, new, h
<1> HIDE DEF heads
<1>13. /\ \A i \in 1 .. m : heads[i + 1] \in Ids \ graph.blocks
       /\ \A i, j \in 1 .. m : heads[i + 1] = heads[j + 1] => i = j
  BY <1>7, <1>8, <1>10
<1>14. TurnByTurn(G, heads, edges, m)
  BY <1>5, <1>10, <1>11, <1>12, <1>13, HeadersInsertedFacts
<1>15. WF(G[m]) /\ graph.blocks \subseteq G[m].blocks
  <2>1. m \in 0 .. m
    BY <1>5
  <2> QED
    BY <1>14, <2>1 DEF TurnByTurn
<1> QED
  BY <1>12, <1>15

\* What AddPreHeader does to the graph.
LEMMA AddPreHeaderWF ==
  ASSUME WF(graph), AddPreHeader
  PROVE  WF(graph') /\ graph.blocks \subseteq graph'.blocks
<1> DEFINE l     == loops_[Head(todo)]
           pred  == EntryPredecessors(l)
           pre   == NewIds(1)[1]
           g     == NewBlock(graph, pre, "none")
           moved_edges == ReplaceSuccessors(g, pred, l.header, pre)
<1>1. /\ pred # {} /\ CanNewBlock(graph, pre)
      /\ \A p \in pred : CanReplaceSuccessor(g, p, l.header, pre)
      /\ CanAddEdge(moved_edges, pre, l.header, FALLTHROUGH)
      /\ graph' = AddEdgeTo(moved_edges, pre, l.header, FALLTHROUGH)
  BY Zenon DEF AddPreHeader
<1> HIDE DEF l, pred, pre
<1>2. pre \in Ids \ graph.blocks
  BY <1>1 DEF CanNewBlock
<1>3. /\ WF(g) /\ Isolated(g, pre) /\ g.blocks = graph.blocks \cup {pre} /\ g.succs[pre] = NoSuccs
  <2>1. "none" \in Terms
    BY DEF Terms
  <2>2. WF(g)
    BY <1>1, <1>2, <2>1, NewBlockWF
  <2>3. Isolated(g, pre) /\ g.blocks = graph.blocks \cup {pre}
    <3>1. Shape(graph)
      BY DEF WF
    <3> HIDE DEF g
    <3>2. CanNewBlock(graph, pre) /\ pre \in Ids
      BY <1>1, <1>2
    <3>3. LET x == NewBlock(graph, pre, "none")
          IN  Isolated(x, pre) /\ x.blocks = graph.blocks \cup {pre}
      BY <3>1, <3>2 DEF NewBlock, Isolated, Shape, Graphs
    <3> QED
      BY <3>3 DEF g
  <2> QED
    BY <2>2, <2>3 DEF Isolated
<1> HIDE DEF g
<1>4. /\ l.header \in Ids /\ l.header # pre /\ pre \notin pred
  <2>1. PICK p \in pred : CanReplaceSuccessor(g, p, l.header, pre)
    BY <1>1
  <2>2. l.header \in g.blocks /\ p \in g.preds[l.header]
    BY <2>1 DEF CanReplaceSuccessor
  <2>3. ASSUME pre \in pred PROVE FALSE
    <3>1. pre \in g.blocks /\ pre \in g.preds[l.header]
      BY <1>1, <2>3 DEF CanReplaceSuccessor
    <3>2. l.header \in SuccSet(g, pre)
      BY <1>3, <2>2, <3>1 DEF WF, Shape, Symmetric
    <3> QED
      BY <1>3, <3>2 DEF SuccSet, NoSuccs
  <2> QED
    BY <1>3, <2>2, <2>3 DEF Isolated, WF, Shape, Graphs
<1>5. /\ WF(moved_edges) /\ moved_edges.blocks = g.blocks
      /\ moved_edges.succs[pre] = g.succs[pre]
  <2>1. /\ pre \in g.blocks /\ pre \in Ids \ pred /\ l.header \in Ids
        /\ CanReplaceSuccessors(g, pred, l.header, pre)
    BY <1>1, <1>2, <1>3, <1>4 DEF CanReplaceSuccessors
  <2>0. WF(g)
    BY <1>3
  <2>2. WF(moved_edges)
    BY <2>0, <2>1, ReplaceSuccessorsWF
  <2>3. moved_edges.blocks = g.blocks /\ moved_edges.succs[pre] = g.succs[pre]
    BY <1>3, <2>1 DEF ReplaceSuccessors, WF, Shape, Graphs
  <2> QED
    BY <2>2, <2>3
<1> HIDE DEF moved_edges
<1>6. FALLTHROUGH \in Slots /\ moved_edges.succs[pre][FALLTHROUGH] = None
  BY <1>3, <1>5 DEF Slots, NoSuccs
<1>7. WF(AddEdgeTo(moved_edges, pre, l.header, FALLTHROUGH))
  BY <1>1, <1>2, <1>4, <1>5, <1>6, AddEdgeWF
<1>8. AddEdgeTo(moved_edges, pre, l.header, FALLTHROUGH).blocks = moved_edges.blocks
  BY DEF AddEdgeTo, WF, Shape, Graphs
<1> QED
  BY <1>1, <1>3, <1>5, <1>7, <1>8

\* No step of the analysis leaves anything wrong with the graph.
LEMMA AnalysisKeepsWF ==
  ASSUME WF(graph), Start \in graph.blocks, Next, phase # "layout"
  PROVE  WF(graph') /\ Start \in graph'.blocks /\ phase' # "layout"
<1>1. CASE SplitBackEdge
  BY <1>1, SplitBackEdgeWF DEF SplitBackEdge
<1>2. CASE AddPreHeader
  BY <1>2, AddPreHeaderWF DEF AddPreHeader
<1>3. CASE BackEdge \/ SkipBlack \/ Visit
  BY <1>3 DEF BackEdge, SkipBlack, Visit
<1>4. CASE Leave
  BY <1>4 DEF Leave
<1>5. CASE KeepBackEdges \/ NoPreHeader
  BY <1>5 DEF KeepBackEdges, NoPreHeader
<1>6. CASE ReadMoved \/ RecalculateLoopsReducibility \/ PreHeadersDone
  BY <1>6 DEF ReadMoved, RecalculateLoopsReducibility, PreHeadersDone
<1>7. CASE PopulateLoop \/ DropIrreducible \/ PassNoHeader
  BY <1>7 DEF PopulateLoop, DropIrreducible, PassNoHeader
<1>8. CASE BuildLoopTree \/ Check
  BY <1>8 DEF BuildLoopTree, Check
<1>9. CASE Terminated
  BY <1>9 DEF Terminated, vars
<1> QED
  BY <1>1, <1>2, <1>3, <1>4, <1>5, <1>6, <1>7, <1>8, <1>9 DEF Next

-----------------------------------------------------------------------------
\* LinearOrder's operators on graphs are the ones of this module.
LEMMA SlotsOfLayout ==
  /\ LO!FALLTHROUGH = 0 /\ LO!BRANCH_TRUE = 1 /\ LO!Slots = Slots
  /\ \A g, b : LO!GetNumSuccessors(g, b) = GetNumSuccessors(g, b)
  BY DEF LO!FALLTHROUGH, LO!BRANCH_TRUE, LO!Slots, Slots, FALLTHROUGH, BRANCH_TRUE,
         LO!GetNumSuccessors, GetNumSuccessors

LEMMA EditsOfLayout ==
  /\ \A g, b : LO!CanNewBlock(g, b) <=> CanNewBlock(g, b)
  /\ \A g, b, t : LO!NewBlock(g, b, t) = NewBlock(g, b, t)
  /\ \A g, b, c, d : LO!CanInsertBlock(g, b, c, d) <=> CanInsertBlock(g, b, c, d)
  /\ \A g, b, c, d : LO!InsertBlock(g, b, c, d) = InsertBlock(g, b, c, d)
  /\ \A g, b : LO!CanSwapSuccessors(g, b) <=> CanSwapSuccessors(g, b)
  /\ \A g, b : LO!SwapTwoSuccessors(g, b) = SwapTwoSuccessors(g, b)
<1>1. /\ \A g, b : LO!CanNewBlock(g, b) <=> CanNewBlock(g, b)
      /\ \A g, b, t : LO!NewBlock(g, b, t) = NewBlock(g, b, t)
  BY SlotsOfLayout DEF LO!CanNewBlock, CanNewBlock, LO!NewBlock, NewBlock, LO!NoSuccs, NoSuccs
<1>2. \A g, b, c : LO!HasSuccessor(g, b, c) <=> HasSuccessor(g, b, c)
  BY SlotsOfLayout DEF LO!HasSuccessor, HasSuccessor, LO!IsSlotOf, IsSlotOf
<1>4. \A g, b, c, d : LO!CanInsertBlock(g, b, c, d) <=> CanInsertBlock(g, b, c, d)
  BY SlotsOfLayout, <1>2 DEF LO!CanInsertBlock, CanInsertBlock
<1>5. \A g, b, c, d : LO!InsertBlock(g, b, c, d) = InsertBlock(g, b, c, d)
  <2> SUFFICES ASSUME NEW g, NEW b, NEW c, NEW d
               PROVE  LO!InsertBlock(g, b, c, d) = InsertBlock(g, b, c, d)
    OBVIOUS
  <2> QED
  BY SMT DEF LO!InsertBlock, InsertBlock, LO!ReplacedSuccs, ReplacedSuccs, LO!IsSlotOf,
     IsSlotOf, LO!GetNumSuccessors, GetNumSuccessors, LO!Slots, Slots, LO!FALLTHROUGH, FALLTHROUGH,
     LO!BRANCH_TRUE, BRANCH_TRUE
<1>6. \A g, b : LO!CanSwapSuccessors(g, b) <=> CanSwapSuccessors(g, b)
  BY SlotsOfLayout DEF LO!CanSwapSuccessors, CanSwapSuccessors
<1>7. \A g, b : LO!SwapTwoSuccessors(g, b) = SwapTwoSuccessors(g, b)
  BY SlotsOfLayout DEF LO!SwapTwoSuccessors, SwapTwoSuccessors
<1> QED
  BY <1>1, <1>4, <1>5, <1>6, <1>7

LEMMA ReachOfLayout ==
  /\ \A s : LO!ToSet(s) = ToSet(s)
  /\ \A s : LO!Last(s) = Last(s)
  /\ \A s : LO!IsInjective(s) <=> IsInjective(s)
  /\ \A g : LO!Reachable(g) = Reachable(g)
  /\ \A g, d, b : LO!Dominates(g, d, b) <=> Dominates(g, d, b)
  /\ \A g : LO!Preorder(g) = Preorder(g)
<1>1. \A s : LO!ToSet(s) = ToSet(s) /\ LO!Last(s) = Last(s) /\ (LO!IsInjective(s) <=> IsInjective(s))
  BY DEF LO!ToSet, ToSet, LO!Last, Last, LO!IsInjective, IsInjective
<1>3. \A g, b, avoid : LO!ReachAvoiding(g, b, avoid) = ReachAvoiding(g, b, avoid)
  BY Zenon DEF LO!Cardinality, Cardinality, LO!ReachAvoiding, ReachAvoiding, LO!SuccSet, SuccSet, LO!Slots, Slots,
     LO!FALLTHROUGH, FALLTHROUGH, LO!BRANCH_TRUE, BRANCH_TRUE
<1>4. \A g : LO!Reachable(g) = Reachable(g)
  BY <1>3 DEF LO!Reachable, Reachable
<1>5. \A g, d, b : LO!Dominates(g, d, b) <=> Dominates(g, d, b)
  BY <1>3 DEF LO!Dominates, Dominates
<1>7. \A g : LO!Preorder(g) = Preorder(g)
  BY Zenon DEF LO!Cardinality, Cardinality, LO!Preorder, Preorder, LO!ToSet, ToSet, LO!GetSuccessors, GetSuccessors,
     LO!SuccessorsBut, SuccessorsBut, LO!FALLTHROUGH, FALLTHROUGH, LO!BRANCH_TRUE, BRANCH_TRUE
<1> QED
  BY <1>1, <1>4, <1>5, <1>7

-----------------------------------------------------------------------------
(* What laying out one block does, for any graphs: A is the graph LinearOrder was   *)
(* given, g the one it has come to, and inv the blocks whose condition is inverted. *)

\* Where control goes from b if block n is behind it.
Into(g, inv, b, n, holds) ==
  CASE g.term[b] = "ret"  -> None
    [] g.term[b] = "jump" -> g.succs[b][0]
    [] g.term[b] = "none" -> n
    [] g.term[b] = "cond" -> IF holds # (b \in inv) THEN g.succs[b][1] ELSE n

TargetOf(A, b, holds) ==
  CASE GetNumSuccessors(A, b) = 0 -> None
    [] GetNumSuccessors(A, b) = 1 -> A.succs[b][0]
    [] GetNumSuccessors(A, b) = 2 -> A.succs[b][IF holds THEN 1 ELSE 0]

\* From b control gets to where A says, by way of an inserted jump it may be.
LeadsTo1(g, A, c, target) ==
  IF c \in A.blocks \cup {None} THEN c = target
  ELSE c \in g.blocks /\ g.term[c] = "jump" /\ g.succs[c][0] = target

Leads(g, inv, A, b, n) ==
  \A holds \in BOOLEAN : LeadsTo1(g, A, Into(g, inv, b, n, holds), TargetOf(A, b, holds))

\* What LinearOrder::Check asserts of b and the block n behind it.
Follows(g, b, n) ==
  /\ GetNumSuccessors(g, b) = 2 => n = g.succs[b][0] /\ n # g.succs[b][1]
  /\ GetNumSuccessors(g, b) = 1 /\ g.term[b] # "jump" => n = g.succs[b][0]

\* LinearOrder has not come to change b yet.
Untouched(g, inv, A, b) ==
  b \in A.blocks /\ g.succs[b] = A.succs[b] /\ g.term[b] = A.term[b] /\ b \notin inv

\* From g to h nothing changes at the blocks other than p.
ChangesOnly(p, g, inv, h, inv2) ==
  /\ g.blocks \subseteq h.blocks
  /\ \A c \in g.blocks \ {p} :
       h.succs[c] = g.succs[c] /\ h.term[c] = g.term[c] /\ (c \in inv2 <=> c \in inv)

\* h has the blocks and the edges of g.
SameGraph(g, h) == h.blocks = g.blocks /\ \A c \in Ids : SuccSet(h, c) = SuccSet(g, c)

LEMMA TermFacts ==
  ASSUME NEW g \in Graphs, NEW b \in Ids
  PROVE  /\ g.term[b] \in {"none", "jump", "cond", "ret"}
         /\ GetNumSuccessors(g, b) = 0 <=> g.term[b] = "ret"
         /\ GetNumSuccessors(g, b) = 1 <=> g.term[b] \in {"none", "jump"}
         /\ GetNumSuccessors(g, b) = 2 <=> g.term[b] = "cond"
  BY DEF Graphs, Terms, GetNumSuccessors

\* The successors in the given graph are blocks of it.
LEMMA TargetFacts ==
  ASSUME NEW A, WF(A), NEW b \in A.blocks
  PROVE  /\ A.succs[b][0] \in A.blocks \cup {None} /\ A.succs[b][1] \in A.blocks \cup {None}
         /\ A.succs[b][0] = A.succs[b][1] => A.succs[b][0] = None
<1>1. SuccSet(A, b) \subseteq A.blocks
  BY DEF WF, Shape, NoDangling
<1>2. A.succs[b][0] \in SuccSet(A, b) \cup {None} /\ A.succs[b][1] \in SuccSet(A, b) \cup {None}
  BY SlotFacts DEF SuccSet
<1> QED
  BY <1>1, <1>2 DEF WF, Shape, NoParallel, FALLTHROUGH, BRANCH_TRUE

\* What was settled stays so while other blocks are changed.
LEMMA SettledStays ==
  ASSUME NEW g, WF(g), NEW h, NEW inv, NEW inv2, NEW A, A.blocks \subseteq g.blocks,
         NEW p \in A.blocks, ChangesOnly(p, g, inv, h, inv2),
         NEW b \in g.blocks \ {p}, NEW n
  PROVE  /\ Follows(g, b, n) => Follows(h, b, n)
         /\ b \in A.blocks /\ Leads(g, inv, A, b, n) => Leads(h, inv2, A, b, n)
<1>1. h.succs[b] = g.succs[b] /\ h.term[b] = g.term[b] /\ (b \in inv2 <=> b \in inv)
  BY DEF ChangesOnly
<1>2. Follows(g, b, n) => Follows(h, b, n)
  BY <1>1 DEF Follows, GetNumSuccessors
<1>3. ASSUME b \in A.blocks, Leads(g, inv, A, b, n), NEW holds \in BOOLEAN
      PROVE  LeadsTo1(h, A, Into(h, inv2, b, n, holds), TargetOf(A, b, holds))
  <2> DEFINE c == Into(g, inv, b, n, holds)
             t == TargetOf(A, b, holds)
  <2>1. Into(h, inv2, b, n, holds) = c
    BY <1>1 DEF Into
  <2>2. LeadsTo1(g, A, c, t)
    BY <1>3 DEF Leads
  <2> HIDE DEF c, t
  <2>3. LeadsTo1(h, A, c, t)
    BY <2>2 DEF LeadsTo1, ChangesOnly
  <2> QED
    BY <2>1, <2>3 DEF t
<1> QED
  BY <1>2, <1>3 DEF Leads

\* A block that needs no change.
LEMMA FallsThrough ==
  ASSUME NEW g, WF(g), NEW inv, NEW A, WF(A), NEW b, Untouched(g, inv, A, b), NEW n \in A.blocks,
         GetNumSuccessors(g, b) # 0 => n = g.succs[b][0] \/ g.term[b] = "jump"
  PROVE  Follows(g, b, n) /\ Leads(g, inv, A, b, n)
<1>1. /\ b \in A.blocks /\ b \in Ids /\ g.succs[b] = A.succs[b] /\ g.term[b] = A.term[b]
      /\ b \notin inv /\ g \in Graphs /\ A \in Graphs /\ n # None
  BY FlowGraphAssumption DEF Untouched, WF, Shape, Graphs
<1>2. /\ A.succs[b][0] \in A.blocks \cup {None} /\ A.succs[b][1] \in A.blocks \cup {None}
      /\ A.succs[b][0] = A.succs[b][1] => A.succs[b][0] = None
  BY <1>1, TargetFacts
<1>3. GetNumSuccessors(A, b) = GetNumSuccessors(g, b)
  BY <1>1 DEF GetNumSuccessors
<1>4. Follows(g, b, n)
  BY <1>1, <1>2, <1>3, TermFacts DEF Follows
<1>5. ASSUME NEW holds \in BOOLEAN
      PROVE  LeadsTo1(g, A, Into(g, inv, b, n, holds), TargetOf(A, b, holds))
  <2>1. Into(g, inv, b, n, holds) = TargetOf(A, b, holds)
    <3>1. CASE g.term[b] = "ret"
      BY <1>1, <1>3, <3>1, TermFacts DEF Into, TargetOf
    <3>2. CASE g.term[b] \in {"jump", "none"}
      BY <1>1, <1>3, <3>2, TermFacts DEF Into, TargetOf
    <3>3. CASE g.term[b] = "cond"
      BY <1>1, <1>3, <3>3, TermFacts DEF Into, TargetOf
    <3> QED
      BY <1>1, <3>1, <3>2, <3>3, TermFacts
  <2>2. TargetOf(A, b, holds) \in A.blocks \cup {None}
    BY <1>1, <1>2, TermFacts DEF TargetOf
  <2> QED
    BY <2>1, <2>2 DEF LeadsTo1
<1> QED
  BY <1>4, <1>5 DEF Leads

\* A block that returns, with any block or none behind it.
LEMMA ReturnLeads ==
  ASSUME NEW g, WF(g), NEW inv, NEW A, WF(A), NEW b, Untouched(g, inv, A, b), NEW n,
         GetNumSuccessors(g, b) = 0
  PROVE  Follows(g, b, n) /\ Leads(g, inv, A, b, n)
<1>1. b \in Ids /\ g.term[b] = "ret" /\ A.term[b] = "ret" /\ A \in Graphs
  BY TermFacts DEF Untouched, WF, Shape, Graphs
<1> QED
  BY <1>1, TermFacts DEF Follows, Leads, LeadsTo1, Into, TargetOf

\* A jump is appended.
LEMMA JumpLeads ==
  ASSUME NEW g, WF(g), NEW inv, NEW A, WF(A), NEW b, Untouched(g, inv, A, b), NEW n,
         b \in g.blocks, GetNumSuccessors(g, b) = 1, NEW h, h = LO!AppendJump(g, b)
  PROVE  /\ WF(h) /\ SameGraph(g, h) /\ ChangesOnly(b, g, inv, h, inv)
         /\ Follows(h, b, n) /\ Leads(h, inv, A, b, n)
<1>1. /\ b \in A.blocks /\ b \in Ids /\ g.succs[b] = A.succs[b] /\ g.term[b] = A.term[b]
      /\ g \in Graphs /\ A \in Graphs /\ g.blocks \subseteq Ids
  BY DEF Untouched, WF, Shape, Graphs
<1>2. /\ h \in Graphs /\ h.blocks = g.blocks /\ h.succs = g.succs /\ h.preds = g.preds
      /\ h.term = [g.term EXCEPT ![b] = "jump"]
  BY <1>1 DEF LO!AppendJump, Graphs, Terms
<1>3. /\ h.term[b] = "jump" /\ \A c \in Ids \ {b} : h.term[c] = g.term[c]
      /\ \A c \in Ids : GetNumSuccessors(h, c) = GetNumSuccessors(g, c)
  <2>1. h.term[b] = "jump" /\ \A c \in Ids \ {b} : h.term[c] = g.term[c]
    BY <1>1, <1>2 DEF Graphs
  <2> QED
    BY <1>1, <2>1 DEF GetNumSuccessors
<1>4. \A c \in Ids : SuccSet(h, c) = SuccSet(g, c)
  BY <1>2 DEF SuccSet
<1>5. WF(h)
  BY <1>1, <1>2, <1>3, <1>4 DEF WF, Shape, Symmetric, NoDangling, NoParallel, NoHiddenSlots
<1>6. ChangesOnly(b, g, inv, h, inv)
  BY <1>1, <1>2, <1>3 DEF ChangesOnly
<1>7. Follows(h, b, n)
  BY <1>1, <1>3 DEF Follows
<1>8. Leads(h, inv, A, b, n)
  <2>1. A.succs[b][0] \in A.blocks \cup {None} /\ GetNumSuccessors(A, b) = 1
    BY <1>1, TargetFacts, TermFacts
  <2> QED
    BY <1>1, <1>2, <1>3, <2>1 DEF Leads, LeadsTo1, Into, TargetOf
<1> QED
  BY <1>2, <1>4, <1>5, <1>6, <1>7, <1>8 DEF SameGraph

\* The condition is inverted.
LEMMA SwapLeads ==
  ASSUME NEW g, WF(g), NEW inv, NEW A, WF(A), NEW b, Untouched(g, inv, A, b),
         CanSwapSuccessors(g, b), NEW n \in A.blocks, n = g.succs[b][1],
         NEW h, h = SwapTwoSuccessors(g, b)
  PROVE  /\ WF(h) /\ SameGraph(g, h) /\ ChangesOnly(b, g, inv, h, inv \cup {b})
         /\ Follows(h, b, n) /\ Leads(h, inv \cup {b}, A, b, n)
<1> DEFINE inv2 == inv \cup {b}
<1>1. /\ b \in A.blocks /\ b \in Ids /\ g.succs[b] = A.succs[b] /\ g.term[b] = A.term[b]
      /\ g \in Graphs /\ A \in Graphs /\ g.blocks \subseteq Ids /\ b \notin inv /\ n # None
  BY FlowGraphAssumption DEF Untouched, WF, Shape, Graphs
<1>2. /\ h.blocks = g.blocks /\ h.term = g.term
      /\ h.succs = [g.succs EXCEPT ![b] = [s \in Slots |-> g.succs[b][1 - s]]]
  BY DEF SwapTwoSuccessors, WF, Shape, Graphs
<1>3. WF(h)
  BY <1>1, SwapSuccessorsWF
<1>4. /\ h.succs[b][0] = g.succs[b][1] /\ h.succs[b][1] = g.succs[b][0]
      /\ \A c \in Ids \ {b} : h.succs[c] = g.succs[c]
  BY <1>1, <1>2, SlotFacts DEF Graphs
<1>5. \A c \in Ids : SuccSet(h, c) = SuccSet(g, c)
  BY <1>4, SlotFacts DEF SuccSet
<1>6. ChangesOnly(b, g, inv, h, inv2)
  BY <1>1, <1>2, <1>4 DEF ChangesOnly
<1>7. g.term[b] = "cond" /\ h.term[b] = "cond" /\ GetNumSuccessors(A, b) = 2
  BY <1>1, <1>2, TermFacts DEF CanSwapSuccessors
<1>8. /\ A.succs[b][0] \in A.blocks \cup {None} /\ A.succs[b][1] \in A.blocks \cup {None}
      /\ A.succs[b][0] # A.succs[b][1]
  BY <1>1, TargetFacts
<1>9. Follows(h, b, n)
  BY <1>1, <1>4, <1>7, <1>8 DEF Follows, GetNumSuccessors
<1>10. ASSUME NEW holds \in BOOLEAN
       PROVE  LeadsTo1(h, A, Into(h, inv2, b, n, holds), TargetOf(A, b, holds))
  <2>1. Into(h, inv2, b, n, holds) = IF holds THEN n ELSE h.succs[b][1]
    BY <1>7 DEF Into
  <2>2. TargetOf(A, b, holds) = IF holds THEN A.succs[b][1] ELSE A.succs[b][0]
    BY <1>7 DEF TargetOf
  <2>3. Into(h, inv2, b, n, holds) = TargetOf(A, b, holds)
    BY <1>1, <1>4, <2>1, <2>2
  <2> QED
    BY <1>8, <2>2, <2>3 DEF LeadsTo1
<1> QED
  BY <1>2, <1>3, <1>5, <1>6, <1>9, <1>10 DEF Leads, SameGraph

\* The code puts a jump block j between b and the block F it falls through to.
PutsJump(g, b, F, j, h) ==
  /\ GetNumSuccessors(g, b) = 2 /\ F = g.succs[b][0]
  /\ CanNewBlock(g, j) /\ CanInsertBlock(NewBlock(g, j, "jump"), j, b, F)
  /\ h = LO!WithJumpBlock(g, j, b, F)

\* What it comes to.
JumpPut(g, inv, A, b, F, j, h) ==
  /\ WF(h) /\ h.blocks = g.blocks \cup {j} /\ ChangesOnly(b, g, inv, h, inv)
  /\ Bypasses(g, h, b, F, j)
  /\ Follows(h, b, j) /\ Leads(h, inv, A, b, j) /\ \A n : Follows(h, j, n)

LEMMA InsertLeads ==
  ASSUME NEW g, WF(g), NEW inv, NEW A, WF(A), A.blocks \subseteq g.blocks,
         NEW b, Untouched(g, inv, A, b), NEW F, NEW j, NEW h, PutsJump(g, b, F, j, h)
  PROVE  JumpPut(g, inv, A, b, F, j, h)
<1>0. /\ GetNumSuccessors(g, b) = 2 /\ F = g.succs[b][0]
      /\ CanNewBlock(g, j) /\ CanInsertBlock(NewBlock(g, j, "jump"), j, b, F)
      /\ h = LO!WithJumpBlock(g, j, b, F)
  BY DEF PutsJump
<1> DEFINE g1 == NewBlock(g, j, "jump")
<1>1. /\ b \in A.blocks /\ b \in Ids /\ g.succs[b] = A.succs[b] /\ g.term[b] = A.term[b]
      /\ g \in Graphs /\ A \in Graphs /\ g.blocks \subseteq Ids /\ b \notin inv /\ j \in Ids \ g.blocks
      /\ b \in g.blocks /\ b # j
  BY <1>0 DEF Untouched, WF, Shape, Graphs, CanNewBlock
<1>2. /\ WF(g1) /\ Isolated(g1, j) /\ g1.blocks = g.blocks \cup {j}
      /\ g1.succs = [g.succs EXCEPT ![j] = NoSuccs]
      /\ g1.term = [g.term EXCEPT ![j] = "jump"]
  <2>1. "jump" \in Terms /\ Shape(g) /\ j \in Ids
    BY <1>1 DEF Terms, WF
  <2>2. WF(g1)
    BY <1>0, <2>1, NewBlockWF
  <2>3. Isolated(g1, j)
    BY <1>0, <2>1, NewBlockShape
  <2>4. /\ g1.blocks = g.blocks \cup {j}
        /\ g1.succs = [g.succs EXCEPT ![j] = NoSuccs]
        /\ g1.term = [g.term EXCEPT ![j] = "jump"]
    BY <1>0, <2>1, NewBlockShape
  <2> QED
    BY <2>2, <2>3, <2>4
<1>3. h = InsertBlock(g1, j, b, F)
  BY <1>0, EditsOfLayout DEF LO!WithJumpBlock
<1>4. CanInsertBlock(g1, j, b, F)
  BY <1>0
<1> HIDE DEF g1
<1>5. /\ g1 \in Graphs /\ g1.succs[j] = NoSuccs /\ g1.term[j] = "jump"
      /\ \A c \in Ids \ {j} : g1.succs[c] = g.succs[c] /\ g1.term[c] = g.term[c]
  BY <1>1, <1>2 DEF Graphs, WF, Shape
<1>6. F \in Ids /\ F \in g1.blocks
  BY <1>0, <1>4, <1>5 DEF CanInsertBlock, Graphs
<1>7. WF(h)
  <2>1. j \in Ids /\ b \in Ids /\ F \in Ids /\ WF(g1) /\ Isolated(g1, j) /\ CanInsertBlock(g1, j, b, F)
    BY <1>1, <1>2, <1>4, <1>6
  <2>2. WF(InsertBlock(g1, j, b, F))
    BY <2>1, InsertBlockWF
  <2> QED
    BY <1>3, <2>2
<1>8. /\ h.blocks = g1.blocks /\ h.term = g1.term
      /\ h.succs = [c \in Ids |-> CASE c = b -> ReplacedSuccs(g1, b, F, j)
                                    [] c = j -> [g1.succs[j] EXCEPT ![FALLTHROUGH] = F]
                                    [] OTHER -> g1.succs[c]]
  BY <1>3, <1>5 DEF InsertBlock, Graphs
<1>9. /\ h.succs[b] = ReplacedSuccs(g1, b, F, j)
      /\ h.succs[j] = [g1.succs[j] EXCEPT ![FALLTHROUGH] = F]
      /\ \A c \in Ids \ {b, j} : h.succs[c] = g.succs[c]
  BY <1>1, <1>5, <1>8
<1>10. h.succs[j][0] = F /\ h.succs[j][1] = None
  BY <1>5, <1>9, SlotFacts DEF NoSuccs, FALLTHROUGH
<1>11. h.succs[b][0] = j /\ h.succs[b][1] = g.succs[b][1]
  <2>1. F # None
    BY <1>6, FlowGraphAssumption
  <2>2. GetNumSuccessors(g1, b) = 2 /\ g1.succs[b] = g.succs[b]
    BY <1>0, <1>1, <1>5 DEF GetNumSuccessors
  <2>3. IsSlotOf(g1, b, F, 0) /\ ~IsSlotOf(g1, b, F, 1)
    BY <1>0, <2>1, <2>2, SlotFacts DEF IsSlotOf
  <2> QED
    BY <1>0, <1>9, <2>2, <2>3, SlotFacts DEF ReplacedSuccs
<1>12. /\ h.term[j] = "jump" /\ h.term[b] = g.term[b]
       /\ \A c \in Ids \ {j} : h.term[c] = g.term[c]
  BY <1>1, <1>5, <1>8
<1>13. /\ g.term[b] = "cond" /\ GetNumSuccessors(A, b) = 2 /\ A.succs[b][0] = F /\ F # None
       /\ A.succs[b][1] \in A.blocks \cup {None} /\ F \in A.blocks /\ A.succs[b][1] # F
  BY <1>0, <1>1, <1>6, FlowGraphAssumption, TermFacts, TargetFacts
<1>14. ChangesOnly(b, g, inv, h, inv)
  BY <1>1, <1>2, <1>8, <1>9, <1>12 DEF ChangesOnly
<1>15. Bypasses(g, h, b, F, j)
  <2>1. \A c \in Ids \ {b, j} : SuccSet(h, c) = SuccSet(g, c)
    BY <1>9 DEF SuccSet
  <2>2. SuccSet(h, j) = {F}
    BY <1>10, <1>13, SlotFacts DEF SuccSet
  <2>3. SuccSet(h, b) = {j, g.succs[b][1]} \ {None}
    BY <1>11, SlotFacts DEF SuccSet
  <2>4. SuccSet(g, b) = {F, g.succs[b][1]} \ {None}
    BY <1>0, SlotFacts DEF SuccSet
  <2>5. j # None
    BY <1>1, FlowGraphAssumption
  <2> QED
    BY <1>13, <2>1, <2>2, <2>3, <2>4, <2>5 DEF Bypasses
<1>16. \A n : Follows(h, j, n)
  BY <1>12 DEF Follows, GetNumSuccessors
<1>17. Follows(h, b, j)
  <2>1. j # g.succs[b][1]
    BY <1>1, <1>13, FlowGraphAssumption
  <2> QED
    BY <1>11, <1>12, <1>13, <2>1 DEF Follows, GetNumSuccessors
<1>18. ASSUME NEW holds \in BOOLEAN
       PROVE  LeadsTo1(h, A, Into(h, inv, b, j, holds), TargetOf(A, b, holds))
  <2>1. Into(h, inv, b, j, holds) = IF holds THEN A.succs[b][1] ELSE j
    BY <1>1, <1>11, <1>12, <1>13 DEF Into
  <2>2. TargetOf(A, b, holds) = IF holds THEN A.succs[b][1] ELSE F
    BY <1>13 DEF TargetOf
  <2>3. j \notin A.blocks \cup {None} /\ j \in h.blocks
    BY <1>1, <1>2, <1>8, FlowGraphAssumption
  <2> QED
    BY <1>10, <1>12, <1>13, <2>1, <2>2, <2>3 DEF LeadsTo1
<1> QED
  BY <1>1, <1>2, <1>6, <1>7, <1>8, <1>13, <1>14, <1>15, <1>16, <1>17, <1>18 DEF Leads, JumpPut

-----------------------------------------------------------------------------
\* What comes behind the k-th block of a list.
NextOf(L, k) == IF k < Len(L) THEN L[k + 1] ELSE None

\* Block b, with n behind it, does what it should.
Settled(g, inv, A, b, n) == Follows(g, b, n) /\ (b \in A.blocks => Leads(g, inv, A, b, n))

\* All blocks in their order, m of which are done with.
ListOK(g, L) ==
  L \in Seq(Ids) /\ IsInjective(L) /\ Led(g, L) /\ ToSet(L) = Reachable(g)

LaidOut(g, inv, A, L, m) ==
  /\ WF(g) /\ WF(A) /\ Start \in A.blocks /\ A.blocks \subseteq g.blocks
  /\ ListOK(g, L) /\ ToSet(L) \cap A.blocks = Reachable(A)
  /\ m \in 0 .. Len(L)
  /\ \A k \in 1 .. m : Settled(g, inv, A, L[k], NextOf(L, k))
  /\ \A k \in m + 1 .. Len(L) : Untouched(g, inv, A, L[k])

\* The blocks after the first that is changed stay untouched.
LEMMA UntouchedStays ==
  ASSUME NEW g, NEW inv, NEW h, NEW inv2, NEW A, NEW p, NEW b, A.blocks \subseteq g.blocks,
         ChangesOnly(p, g, inv, h, inv2), b # p, Untouched(g, inv, A, b)
  PROVE  Untouched(h, inv2, A, b)
  BY DEF Untouched, ChangesOnly

\* A block is done with, and no edge changes.
LEMMA SettleNext ==
  ASSUME NEW g, NEW inv, NEW A, NEW L, NEW m, LaidOut(g, inv, A, L, m), m < Len(L),
         NEW h, NEW inv2, WF(h), SameGraph(g, h),
         ChangesOnly(L[m + 1], g, inv, h, inv2), Settled(h, inv2, A, L[m + 1], NextOf(L, m + 1))
  PROVE  LaidOut(h, inv2, A, L, m + 1)
<1>1. /\ WF(g) /\ WF(A) /\ Start \in A.blocks /\ A.blocks \subseteq g.blocks
      /\ L \in Seq(Ids) /\ IsInjective(L) /\ Led(g, L) /\ ToSet(L) = Reachable(g)
      /\ ToSet(L) \cap A.blocks = Reachable(A)
      /\ m \in 0 .. Len(L) /\ Len(L) \in Nat /\ DOMAIN L = 1 .. Len(L)
      /\ g \in Graphs /\ h \in Graphs
  BY DEF LaidOut, ListOK, WF, Shape
<1> DEFINE p == L[m + 1]
<1>2. m + 1 \in 1 .. Len(L) /\ Untouched(g, inv, A, p) /\ p \in A.blocks
  BY <1>1 DEF LaidOut, Untouched
<1>3. \A k \in 1 .. Len(L) : k # m + 1 => L[k] # p
  BY <1>1, <1>2 DEF IsInjective
<1>4. ToSet(L) = {L[k] : k \in 1 .. Len(L)} /\ ToSet(L) \subseteq g.blocks
  <2>1. Start \in g.blocks
    BY <1>1
  <2> QED
    BY <1>1, <2>1, ToSetFacts, ReachableBlocks
<1> HIDE DEF p
<1>5. ListOK(h, L)
  BY <1>1, SameEdges DEF ListOK, SameGraph
<1>6. ASSUME NEW k \in 1 .. m + 1 PROVE Settled(h, inv2, A, L[k], NextOf(L, k))
  <2>1. CASE k = m + 1
    BY <2>1
  <2>2. CASE k # m + 1
    <3>1. k \in 1 .. m /\ k \in 1 .. Len(L)
      BY <1>1, <2>2
    <3>2. Settled(g, inv, A, L[k], NextOf(L, k)) /\ L[k] \in g.blocks \ {p}
      BY <1>3, <1>4, <2>2, <3>1 DEF LaidOut
    <3>3. ChangesOnly(p, g, inv, h, inv2)
      BY DEF p
    <3> QED
      BY <1>1, <1>2, <3>2, <3>3, SettledStays DEF Settled
  <2> QED
    BY <2>1, <2>2
<1>7. ASSUME NEW k \in (m + 1) + 1 .. Len(L) PROVE Untouched(h, inv2, A, L[k])
  <2>1. k \in m + 1 .. Len(L) /\ k # m + 1 /\ k \in 1 .. Len(L)
    BY <1>1
  <2>2. Untouched(g, inv, A, L[k]) /\ L[k] # p
    BY <1>3, <2>1 DEF LaidOut
  <2>3. ChangesOnly(p, g, inv, h, inv2)
    BY DEF p
  <2> QED
    BY <1>1, <2>2, <2>3, UntouchedStays
<1> QED
  BY <1>1, <1>2, <1>5, <1>6, <1>7 DEF LaidOut, SameGraph

\* A block is done with that gets a jump block j behind it.
LEMMA SettleInserting ==
  ASSUME NEW g, NEW inv, NEW A, NEW L, NEW m, LaidOut(g, inv, A, L, m), m < Len(L),
         NEW F, NEW j, NEW h, PutsJump(g, L[m + 1], F, j, h), NEW M, IsInserted(L, m + 1, j, M)
  PROVE  LaidOut(h, inv, A, M, m + 2)
<1>1. /\ WF(g) /\ WF(A) /\ Start \in A.blocks /\ A.blocks \subseteq g.blocks
      /\ L \in Seq(Ids) /\ IsInjective(L) /\ Led(g, L) /\ ToSet(L) = Reachable(g)
      /\ ToSet(L) \cap A.blocks = Reachable(A)
      /\ m \in 0 .. Len(L) /\ Len(L) \in Nat /\ DOMAIN L = 1 .. Len(L)
      /\ g \in Graphs
  BY DEF LaidOut, ListOK, WF, Shape
<1> DEFINE p == L[m + 1]
<1>2. m + 1 \in 1 .. Len(L) /\ Untouched(g, inv, A, p) /\ p \in A.blocks
  BY <1>1 DEF LaidOut, Untouched
<1>3. \A k \in 1 .. Len(L) : k # m + 1 => L[k] # p
  BY <1>1, <1>2 DEF IsInjective
<1>4. /\ ToSet(L) = {L[k] : k \in 1 .. Len(L)} /\ ToSet(L) \subseteq g.blocks
      /\ Start \in g.blocks /\ j \in Ids \ g.blocks
  <2>1. Start \in g.blocks
    BY <1>1
  <2> QED
    BY <1>1, <2>1, ToSetFacts, ReachableBlocks DEF CanNewBlock, PutsJump
<1>5. JumpPut(g, inv, A, p, F, j, h)
  BY <1>1, <1>2, InsertLeads
<1> HIDE DEF p
<1>6. /\ WF(h) /\ h.blocks = g.blocks \cup {j} /\ Follows(h, p, j) /\ Leads(h, inv, A, p, j)
      /\ \A n : Follows(h, j, n)
  BY <1>5 DEF JumpPut
<1>7. ChangesOnly(p, g, inv, h, inv) /\ Bypasses(g, h, p, F, j)
  BY <1>5 DEF JumpPut
<1>8. h \in Graphs /\ p \in Reachable(g) /\ j \notin ToSet(L)
  BY <1>1, <1>2, <1>4, <1>6 DEF WF, Shape, p
<1>9. Reachable(h) = Reachable(g) \cup {j}
  BY <1>1, <1>4, <1>7, <1>8, BypassReach
<1>10. Led(h, M)
  BY <1>1, <1>2, <1>4, <1>7, <1>8, BypassLed DEF p
<1>11. ToSet(M) = ToSet(L) \cup {j} /\ IsInjective(M)
  BY <1>1, <1>2, <1>8, InsertedElements
<1>12. ListOK(h, M)
  BY <1>1, <1>9, <1>10, <1>11 DEF ListOK, IsInserted
<1>13. Len(M) = Len(L) + 1 /\ M[m + 2] = j
  BY <1>1 DEF IsInserted
<1>14. ASSUME NEW k \in 1 .. m + 2 PROVE Settled(h, inv, A, M[k], NextOf(M, k))
  <2>1. CASE k = m + 2
    <3>1. j \notin A.blocks
      BY <1>1, <1>4
    <3> QED
      BY <1>6, <1>13, <2>1, <3>1 DEF Settled
  <2>2. CASE k = m + 1
    <3>1. M[k] = p /\ NextOf(M, k) = j
      BY <1>1, <1>2, <1>13, <2>2 DEF IsInserted, NextOf, p
    <3> QED
      BY <1>6, <3>1 DEF Settled
  <2>3. CASE k \in 1 .. m
    <3>1. k \in 1 .. Len(L) /\ k # m + 1
      BY <1>1, <2>3
    <3>2. Settled(g, inv, A, L[k], NextOf(L, k)) /\ L[k] \in g.blocks \ {p}
      BY <1>3, <1>4, <2>3, <3>1 DEF LaidOut
    <3>3. M[k] = L[k] /\ NextOf(M, k) = NextOf(L, k)
      BY <1>1, <1>2, <1>13, <2>3 DEF IsInserted, NextOf
    <3> QED
      BY <1>1, <1>2, <1>7, <3>2, <3>3, SettledStays DEF Settled
  <2> QED
    BY <1>1, <2>1, <2>2, <2>3
<1>15. ASSUME NEW k \in (m + 2) + 1 .. Len(M) PROVE Untouched(h, inv, A, M[k])
  <2>1. k - 1 \in m + 1 .. Len(L) /\ k - 1 # m + 1 /\ k - 1 \in 1 .. Len(L)
        /\ k - 1 \in (m + 1) + 1 .. Len(L)
    BY <1>1, <1>13
  <2>2. M[k] = L[k - 1]
    <3>1. M[(k - 1) + 1] = L[k - 1]
      BY <2>1 DEF IsInserted
    <3> QED
      BY <1>1, <1>13, <3>1
  <2>3. Untouched(g, inv, A, L[k - 1]) /\ L[k - 1] # p
    BY <1>3, <2>1 DEF LaidOut
  <2> QED
    BY <1>1, <1>7, <2>2, <2>3, UntouchedStays
<1>16. ToSet(M) \cap A.blocks = Reachable(A)
  BY <1>1, <1>4, <1>11
<1> QED
  BY <1>1, <1>2, <1>6, <1>12, <1>13, <1>14, <1>15, <1>16 DEF LaidOut

-----------------------------------------------------------------------------
\* The next block goes from the blocks to come to the blocks laid out, alone or
\* behind a new one.
LEMMA MovesHead ==
  ASSUME NEW s \in Seq(Ids), NEW t \in Seq(Ids), t # <<>>, NEW r, r = LO!PushedBack(s, <<>>, Head(t))
  PROVE  r \in Seq(Ids) /\ Len(r) = Len(s) + 1 /\ r \o Tail(t) = s \o t
<1> DEFINE e == Head(t)
           u == Tail(t)
<1>1. /\ e \in Ids /\ e = t[1] /\ u \in Seq(Ids) /\ Len(u) = Len(t) - 1
      /\ Len(t) \in Nat \ {0} /\ \A k \in 1 .. Len(t) - 1 : u[k] = t[k + 1]
  BY HeadTailFacts
<1>2. r = Append(s, e)
  BY <1>1, ConcatEmptySeq, AppendIsConcat DEF LO!PushedBack
<1> HIDE DEF e, u
<1>3. /\ r \in Seq(Ids) /\ Len(r) = Len(s) + 1 /\ r[Len(s) + 1] = t[1] /\ Len(s) \in Nat
      /\ \A k \in 1 .. Len(s) : r[k] = s[k]
  <2>1. e \in Ids /\ e = t[1] /\ Len(s) \in Nat
    BY <1>1
  <2>2. /\ Append(s, e) \in Seq(Ids) /\ Len(Append(s, e)) = Len(s) + 1
        /\ Append(s, e)[Len(s) + 1] = e
        /\ \A k \in 1 .. Len(s) : Append(s, e)[k] = s[k]
    BY <2>1, AppendFacts
  <2> QED
    BY <1>2, <2>1, <2>2
<1>4. t = <<e>> \o u
  <2>1. <<e>> \in Seq(Ids) /\ Len(<<e>>) = 1 /\ <<e>>[1] = t[1]
    BY <1>1
  <2> DEFINE v == <<e>>
  <2> HIDE DEF v
  <2>2. /\ v \o u \in Seq(Ids) /\ Len(v \o u) = 1 + Len(u) /\ (v \o u)[1] = t[1]
        /\ \A k \in 1 .. Len(u) : (v \o u)[1 + k] = u[k]
    BY <1>1, <2>1, ConcatFacts DEF v
  <2>3. ASSUME NEW k \in 1 .. Len(t) PROVE t[k] = (v \o u)[k]
    <3>1. CASE k = 1
      BY <2>2, <3>1
    <3>2. CASE k # 1
      <4> DEFINE x == k - 1
      <4>1. x \in 1 .. Len(u) /\ x \in 1 .. Len(t) - 1 /\ k = 1 + x /\ k = x + 1
        BY <1>1, <3>2
      <4> HIDE DEF x
      <4> QED
        BY <1>1, <2>2, <4>1
    <3> QED
      BY <3>1, <3>2
  <2>4. t = v \o u
    BY <1>1, <2>2, <2>3, SeqEqual
  <2> QED
    BY <2>4 DEF v
<1>5. r \o u = s \o t
  <2>1. e \in Ids /\ u \in Seq(Ids)
    BY <1>1
  <2> DEFINE v == <<e>>
  <2>2. v \in Seq(Ids)
    BY <2>1
  <2>5. Append(s, e) = s \o v
    BY <2>1, AppendIsConcat
  <2> HIDE DEF v
  <2>3. v \in Seq(Ids) /\ r = s \o v /\ t = v \o u
    BY <1>2, <1>4, <2>2, <2>5 DEF v
  <2>4. (s \o v) \o u = s \o (v \o u)
    <3> HIDE DEF u
    <3>1. \A x, y, z \in Seq(Ids) : (x \o y) \o z = x \o (y \o z)
      BY ConcatAssociative
    <3> QED
      BY <2>1, <2>3, <3>1
  <2> QED
    BY <2>3, <2>4
<1> QED
  BY <1>3, <1>5 DEF u

LEMMA MovesHeadInserting ==
  ASSUME NEW s \in Seq(Ids), NEW t \in Seq(Ids), t # <<>>, NEW j \in Ids,
         NEW r, r = LO!PushedBack(s, <<j>>, Head(t))
  PROVE  r \in Seq(Ids) /\ Len(r) = Len(s) + 2 /\ IsInserted(s \o t, Len(s), j, r \o Tail(t))
<1> DEFINE sj == Append(s, j)
<1>1. /\ sj \in Seq(Ids) /\ Len(sj) = Len(s) + 1 /\ sj[Len(s) + 1] = j /\ Len(s) \in Nat
      /\ \A k \in 1 .. Len(s) : sj[k] = s[k]
  BY AppendFacts
<1>2. r = LO!PushedBack(sj, <<>>, Head(t))
  BY AppendIsConcat, ConcatEmptySeq, <1>1 DEF LO!PushedBack
<1> HIDE DEF sj
<1>3. r \in Seq(Ids) /\ Len(r) = Len(s) + 2 /\ r \o Tail(t) = sj \o t
  <2>1. sj \in Seq(Ids) /\ Len(sj) = Len(s) + 1 /\ Len(s) \in Nat
    BY <1>1
  <2>2. r \in Seq(Ids) /\ Len(r) = Len(sj) + 1
    BY <1>2, <2>1, MovesHead
  <2>3. r \o Tail(t) = sj \o t
    BY <1>2, <2>1, MovesHead
  <2>4. Len(r) = Len(s) + 2
    BY <2>1, <2>2
  <2> QED
    BY <2>2, <2>3, <2>4
<1>4. /\ sj \o t \in Seq(Ids) /\ Len(sj \o t) = Len(sj) + Len(t) /\ Len(t) \in Nat
      /\ \A k \in 1 .. Len(sj) : (sj \o t)[k] = sj[k]
      /\ \A k \in 1 .. Len(t) : (sj \o t)[Len(sj) + k] = t[k]
  <2>1. sj \in Seq(Ids)
    BY <1>1
  <2> QED
    BY <2>1, ConcatFacts
<1>5. /\ s \o t \in Seq(Ids) /\ Len(s \o t) = Len(s) + Len(t)
      /\ \A k \in 1 .. Len(s) : (s \o t)[k] = s[k]
      /\ \A k \in 1 .. Len(t) : (s \o t)[Len(s) + k] = t[k]
  BY ConcatFacts
<1>6. ASSUME NEW k \in Len(s) + 1 .. Len(s \o t) PROVE (sj \o t)[k + 1] = (s \o t)[k]
  <2> DEFINE x == k - Len(s)
  <2>1. x \in 1 .. Len(t) /\ k = Len(s) + x /\ k + 1 = Len(sj) + x
    BY <1>1, <1>4, <1>5
  <2> HIDE DEF x
  <2> QED
    BY <1>4, <1>5, <2>1
<1>7. IsInserted(s \o t, Len(s), j, sj \o t)
  BY <1>1, <1>4, <1>5, <1>6 DEF IsInserted
<1> QED
  BY <1>3, <1>7

-----------------------------------------------------------------------------
\* How many blocks LinearOrder is done with.
DoneWith == IF finished THEN Len(linear_bb_) ELSE IF linear_bb_ = <<>> THEN 0
            ELSE Len(linear_bb_) - 1

Analysing ==
  WF(graph) /\ Start \in graph.blocks /\ inverted = {} /\ linear_bb_ = <<>> /\ finished = FALSE

LayingOut ==
  /\ linear_bb_ \in Seq(Ids) /\ todo \in Seq(Ids) /\ finished \in BOOLEAN
  /\ finished => todo = <<>>
  /\ LaidOut(graph, inverted, analysed, linear_bb_ \o todo, DoneWith)

\* The invariant: the graph stays well formed; then, of the blocks laid out and to
\* come, those laid out lead where they should, the last one excepted, and the others
\* are as they were.
LayoutIInv == IF phase = "layout" THEN LayingOut ELSE Analysing

\* Where LinearOrder stands while blocks have been laid out and it is not finished.
Current == linear_bb_ \o todo

LEMMA BeforePlacing ==
  ASSUME LayingOut, finished = FALSE, linear_bb_ # <<>>
  PROVE  LET m == Len(linear_bb_) - 1
             p == LO!prev
         IN  /\ LaidOut(graph, inverted, analysed, Current, m)
             /\ m \in Nat /\ m < Len(Current) /\ Len(Current) \in Nat
             /\ m + 1 = Len(linear_bb_) /\ Current[m + 1] = p
             /\ Untouched(graph, inverted, analysed, p) /\ p \in graph.blocks /\ p \in analysed.blocks
             /\ todo # <<>> => NextOf(Current, m + 1) = Head(todo) /\ Head(todo) \in analysed.blocks
             /\ todo = <<>> => NextOf(Current, m + 1) = None /\ Current = linear_bb_
<1> DEFINE m == Len(linear_bb_) - 1
           p == LO!prev
<1>1. linear_bb_ \in Seq(Ids) /\ todo \in Seq(Ids)
  BY DEF LayingOut
<1>2. /\ Len(linear_bb_) \in Nat \ {0} /\ Len(linear_bb_) <= Len(Current)
      /\ Last(linear_bb_) = Current[Len(linear_bb_)]
      /\ todo # <<>> => Len(linear_bb_) < Len(Current) /\ Current[Len(linear_bb_) + 1] = Head(todo)
      /\ todo = <<>> => Len(linear_bb_) = Len(Current) /\ Current = linear_bb_
  BY <1>1, LastOfFirst DEF Current
<1>3. Current \in Seq(Ids) /\ Len(Current) \in Nat
  BY <1>1, ConcatFacts DEF Current
<1>4. p = Last(linear_bb_)
  BY ReachOfLayout DEF LO!prev
<1>5. LaidOut(graph, inverted, analysed, Current, m)
  BY DEF LayingOut, DoneWith, Current
<1>6. m \in Nat /\ m < Len(Current) /\ m + 1 = Len(linear_bb_)
  BY <1>2, <1>3
<1> HIDE DEF m, p
<1>7. Current[m + 1] = p
  BY <1>2, <1>4, <1>6
<1>8. \A k \in m + 1 .. Len(Current) : Untouched(graph, inverted, analysed, Current[k])
  BY <1>5 DEF LaidOut
<1>9. analysed.blocks \subseteq graph.blocks
  BY <1>5 DEF LaidOut
<1>10. /\ Untouched(graph, inverted, analysed, p)
       /\ todo # <<>> => Untouched(graph, inverted, analysed, Head(todo))
  <2>1. m + 1 \in m + 1 .. Len(Current)
    BY <1>3, <1>6
  <2>2. todo # <<>> => m + 2 \in m + 1 .. Len(Current) /\ Current[m + 2] = Head(todo)
    BY <1>2, <1>3, <1>6
  <2> QED
    BY <1>7, <1>8, <2>1, <2>2
<1>11. /\ todo # <<>> => NextOf(Current, m + 1) = Head(todo)
       /\ todo = <<>> => NextOf(Current, m + 1) = None
  BY <1>2, <1>3, <1>6 DEF NextOf
<1> QED
  BY <1>2, <1>3, <1>5, <1>6, <1>7, <1>9, <1>10, <1>11 DEF Untouched, m, p

\* The next block is placed.
LEMMA Placing ==
  ASSUME linear_bb_ \in Seq(Ids), todo \in Seq(Ids), todo # <<>>, finished = FALSE, LO!PlaceWith(<<>>)
  PROVE  /\ linear_bb_' \in Seq(Ids) /\ todo' \in Seq(Ids) /\ finished' = FALSE
         /\ analysed' = analysed /\ Current' = Current /\ DoneWith' = Len(linear_bb_)
<1>1. /\ linear_bb_' = LO!PushedBack(linear_bb_, <<>>, Head(todo)) /\ todo' = Tail(todo)
      /\ finished' = FALSE /\ analysed' = analysed
  BY DEF LO!PlaceWith, LO!bb
<1>2. Len(linear_bb_) \in Nat /\ Tail(todo) \in Seq(Ids)
  BY HeadTailFacts, ToSetFacts
<1>3. linear_bb_' \in Seq(Ids) /\ Len(linear_bb_') = Len(linear_bb_) + 1
  BY <1>1, MovesHead
<1>4. linear_bb_' \o Tail(todo) = linear_bb_ \o todo
  BY <1>1, MovesHead
<1>5. DoneWith' = Len(linear_bb_)
  <2>1. linear_bb_' # <<>>
    BY <1>2, <1>3
  <2> QED
    BY <1>1, <1>2, <1>3, <2>1 DEF DoneWith
<1> QED
  BY <1>1, <1>2, <1>3, <1>4, <1>5 DEF Current

LEMMA PlacingInserted ==
  ASSUME linear_bb_ \in Seq(Ids), todo \in Seq(Ids), todo # <<>>, finished = FALSE,
         NEW j \in Ids, LO!PlaceWith(<<j>>)
  PROVE  /\ linear_bb_' \in Seq(Ids) /\ todo' \in Seq(Ids) /\ finished' = FALSE
         /\ analysed' = analysed /\ IsInserted(Current, Len(linear_bb_), j, Current')
         /\ DoneWith' = Len(linear_bb_) + 1
<1>1. /\ linear_bb_' = LO!PushedBack(linear_bb_, <<j>>, Head(todo)) /\ todo' = Tail(todo)
      /\ finished' = FALSE /\ analysed' = analysed
  BY DEF LO!PlaceWith, LO!bb
<1>2. Len(linear_bb_) \in Nat /\ Tail(todo) \in Seq(Ids)
  BY HeadTailFacts, ToSetFacts
<1>3. linear_bb_' \in Seq(Ids) /\ Len(linear_bb_') = Len(linear_bb_) + 2
  BY <1>1, MovesHeadInserting
<1>4. IsInserted(linear_bb_ \o todo, Len(linear_bb_), j, linear_bb_' \o Tail(todo))
  BY <1>1, MovesHeadInserting
<1>5. DoneWith' = Len(linear_bb_) + 1
  <2>1. linear_bb_' # <<>>
    BY <1>2, <1>3
  <2> QED
    BY <1>1, <1>2, <1>3, <2>1 DEF DoneWith
<1> QED
  BY <1>1, <1>2, <1>3, <1>4, <1>5 DEF Current

\* A block is done with when the next is placed without a new one.
LEMMA StepPlacing ==
  ASSUME LayingOut, finished = FALSE, todo # <<>>, linear_bb_ # <<>>, LO!PlaceWith(<<>>),
         WF(graph'), SameGraph(graph, graph'),
         ChangesOnly(LO!prev, graph, inverted, graph', inverted'),
         Settled(graph', inverted', analysed, LO!prev, Head(todo))
  PROVE  LayingOut'
<1> DEFINE m == Len(linear_bb_) - 1
<1>1. /\ LaidOut(graph, inverted, analysed, Current, m) /\ m < Len(Current)
      /\ m + 1 = Len(linear_bb_) /\ Current[m + 1] = LO!prev /\ NextOf(Current, m + 1) = Head(todo)
  BY BeforePlacing
<1>2. /\ linear_bb_' \in Seq(Ids) /\ todo' \in Seq(Ids) /\ finished' = FALSE
      /\ analysed' = analysed /\ Current' = Current /\ DoneWith' = Len(linear_bb_)
  BY Placing DEF LayingOut
<1> HIDE DEF m
<1>3. LaidOut(graph', inverted', analysed, Current, m + 1)
  <2> DEFINE h == graph'
             inv2 == inverted'
             L == Current
  <2>1. /\ WF(h) /\ SameGraph(graph, h)
        /\ ChangesOnly(L[m + 1], graph, inverted, h, inv2)
        /\ Settled(h, inv2, analysed, L[m + 1], NextOf(L, m + 1))
    BY <1>1
  <2> HIDE DEF h, inv2
  <2>2. LaidOut(h, inv2, analysed, L, m + 1)
    BY <1>1, <2>1, SettleNext
  <2> QED
    BY <2>2 DEF h, inv2
<1> QED
  BY <1>1, <1>2, <1>3 DEF LayingOut, Current

\* What InsertJumpBasicBlock does.
LEMMA InsertingPuts ==
  ASSUME NEW p, NEW F, GetNumSuccessors(graph, p) = 2, F = graph.succs[p][0],
         LO!InsertJumpBasicBlock(p, F)
  PROVE  PutsJump(graph, p, F, LO!NewId, graph') /\ LO!NewId \in Ids /\ inverted' = inverted
<1> DEFINE j == LO!NewId
<1>1. /\ LO!CanNewBlock(graph, j)
      /\ LO!CanInsertBlock(LO!NewBlock(graph, j, "jump"), j, p, F)
      /\ graph' = LO!WithJumpBlock(graph, j, p, F)
      /\ inverted' = inverted
  BY DEF LO!InsertJumpBasicBlock
<1> HIDE DEF j
<1>2. CanNewBlock(graph, j) /\ CanInsertBlock(NewBlock(graph, j, "jump"), j, p, F)
  BY <1>1, EditsOfLayout
<1>3. j \in Ids
  BY <1>2 DEF CanNewBlock
<1>4. PutsJump(graph, p, F, j, graph')
  BY <1>1, <1>2 DEF PutsJump
<1> QED
  BY <1>1, <1>3, <1>4 DEF j

LEMMA StepInserting ==
  ASSUME LayingOut, finished = FALSE, todo # <<>>, linear_bb_ # <<>>, LO!PlaceWith(<<LO!NewId>>),
         GetNumSuccessors(graph, LO!prev) = 2,
         LO!InsertJumpBasicBlock(LO!prev, graph.succs[LO!prev][0])
  PROVE  LayingOut'
<1> DEFINE m == Len(linear_bb_) - 1
           j == LO!NewId
           F == graph.succs[LO!prev][0]
<1>1. /\ LaidOut(graph, inverted, analysed, Current, m) /\ m < Len(Current) /\ m \in Nat
      /\ m + 1 = Len(linear_bb_) /\ Current[m + 1] = LO!prev
  BY BeforePlacing
<1>2. PutsJump(graph, LO!prev, F, j, graph') /\ j \in Ids /\ inverted' = inverted
  BY InsertingPuts
<1> HIDE DEF j, F, m
<1>3. /\ linear_bb_' \in Seq(Ids) /\ todo' \in Seq(Ids) /\ finished' = FALSE
      /\ analysed' = analysed /\ IsInserted(Current, Len(linear_bb_), j, Current')
      /\ DoneWith' = Len(linear_bb_) + 1
  <2>1. LO!PlaceWith(<<j>>)
    BY DEF j
  <2> QED
    BY <1>2, <2>1, PlacingInserted DEF LayingOut
<1>4. LaidOut(graph', inverted, analysed, Current', m + 2)
  <2> DEFINE h == graph'
             M == Current'
  <2>1. PutsJump(graph, Current[m + 1], F, j, h) /\ IsInserted(Current, m + 1, j, M)
    BY <1>1, <1>2, <1>3
  <2> HIDE DEF h, M
  <2>2. LaidOut(h, inverted, analysed, M, m + 2)
    BY <1>1, <2>1, SettleInserting
  <2> QED
    BY <2>2 DEF h, M
<1>5. DoneWith' = m + 2
  BY <1>1, <1>3
<1> QED
  BY <1>2, <1>3, <1>4, <1>5 DEF LayingOut, Current

\* The four actions.
LEMMA AppendFreelyStep ==
  ASSUME LayingOut, finished = FALSE, LO!AppendFreely
  PROVE  LayingOut'
<1>1. /\ todo # <<>> /\ LO!PlaceWith(<<>>) /\ graph' = graph /\ inverted' = inverted
      /\ linear_bb_ # <<>> => GetNumSuccessors(graph, LO!prev) = 0
  BY SlotsOfLayout DEF LO!AppendFreely
<1>2. CASE linear_bb_ = <<>>
  <2>1. /\ linear_bb_' \in Seq(Ids) /\ todo' \in Seq(Ids) /\ finished' = FALSE
        /\ analysed' = analysed /\ Current' = Current /\ DoneWith' = Len(linear_bb_)
    BY <1>1, Placing DEF LayingOut
  <2>2. DoneWith' = 0 /\ LaidOut(graph, inverted, analysed, Current, 0)
    BY <1>2, <2>1 DEF LayingOut, DoneWith, Current
  <2> QED
    BY <1>1, <2>1, <2>2 DEF LayingOut, Current
<1>3. CASE linear_bb_ # <<>>
  <2> DEFINE p == LO!prev
  <2>1. /\ Untouched(graph, inverted, analysed, p) /\ p \in graph.blocks
    BY <1>3, BeforePlacing
  <2>2. LaidOut(graph, inverted, analysed, Current, Len(linear_bb_) - 1)
    BY <1>3, BeforePlacing
  <2>3. WF(graph) /\ WF(analysed)
    BY <2>2 DEF LaidOut
  <2>4. GetNumSuccessors(graph, p) = 0
    BY <1>1, <1>3
  <2> HIDE DEF p
  <2>5. Settled(graph, inverted, analysed, p, Head(todo))
    BY <2>1, <2>3, <2>4, ReturnLeads DEF Settled
  <2>6. ChangesOnly(p, graph, inverted, graph, inverted) /\ SameGraph(graph, graph)
    BY DEF ChangesOnly, SameGraph
  <2> QED
    BY <1>1, <1>3, <2>3, <2>5, <2>6, StepPlacing DEF p
<1> QED
  BY <1>2, <1>3

LEMMA SingleSuccessorStep ==
  ASSUME LayingOut, finished = FALSE, LO!ProcessSingleSuccessor
  PROVE  LayingOut'
<1> DEFINE p == LO!prev
           n == Head(todo)
<1>1. /\ todo # <<>> /\ linear_bb_ # <<>> /\ LO!PlaceWith(<<>>) /\ inverted' = inverted
      /\ GetNumSuccessors(graph, p) = 1
      /\ graph' = IF n # graph.succs[p][0] /\ graph.term[p] # "jump"
                  THEN LO!AppendJump(graph, p) ELSE graph
  BY SlotsOfLayout DEF LO!ProcessSingleSuccessor, LO!bb
<1>2. /\ Untouched(graph, inverted, analysed, p) /\ p \in graph.blocks /\ n \in analysed.blocks
  BY <1>1, BeforePlacing
<1>3. LaidOut(graph, inverted, analysed, Current, Len(linear_bb_) - 1)
  BY <1>1, BeforePlacing
<1>4. WF(graph) /\ WF(analysed)
  BY <1>3 DEF LaidOut
<1> HIDE DEF p, n
<1>5. CASE n # graph.succs[p][0] /\ graph.term[p] # "jump"
  <2> DEFINE h == LO!AppendJump(graph, p)
  <2>1. /\ WF(h) /\ SameGraph(graph, h) /\ ChangesOnly(p, graph, inverted, h, inverted)
        /\ Follows(h, p, n) /\ Leads(h, inverted, analysed, p, n)
    BY <1>1, <1>2, <1>4, JumpLeads
  <2>2. graph' = h
    BY <1>1, <1>5
  <2> HIDE DEF h
  <2>3. Settled(h, inverted, analysed, p, n)
    BY <2>1 DEF Settled
  <2> QED
    BY <1>1, <2>1, <2>2, <2>3, StepPlacing DEF p, n
<1>6. CASE ~(n # graph.succs[p][0] /\ graph.term[p] # "jump")
  <2>1. graph' = graph
    BY <1>1, <1>6
  <2>2. Settled(graph, inverted, analysed, p, n)
    BY <1>2, <1>4, <1>6, FallsThrough DEF Settled
  <2>3. ChangesOnly(p, graph, inverted, graph, inverted) /\ SameGraph(graph, graph)
    BY DEF ChangesOnly, SameGraph
  <2> QED
    BY <1>1, <1>4, <2>1, <2>2, <2>3, StepPlacing DEF p, n
<1> QED
  BY <1>5, <1>6

LEMMA TwoSuccessorsStep ==
  ASSUME LayingOut, finished = FALSE, LO!ProcessTwoSuccessors
  PROVE  LayingOut'
<1> DEFINE p == LO!prev
           n == Head(todo)
<1>1. /\ todo # <<>> /\ linear_bb_ # <<>>
      /\ GetNumSuccessors(graph, p) = 2
      /\ \/ n = graph.succs[p][1] /\ LO!InvertCondition(p) /\ LO!PlaceWith(<<>>)
         \/ n = graph.succs[p][0] /\ LO!PlaceWith(<<>>) /\ graph' = graph /\ inverted' = inverted
         \/ LO!InsertJumpBasicBlock(p, graph.succs[p][0]) /\ LO!PlaceWith(<<LO!NewId>>)
  BY SlotsOfLayout DEF LO!ProcessTwoSuccessors, LO!bb
<1>2. /\ Untouched(graph, inverted, analysed, p) /\ p \in graph.blocks /\ n \in analysed.blocks
  BY <1>1, BeforePlacing
<1>3. LaidOut(graph, inverted, analysed, Current, Len(linear_bb_) - 1)
  BY <1>1, BeforePlacing
<1>4. WF(graph) /\ WF(analysed)
  BY <1>3 DEF LaidOut
<1> HIDE DEF n
<1>5. CASE n = graph.succs[p][1] /\ LO!InvertCondition(p) /\ LO!PlaceWith(<<>>)
  <2> DEFINE h == SwapTwoSuccessors(graph, p)
  <2>1. CanSwapSuccessors(graph, p) /\ graph' = h /\ inverted' = inverted \cup {p}
    BY <1>2, <1>5, EditsOfLayout DEF LO!InvertCondition, LO!Negated, Untouched
  <2> HIDE DEF p
  <2>2. /\ WF(h) /\ SameGraph(graph, h) /\ ChangesOnly(p, graph, inverted, h, inverted \cup {p})
        /\ Follows(h, p, n) /\ Leads(h, inverted \cup {p}, analysed, p, n)
    <3>1. n = graph.succs[p][1]
      BY <1>5
    <3>2. CanSwapSuccessors(graph, p)
      BY <2>1
    <3> QED
      BY <1>2, <1>4, <3>1, <3>2, SwapLeads
  <2> HIDE DEF h
  <2>3. Settled(h, inverted \cup {p}, analysed, p, n)
    BY <2>2 DEF Settled
  <2> QED
    BY <1>1, <1>5, <2>1, <2>2, <2>3, StepPlacing DEF p, n
<1>6. CASE n = graph.succs[p][0] /\ LO!PlaceWith(<<>>) /\ graph' = graph /\ inverted' = inverted
  <2> HIDE DEF p
  <2>2. Settled(graph, inverted, analysed, p, n)
    BY <1>2, <1>4, <1>6, FallsThrough DEF Settled
  <2>3. ChangesOnly(p, graph, inverted, graph, inverted) /\ SameGraph(graph, graph)
    BY DEF ChangesOnly, SameGraph
  <2> QED
    BY <1>1, <1>4, <1>6, <2>2, <2>3, StepPlacing DEF p, n
<1>7. CASE LO!InsertJumpBasicBlock(p, graph.succs[p][0]) /\ LO!PlaceWith(<<LO!NewId>>)
  BY <1>1, <1>7, StepInserting
<1> QED
  BY <1>1, <1>5, <1>6, <1>7

LEMMA ProcessLastStep ==
  ASSUME LayingOut, LO!ProcessLast
  PROVE  LayingOut'
<1> DEFINE p == LO!prev
           m == Len(linear_bb_) - 1
<1>1. /\ todo = <<>> /\ finished = FALSE /\ finished' = TRUE /\ todo' = todo /\ analysed' = analysed
  BY DEF LO!ProcessLast, LayingOut
<1>2. linear_bb_ # <<>>
  <2>1. LaidOut(graph, inverted, analysed, Current, DoneWith)
    BY DEF LayingOut, Current
  <2>2. WF(analysed) /\ Start \in analysed.blocks /\ ToSet(Current) \cap analysed.blocks = Reachable(analysed)
    BY <2>1 DEF LaidOut
  <2>3. Start \in ToSet(Current)
    BY <2>2, ReachableBlocks, ReachableFacts
  <2>4. ToSet(<<>> \o <<>>) = {}
    BY DEF ToSet
  <2> QED
    BY <1>1, <2>3, <2>4 DEF Current
<1>3. /\ LaidOut(graph, inverted, analysed, Current, m)
      /\ m \in Nat /\ m < Len(Current) /\ Len(Current) \in Nat
      /\ m + 1 = Len(linear_bb_) /\ Current[m + 1] = p
      /\ Untouched(graph, inverted, analysed, p) /\ p \in graph.blocks /\ p \in analysed.blocks
      /\ NextOf(Current, m + 1) = None /\ Current = linear_bb_
  BY <1>1, <1>2, BeforePlacing
<1>4. WF(graph) /\ WF(analysed) /\ linear_bb_ \in Seq(Ids)
  BY <1>3 DEF LaidOut, LayingOut
<1>5. GetNumSuccessors(graph, p) \in {0, 1, 2}
  <2>1. p \in Ids /\ graph \in Graphs
    BY <1>3, <1>4 DEF WF, Shape, Graphs
  <2> QED
    BY <2>1, NumSuccessorsFacts
<1>6. CASE GetNumSuccessors(graph, p) # 2
  <2> DEFINE h == graph'
  <2>1. /\ inverted' = inverted /\ linear_bb_' = linear_bb_
        /\ GetNumSuccessors(graph, p) = 0 => h = graph
        /\ GetNumSuccessors(graph, p) = 1 => h = LO!AppendJump(graph, p)
    BY <1>5, <1>6, SlotsOfLayout DEF LO!ProcessLast
  <2> HIDE DEF h, p, m
  <2>2. /\ WF(h) /\ SameGraph(graph, h) /\ ChangesOnly(p, graph, inverted, h, inverted)
        /\ Follows(h, p, None) /\ Leads(h, inverted, analysed, p, None)
    <3>1. CASE GetNumSuccessors(graph, p) = 0
      <4>1. Follows(graph, p, None) /\ Leads(graph, inverted, analysed, p, None)
        BY <1>3, <1>4, <3>1, ReturnLeads
      <4> QED
        BY <1>4, <2>1, <3>1, <4>1 DEF ChangesOnly, SameGraph
    <3>2. CASE GetNumSuccessors(graph, p) = 1
      BY <1>3, <1>4, <2>1, <3>2, JumpLeads
    <3> QED
      BY <1>5, <1>6, <3>1, <3>2
  <2>3. Settled(h, inverted, analysed, p, None)
    BY <2>2 DEF Settled
  <2>4. LaidOut(h, inverted, analysed, Current, m + 1)
    BY <1>3, <2>2, <2>3, SettleNext
  <2>5. Current' = Current /\ DoneWith' = m + 1
    BY <1>1, <1>3, <2>1 DEF Current, DoneWith
  <2> QED
    BY <1>1, <1>4, <2>1, <2>4, <2>5 DEF LayingOut, Current, h
<1>7. CASE GetNumSuccessors(graph, p) = 2
  <2> DEFINE F == graph.succs[p][0]
             j == LO!NewId
             h == graph'
  <2>1. LO!InsertJumpBasicBlock(p, F) /\ linear_bb_' = Append(linear_bb_, j)
    <3>1. LO!GetNumSuccessors(graph, LO!prev) = 2 /\ LO!FALLTHROUGH = 0
      BY <1>7, SlotsOfLayout
    <3> QED
      BY <3>1 DEF LO!ProcessLast
  <2>2. PutsJump(graph, p, F, j, graph') /\ j \in Ids /\ inverted' = inverted
    BY <1>7, <2>1, InsertingPuts
  <2> HIDE DEF F, j, p, m
  <2>3. /\ linear_bb_' \in Seq(Ids) /\ Len(linear_bb_') = Len(linear_bb_) + 1
        /\ linear_bb_'[Len(linear_bb_) + 1] = j
        /\ \A k \in 1 .. Len(linear_bb_) : linear_bb_'[k] = linear_bb_[k]
    BY <1>4, <2>1, <2>2, AppendFacts
  <2>4. Current' = linear_bb_'
    BY <1>1, <2>3, ConcatEmptySeq DEF Current
  <2>5. IsInserted(Current, m + 1, j, Current')
    <3>1. \A k \in Len(linear_bb_) + 1 .. Len(linear_bb_) : linear_bb_'[k + 1] = linear_bb_[k]
      BY <1>3
    <3> QED
      BY <1>3, <2>3, <2>4, <3>1 DEF IsInserted
  <2>6. LaidOut(graph', inverted, analysed, Current', m + 2)
    <3> DEFINE M == Current'
    <3>1. PutsJump(graph, Current[m + 1], F, j, h) /\ IsInserted(Current, m + 1, j, M)
      BY <1>3, <2>2, <2>5
    <3> HIDE DEF h, M
    <3>2. LaidOut(h, inverted, analysed, M, m + 2)
      BY <1>3, <3>1, SettleInserting
    <3> QED
      BY <3>2 DEF h, M
  <2>7. DoneWith' = m + 2
    BY <1>1, <1>3, <2>3 DEF DoneWith
  <2>8. todo' \in Seq(Ids)
    BY <1>1 DEF LayingOut
  <2> QED
    BY <1>1, <2>2, <2>3, <2>6, <2>7, <2>8 DEF LayingOut, Current
<1> QED
  BY <1>6, <1>7

\* Jumps at the ends of blocks change no edge.
LEMMA JumpsAdded ==
  ASSUME NEW g, WF(g), NEW jumps, jumps \subseteq {b : b \in Ids}, \A b \in jumps : g.term[b] = "none",
         NEW h, h = [g EXCEPT !.term = [b \in Ids |-> IF b \in jumps THEN "jump" ELSE @[b]]]
  PROVE  WF(h) /\ SameGraph(g, h)
<1>1. g \in Graphs /\ g.blocks \subseteq Ids
  BY DEF WF, Shape, Graphs
<1>2. /\ h.blocks = g.blocks /\ h.succs = g.succs /\ h.preds = g.preds
      /\ h.term = [b \in Ids |-> IF b \in jumps THEN "jump" ELSE g.term[b]]
  BY <1>1 DEF Graphs
<1>3. h \in Graphs
  <2>1. h.term \in [Ids -> Terms]
    BY <1>1, <1>2 DEF Graphs, Terms
  <2>2. h = [g EXCEPT !.term = h.term]
    BY <1>1, <1>2 DEF Graphs
  <2> QED
    BY <1>1, <2>1, <2>2 DEF Graphs
<1>4. \A c \in Ids : SuccSet(h, c) = SuccSet(g, c)
  BY <1>2 DEF SuccSet
<1>5. \A c \in Ids : GetNumSuccessors(h, c) = GetNumSuccessors(g, c)
  BY <1>2 DEF GetNumSuccessors
<1>6. WF(h)
  BY <1>1, <1>2, <1>3, <1>4, <1>5 DEF WF, Shape, Symmetric, NoDangling, NoParallel, NoHiddenSlots
<1> QED
  BY <1>2, <1>4, <1>6 DEF SameGraph

\* LinearOrder begins with what the analysis has left.
LEMMA BeginLayoutStep ==
  ASSUME Analysing, BeginLayout
  PROVE  LayingOut'
<1>1. /\ WF(graph) /\ Start \in graph.blocks /\ inverted = {} /\ linear_bb_ = <<>> /\ finished = FALSE
  BY DEF Analysing
<1>2. PICK jumps \in {{}, {b \in given.blocks : graph.term[b] = "none"}} :
        graph' = [graph EXCEPT !.term = [b \in Ids |-> IF b \in jumps THEN "jump" ELSE @[b]]]
  BY DEF BeginLayout
<1> DEFINE added == {b \in Ids : b \in jumps}
           h == graph'
<1>3. h = [graph EXCEPT !.term = [b \in Ids |-> IF b \in added THEN "jump" ELSE @[b]]]
  <2>1. [b \in Ids |-> IF b \in jumps THEN "jump" ELSE graph.term[b]]
        = [b \in Ids |-> IF b \in added THEN "jump" ELSE graph.term[b]]
    OBVIOUS
  <2> QED
    BY <1>2, <2>1
<1>4. /\ added \subseteq {b : b \in Ids} /\ \A b \in added : graph.term[b] = "none"
  BY <1>2
<1>5. /\ analysed' = h /\ todo' = Preorder(graph) /\ inverted' = {} /\ linear_bb_' = <<>>
      /\ finished' = FALSE
  BY <1>1 DEF BeginLayout
<1> HIDE DEF added, h
<1>6. WF(h) /\ h.blocks = graph.blocks /\ \A c \in Ids : SuccSet(h, c) = SuccSet(graph, c)
  <2>1. WF(h) /\ SameGraph(graph, h)
    BY <1>1, <1>3, <1>4, JumpsAdded
  <2> QED
    BY <2>1 DEF SameGraph
<1>7. graph \in Graphs /\ h \in Graphs
  BY <1>1, <1>6 DEF WF, Shape
<1> DEFINE L == Preorder(graph)
<1>8. L \in Seq(Ids) /\ ToSet(L) = Reachable(graph) /\ IsInjective(L) /\ Led(graph, L)
  BY <1>7, PreorderLists
<1> HIDE DEF L
<1>9. ListOK(h, L)
  BY <1>6, <1>7, <1>8, SameEdges DEF ListOK
<1>10. ToSet(L) \cap h.blocks = Reachable(h)
  BY <1>1, <1>6, <1>9, ReachableBlocks DEF ListOK
<1>11. \A k \in 0 + 1 .. Len(L) : Untouched(h, {}, h, L[k])
  <2>1. Reachable(h) \subseteq h.blocks
    BY <1>1, <1>6, ReachableBlocks
  <2>2. ToSet(L) = {L[k] : k \in 1 .. Len(L)}
    BY <1>8, ToSetFacts
  <2> QED
    BY <1>9, <2>1, <2>2 DEF Untouched, ListOK
<1>12. LaidOut(h, {}, h, L, 0)
  <2>1. 0 \in 0 .. Len(L)
    BY <1>8, ToSetFacts
  <2> QED
    BY <1>1, <1>6, <1>9, <1>10, <1>11, <2>1 DEF LaidOut
<1>13. /\ todo' = L /\ Current' = L /\ DoneWith' = 0
  <2>1. <<>> \o L = L
    BY <1>8, ConcatEmptySeq
  <2>2. todo' = L
    BY <1>5 DEF L
  <2> QED
    BY <1>5, <2>1, <2>2 DEF Current, DoneWith
<1>14. linear_bb_' \in Seq(Ids) /\ todo' \in Seq(Ids) /\ finished' \in BOOLEAN /\ ~finished'
  <2>1. <<>> \in Seq(Ids)
    OBVIOUS
  <2>2. L \in Seq(Ids) /\ todo' = L
    BY <1>8, <1>13
  <2> QED
    BY <1>5, <2>1, <2>2
<1>15. LaidOut(graph', inverted', analysed', Current', DoneWith')
  BY <1>5, <1>12, <1>13 DEF h
<1> QED
  BY <1>14, <1>15 DEF LayingOut, Current

\* Every step keeps the invariant.
LEMMA LayOutStep ==
  ASSUME LayoutIInv, LayOut
  PROVE  LayoutIInv'
<1>1. phase = "layout" /\ finished = FALSE /\ phase' = phase /\ LayingOut /\ LO!Next
  BY DEF LayOut, LayoutIInv, LayingOut
<1>2. CASE LO!AppendFreely
  BY <1>1, <1>2, AppendFreelyStep DEF LayoutIInv
<1>3. CASE LO!ProcessSingleSuccessor
  BY <1>1, <1>3, SingleSuccessorStep DEF LayoutIInv
<1>4. CASE LO!ProcessTwoSuccessors
  BY <1>1, <1>4, TwoSuccessorsStep DEF LayoutIInv
<1>5. CASE LO!ProcessLast
  BY <1>1, <1>5, ProcessLastStep DEF LayoutIInv
<1>6. CASE LO!Terminated
  BY <1>1, <1>6 DEF LO!Terminated
<1> QED
  BY <1>1, <1>2, <1>3, <1>4, <1>5, <1>6 DEF LO!Next

LEMMA LayoutStep ==
  ASSUME LayoutIInv, [LayoutNext]_allVars
  PROVE  LayoutIInv'
<1>1. CASE AnalyseLoops
  <2>2. Next /\ UNCHANGED layoutVars
    BY <1>1 DEF AnalyseLoops
  <2>3. phase # "layout"
    BY <2>2 DEF Next, BackEdge, SkipBlack, Visit, AtSuccessor, Leave, SplitBackEdge, KeepBackEdges,
          ReadMoved, RecalculateLoopsReducibility, AddPreHeader, NoPreHeader, PreHeadersDone,
          PopulateLoop, DropIrreducible, PassNoHeader, BuildLoopTree, Check, Terminated
  <2>4. Analysing
    BY <2>3 DEF LayoutIInv
  <2>5. WF(graph') /\ Start \in graph'.blocks /\ phase' # "layout"
    BY <2>2, <2>3, <2>4, AnalysisKeepsWF DEF Analysing
  <2> QED
    BY <2>2, <2>4, <2>5 DEF LayoutIInv, Analysing, layoutVars
<1>2. CASE BeginLinearizeBlocks
  <2>1. phase # "layout" /\ phase' # "layout" /\ UNCHANGED <<graph, layoutVars>>
    BY <1>2 DEF BeginLinearizeBlocks, Enter
  <2> QED
    BY <2>1 DEF LayoutIInv, Analysing, layoutVars
<1>3. CASE PlaceBlock
  <2>1. phase # "layout" /\ phase' # "layout" /\ UNCHANGED <<graph, layoutVars>>
    BY <1>3 DEF PlaceBlock, Enter, vars
  <2> QED
    BY <2>1 DEF LayoutIInv, Analysing, layoutVars
<1>4. CASE EndLinearizeBlocks
  <2>1. phase # "layout" /\ phase' # "layout" /\ UNCHANGED <<graph, layoutVars>>
    BY <1>4 DEF EndLinearizeBlocks, Enter
  <2> QED
    BY <2>1 DEF LayoutIInv, Analysing, layoutVars
<1>5. CASE BeginLayout
  <2>1. phase # "layout" /\ phase' = "layout"
    BY <1>5 DEF BeginLayout
  <2> QED
    BY <1>5, <2>1, BeginLayoutStep DEF LayoutIInv
<1>6. CASE LayOut
  BY <1>6, LayOutStep
<1>7. CASE Ended \/ UNCHANGED allVars
  <2>1. UNCHANGED <<phase, graph, todo, layoutVars>>
    BY <1>7 DEF Ended, allVars, vars
  <2>2. CASE phase = "layout"
    BY <2>1, <2>2 DEF LayoutIInv, LayingOut, DoneWith, layoutVars
  <2>3. CASE phase # "layout"
    BY <2>1, <2>3 DEF LayoutIInv, Analysing, layoutVars
  <2> QED
    BY <2>2, <2>3
<1> QED
  BY <1>1, <1>2, <1>3, <1>4, <1>5, <1>6, <1>7 DEF LayoutNext

\* The invariant holds in every state.
THEOREM LayoutKeepsIInv == LayoutSpec => []LayoutIInv
<1>1. LayoutInit => LayoutIInv
  <2> SUFFICES ASSUME LayoutInit PROVE LayoutIInv
    OBVIOUS
  <2>1. graph \in Inputs /\ phase = "CollectBackEdges"
    BY DEF LayoutInit, Init
  <2>2. WF(graph) /\ Start \in graph.blocks
    BY <2>1, InputsAssumption DEF WF, Shape
  <2> QED
    BY <2>1, <2>2 DEF LayoutInit, LayoutIInv, Analysing
<1>2. LayoutIInv /\ [LayoutNext]_allVars => LayoutIInv'
  BY LayoutStep
<1> QED
  BY <1>1, <1>2, PTL DEF LayoutSpec

-----------------------------------------------------------------------------
\* In the end every block is done with.
LEMMA InTheEnd ==
  ASSUME LayoutIInv, phase = "layout", finished
  PROVE  /\ linear_bb_ \in Seq(Ids) /\ DOMAIN linear_bb_ = 1 .. Len(linear_bb_) /\ Len(linear_bb_) \in Nat
         /\ LaidOut(graph, inverted, analysed, linear_bb_, Len(linear_bb_))
<1>1. LayingOut
  BY DEF LayoutIInv
<1>2. linear_bb_ \in Seq(Ids) /\ todo = <<>> /\ finished
  BY <1>1 DEF LayingOut
<1>3. linear_bb_ \o todo = linear_bb_
  BY <1>2, ConcatEmptySeq
<1> QED
  BY <1>1, <1>2, <1>3, ToSetFacts DEF LayingOut, DoneWith

LEMMA InTheEndOnce == LayoutIInv => LaidOutOnce
<1> SUFFICES ASSUME LayoutIInv, phase = "layout", finished
             PROVE  LO!LaidOutOnce
  BY DEF LaidOutOnce, LO!LaidOutOnce
<1> DEFINE L == linear_bb_
<1>1. L \in Seq(Ids) /\ DOMAIN L = 1 .. Len(L) /\ Len(L) \in Nat
  BY InTheEnd
<1>2. WF(graph) /\ ListOK(graph, L)
  BY InTheEnd DEF LaidOut
<1>3. ToSet(L) = Reachable(graph) /\ IsInjective(L) /\ Led(graph, L) /\ graph \in Graphs
  BY <1>2 DEF ListOK, WF, Shape
<1>4. ASSUME NEW j \in DOMAIN L, NEW k \in DOMAIN L, j # k, Dominates(graph, L[j], L[k])
      PROVE  j < k
  <2> HIDE DEF L
  <2> QED
    BY <1>1, <1>3, <1>4, LedByDominators
<1> QED
  BY <1>3, <1>4, ReachOfLayout DEF LO!LaidOutOnce

\* The code runs as the graph says from every block that is done with.
LEMMA InTheEndRuns == LayoutIInv => LayoutRunsProgram
<1> SUFFICES ASSUME LayoutIInv, phase = "layout", finished,
                    NEW b \in Reachable(analysed), NEW holds \in BOOLEAN
             PROVE  LO!RunsOnTo(b, holds) = LO!GivenTarget(b, holds)
  BY ReachOfLayout DEF LayoutRunsProgram, LO!LayoutRunsProgram
<1> DEFINE L == linear_bb_
<1>1. L \in Seq(Ids) /\ DOMAIN L = 1 .. Len(L) /\ Len(L) \in Nat
  BY InTheEnd
<1>2. LaidOut(graph, inverted, analysed, L, Len(L))
  BY InTheEnd
<1>3. /\ ToSet(L) \cap analysed.blocks = Reachable(analysed) /\ IsInjective(L)
      /\ WF(analysed) /\ WF(graph) /\ analysed.blocks \subseteq graph.blocks
      /\ \A k \in 1 .. Len(L) : Settled(graph, inverted, analysed, L[k], NextOf(L, k))
  BY <1>2 DEF LaidOut, ListOK
<1>4. PICK k \in 1 .. Len(L) : b = L[k]
  BY <1>1, <1>3, ToSetFacts
<1>5. b \in analysed.blocks /\ Leads(graph, inverted, analysed, b, NextOf(L, k))
  BY <1>3, <1>4 DEF Settled
<1>6. LO!Behind(b) = NextOf(L, k)
  <2>1. \A i \in DOMAIN L : L[i] = b <=> i = k
    BY <1>1, <1>3, <1>4 DEF IsInjective
  <2> DEFINE x == CHOOSE i \in DOMAIN L : L[i] = b
  <2>2. LO!Behind(b) = IF x < Len(L) THEN L[x + 1] ELSE None
    BY DEF LO!Behind
  <2>3. x = k
    <3> HIDE DEF L
    <3> QED
      BY <1>1, <1>4, <2>1
  <2> HIDE DEF x
  <2> QED
    BY <2>2, <2>3 DEF NextOf
<1> DEFINE n == NextOf(L, k)
           c == Into(graph, inverted, b, n, holds)
           target == TargetOf(analysed, b, holds)
<1>7. LO!RunsInto(b, holds) = c
  BY <1>6, SlotsOfLayout DEF LO!RunsInto, Into
<1>8. LO!GivenTarget(b, holds) = target
  <2>1. /\ LO!FALLTHROUGH = 0 /\ LO!BRANCH_TRUE = 1
        /\ LO!GetNumSuccessors(analysed, b) = GetNumSuccessors(analysed, b)
    BY SlotsOfLayout
  <2>2. b \in Ids /\ analysed \in Graphs
    BY <1>3, <1>5 DEF WF, Shape, Graphs
  <2>3. GetNumSuccessors(analysed, b) \in {0, 1, 2}
    BY <2>2, NumSuccessorsFacts
  <2> QED
    BY <2>1, <2>3 DEF LO!GivenTarget, TargetOf
<1>9. LeadsTo1(graph, analysed, c, target)
  BY <1>5 DEF Leads
<1> HIDE DEF c, target, n
<1>10. CASE c \in analysed.blocks \cup {None}
  BY <1>7, <1>8, <1>9, <1>10 DEF LO!RunsOnTo, LeadsTo1
<1>11. CASE c \notin analysed.blocks \cup {None}
  <2>1. graph.term[c] = "jump" /\ graph.succs[c][0] = target
    BY <1>9, <1>11 DEF LeadsTo1
  <2>2. LO!RunsInto(c, holds) = target
    BY <2>1, SlotsOfLayout DEF LO!RunsInto
  <2> QED
    BY <1>7, <1>8, <1>11, <2>2 DEF LO!RunsOnTo
<1> QED
  BY <1>10, <1>11

\* What LinearOrder::Check asserts.
LEMMA InTheEndChecked == LayoutIInv => (phase = "layout" /\ finished => LO!ChecksHold)
<1> SUFFICES ASSUME LayoutIInv, phase = "layout", finished
             PROVE  LO!ChecksHold
  OBVIOUS
<1> DEFINE L == linear_bb_
<1>1. L \in Seq(Ids) /\ DOMAIN L = 1 .. Len(L) /\ Len(L) \in Nat
  BY InTheEnd
<1>2. LaidOut(graph, inverted, analysed, L, Len(L))
  BY InTheEnd
<1>3. /\ ToSet(L) = Reachable(graph) /\ IsInjective(L) /\ graph \in Graphs
      /\ \A k \in 1 .. Len(L) : Settled(graph, inverted, analysed, L[k], NextOf(L, k))
  BY <1>2 DEF LaidOut, ListOK, WF, Shape
<1>4. Len(L) = Len(LO!Preorder(graph))
  <2> DEFINE M == Preorder(graph)
  <2>1. M \in Seq(Ids) /\ ToSet(M) = Reachable(graph) /\ IsInjective(M)
    BY <1>3, PreorderLists
  <2> HIDE DEF L, M
  <2>2. Len(M) = Len(L)
    BY <1>1, <1>3, <2>1, LengthOfList
  <2> QED
    BY <2>2, ReachOfLayout DEF M
<1>5. ASSUME NEW i \in DOMAIN L
      PROVE  Follows(graph, L[i], IF i < Len(L) THEN L[i + 1] ELSE None)
  BY <1>1, <1>3, <1>5 DEF Settled, NextOf
<1>6. ASSUME NEW i \in DOMAIN linear_bb_
      PROVE  LET b    == linear_bb_[i]
                 next == IF i < Len(linear_bb_) THEN linear_bb_[i + 1] ELSE None
             IN  /\ LO!GetNumSuccessors(graph, b) = 2 => /\ next = graph.succs[b][LO!FALLTHROUGH]
                                                         /\ next # graph.succs[b][LO!BRANCH_TRUE]
                 /\ LO!GetNumSuccessors(graph, b) = 1 /\ graph.term[b] # "jump" =>
                      next = graph.succs[b][LO!FALLTHROUGH]
  <2> DEFINE b    == linear_bb_[i]
             next == IF i < Len(linear_bb_) THEN linear_bb_[i + 1] ELSE None
  <2>1. Follows(graph, b, next)
    BY <1>5
  <2> HIDE DEF b, next
  <2>2. /\ LO!GetNumSuccessors(graph, b) = GetNumSuccessors(graph, b)
        /\ LO!FALLTHROUGH = 0 /\ LO!BRANCH_TRUE = 1
    BY SlotsOfLayout
  <2>3. /\ LO!GetNumSuccessors(graph, b) = 2 => /\ next = graph.succs[b][LO!FALLTHROUGH]
                                                /\ next # graph.succs[b][LO!BRANCH_TRUE]
        /\ LO!GetNumSuccessors(graph, b) = 1 /\ graph.term[b] # "jump" =>
             next = graph.succs[b][LO!FALLTHROUGH]
    BY <2>1, <2>2 DEF Follows
  <2> QED
    BY <2>3 DEF b, next
<1> QED
  BY <1>4, <1>6 DEF LO!ChecksHold

\* The code that LinearOrder lays out does what the graph says, whatever the graph is
\* that the loop analysis leaves: from every block, whatever its comparison yields,
\* control gets to the successor that the graph names.
THEOREM LayoutRunsProgramAlways == LayoutSpec => []LayoutRunsProgram
  BY LayoutKeepsIInv, InTheEndRuns, PTL

\* LinearOrder lays out every block that can be reached exactly once, the blocks it
\* puts in included, and none before a block that dominates it.
THEOREM LaidOutOnceAlways == LayoutSpec => []LaidOutOnce
  BY LayoutKeepsIInv, InTheEndOnce, PTL

\* The ASSERTs of LinearOrder::Check hold once the last block has been laid out: each block
\* falls through into the one behind it or ends in a jump, and none is missing.
THEOREM CheckPasses == LayoutSpec => [](phase = "layout" /\ finished => LO!ChecksHold)
  BY LayoutKeepsIInv, InTheEndChecked, PTL

-----------------------------------------------------------------------------
\* The way from each slot of a given block ends where the slot led to.
LEMMA WaysEnd ==
  ASSUME WF(graph), WaysLead(given, graph, graph.blocks \ given.blocks),
         NEW b \in given.blocks, NEW s \in Slots
  PROVE  LeadsTo(b, s) = given.succs[b][s]
<1> DEFINE I == graph.blocks \ given.blocks
           S == Ids \cup {None}
           a == graph.succs[b][s]
           Next1(c) == IF c \in given.blocks \cup {None} THEN c ELSE graph.succs[c][FALLTHROUGH]
           step == [c \in S |-> Next1(c)]
           Through[n \in Nat] ==
             IF n = 0 THEN graph.succs[b][s]
             ELSE LET c == Through[n - 1] IN
                  IF c \in given.blocks \cup {None} THEN c ELSE graph.succs[c][FALLTHROUGH]
           Rule(f) == f = [n \in Nat |->
             IF n = 0 THEN graph.succs[b][s]
             ELSE LET c == f[n - 1] IN
                  IF c \in given.blocks \cup {None} THEN c ELSE graph.succs[c][FALLTHROUGH]]
<1>1. PICK d, r : Ways(given, graph, I, d, r)
  BY DEF WaysLead
<1>2. /\ given.blocks \subseteq graph.blocks /\ graph.blocks \subseteq Ids /\ None \notin Ids
      /\ graph.succs \in [Ids -> [Slots -> Ids \cup {None}]]
  BY FlowGraphAssumption DEF WaysLead, WF, Shape, Graphs
<1>3. a \in S /\ step \in [S -> S]
  BY <1>2, SlotFacts DEF FALLTHROUGH
<1>4. PICK f : IsRun(S, a, step, f)
  <2> HIDE DEF S, a, step
  <2> QED
    BY <1>3, RunExists
<1>5. Rule(f)
  <2>1. f[0] = a /\ f = [n \in Nat |-> f[n]]
    BY <1>4 DEF IsRun
  <2>2. ASSUME NEW n \in Nat, n # 0 PROVE f[n] = Next1(f[n - 1])
    <3>1. n - 1 \in Nat /\ n = (n - 1) + 1
      BY <2>2
    <3>2. f[n] = step[f[n - 1]] /\ f[n - 1] \in S
      <4> HIDE DEF step, S
      <4>1. f[(n - 1) + 1] = step[f[n - 1]] /\ f[n - 1] \in S
        BY <1>4, <3>1 DEF IsRun
      <4> QED
        BY <3>1, <4>1
    <3> QED
      BY <3>2
  <2> QED
    BY <2>1, <2>2
<1>6. Through = f
  <2>1. Through = CHOOSE x : Rule(x)
    OBVIOUS
  <2>2. Rule(Through)
    <3> HIDE DEF Rule
    <3> QED
      BY <1>5, <2>1
  <2>3. Through[0] = a /\ f[0] = a /\ Through = [n \in Nat |-> Through[n]]
    <3> HIDE DEF Through
    <3> QED
      BY <1>4, <2>2 DEF IsRun
  <2> DEFINE E == {n \in Nat : Through[n] = f[n]}
  <2>4. ASSUME NEW n \in Nat, n \in E PROVE n + 1 \in E
    <3>1. n + 1 \in Nat /\ n + 1 # 0 /\ (n + 1) - 1 = n
      OBVIOUS
    <3>2. Through[n + 1] = Next1(Through[n])
      <4> HIDE DEF Through
      <4> QED
        BY <2>2, <3>1
    <3>3. f[n + 1] = Next1(f[n])
      BY <1>5, <3>1
    <3> HIDE DEF Through
    <3> QED
      BY <2>4, <3>2, <3>3
  <2>5. Nat \subseteq E
    <3>1. 0 \in E
      BY <2>3
    <3> HIDE DEF E
    <3> QED
      BY <2>4, <3>1, SetInduction
  <2> HIDE DEF Through
  <2>6. f = [n \in Nat |-> f[n]] /\ \A n \in Nat : Through[n] = f[n]
    BY <1>4, <2>5 DEF IsRun
  <2> QED
    BY <2>3, <2>6
<1>7. LeadsTo(b, s) = f[Cardinality(Ids)]
  BY <1>6 DEF LeadsTo, Through
<1>8. ASSUME NEW c \in graph.blocks \cup {None}
      PROVE  Next1(c) \in graph.blocks \cup {None}
  <2>1. CASE c \in I
    <3>1. SuccSet(graph, c) \subseteq graph.blocks
      BY <2>1 DEF WF, Shape, NoDangling
    <3> QED
      BY <2>1, <3>1, SlotFacts DEF SuccSet, FALLTHROUGH
  <2> QED
    BY <1>8, <2>1
<1>9. IsFiniteSet(I) /\ Cardinality(I) \in Nat /\ Cardinality(Ids) \in Nat /\ Cardinality(I) <= Cardinality(Ids)
  <2>1. I \subseteq Ids
    BY <1>2
  <2> QED
    BY <2>1, FiniteIds, FS_Subset, FS_CardinalityType
<1> DEFINE N == Cardinality(I)
           E == {n \in Nat : /\ f[n] \in graph.blocks \cup {None}
                             /\ d[f[n]] = given.succs[b][s]
                             /\ r[f[n]] = 0 \/ r[f[n]] + n <= N}
<1>10. 0 \in E
  <2>1. f[0] = a /\ b \in graph.blocks
    BY <1>2, <1>4 DEF IsRun
  <2>2. a \in graph.blocks \cup {None}
    BY <1>2, <2>1 DEF WF, Shape, NoDangling, SuccSet
  <2>3. r[a] = 0 \/ r[a] + 0 <= N
    <3>1. CASE a \in I
      <4>1. r[a] \in Nat /\ r[a] <= N
        BY <1>1, <1>2, <3>1 DEF Ways
      <4> HIDE DEF a, N
      <4> QED
        BY <4>1
    <3> QED
      BY <1>1, <2>2, <3>1 DEF Ways
  <2> QED
    BY <1>1, <2>1, <2>2, <2>3 DEF Ways
<1>11. ASSUME NEW n \in Nat, n \in E PROVE n + 1 \in E
  <2> DEFINE c == f[n]
  <2>1. f[n + 1] = Next1(c) /\ c \in graph.blocks \cup {None}
    <3>1. c \in S /\ f[n + 1] = step[c]
      BY <1>4 DEF IsRun
    <3> QED
      BY <1>11, <3>1
  <2>2. f[n + 1] \in graph.blocks \cup {None}
    BY <1>8, <2>1
  <2>3. CASE c \in given.blocks \cup {None}
    <3>1. f[n + 1] = c /\ r[c] = 0
      BY <1>1, <2>1, <2>3 DEF Ways
    <3> QED
      BY <1>11, <2>2, <3>1
  <2>4. CASE c \in I
    <3>1. f[n + 1] = graph.succs[c][0] /\ c \notin given.blocks \cup {None}
      BY <1>2, <2>1, <2>4 DEF FALLTHROUGH
    <3>2. d[f[n + 1]] = d[c] /\ r[f[n + 1]] < r[c]
      BY <1>1, <2>4, <3>1 DEF Ways
    <3>3. r[f[n + 1]] \in Nat /\ r[c] \in Nat
      BY <1>1, <1>2, <2>1, <2>2 DEF Ways
    <3> HIDE DEF N
    <3>4. N \in Nat
      BY <1>9 DEF N
    <3> QED
      BY <1>11, <2>2, <3>2, <3>3, <3>4
  <2> QED
    BY <2>1, <2>3, <2>4
<1>12. Cardinality(Ids) \in E
  <2> HIDE DEF E
  <2> QED
    BY <1>9, <1>10, <1>11, SetInduction
<1> DEFINE z == f[Cardinality(Ids)]
<1>13. z \in given.blocks \cup {None}
  <2> SUFFICES ASSUME z \in I PROVE FALSE
    BY <1>12
  <2>1. r[z] + Cardinality(Ids) <= N \/ r[z] = 0
    BY <1>12
  <2>2. r[graph.succs[z][0]] < r[z] /\ r[z] <= N /\ r[z] \in Nat
    BY <1>1, <1>2 DEF Ways
  <2>3. r[graph.succs[z][0]] \in Nat
    BY <1>1, <1>2, SlotFacts DEF Ways
  <2> HIDE DEF z, N
  <2>4. N \in Nat /\ N <= Cardinality(Ids)
    BY <1>9 DEF N
  <2> QED
    BY <1>9, <2>1, <2>2, <2>3, <2>4
<1>14. d[z] = z /\ d[z] = given.succs[b][s]
  BY <1>1, <1>12, <1>13 DEF Ways
<1> QED
  BY <1>7, <1>14

-----------------------------------------------------------------------------
\* What the invariants are about.
LoopRecords == [header : Ids \cup {None}, pre_header : Ids \cup {None}, back_edges : Seq(Ids),
                blocks : SUBSET Ids, outer_loop : Nat \cup {None}, is_reducible : BOOLEAN]

\* The types of what the phases hand on.
LoopsTyped ==
  /\ loops_ \in Seq(LoopRecords) /\ id_to_dfs_idx_ \in Seq(Ids)
  /\ loop_ \in [Ids -> Nat \cup {None}]

\* Loop l is split: heads[2], heads[3], ... get its back edges but for the first, the
\* graph becoming G[1], G[2], ... in turn.
IsSplit(l, m, heads, edges, G) ==
  LET n == Len(loops_)
  IN  /\ m \in Nat \ {0} /\ heads[1] = loops_[l].header
      /\ \A i \in 1 .. m : heads[i + 1] \in Ids \ graph.blocks
      /\ \A i, j \in 1 .. m : heads[i + 1] = heads[j + 1] => i = j
      /\ \A i \in 1 .. m + 1 : edges[i] \in Ids /\ edges[i] \in ToSet(loops_[l].back_edges)
      /\ \A i, j \in 1 .. m + 1 : edges[i] = edges[j] => i = j
      /\ TurnByTurn(G, heads, edges, m) /\ graph' = G[m]
      /\ LoopIds' = 1 .. n + m /\ loops_' = [k \in 1 .. n + m |-> loops_'[k]]
      /\ \A k \in LoopIds \ {l} : loops_'[k] = loops_[k]
      /\ loops_'[l] = AddBackEdge([loops_[l] EXCEPT !.back_edges = <<>>], edges[1])
      /\ \A i \in 1 .. m : loops_'[n + i] = NewLoop(heads[i + 1], edges[i + 1])
      /\ \A b \in Ids : (\A i \in 1 .. m : b # heads[i + 1]) => loop_'[b] = loop_[b]
      /\ \A i \in 1 .. m : loop_'[heads[i + 1]] = n + i
      /\ loop_' = [b \in Ids |-> loop_'[b]]
      /\ is_loop_header' = is_loop_header \cup {heads[i + 1] : i \in 1 .. m}

\* SplitBackEdge, when it splits, takes such turns.
LEMMA SplitBackEdgeFacts ==
  ASSUME WF(graph), LoopsTyped, Head(todo) \in LoopIds, SplitBackEdge
  PROVE  \E m, heads, edges, G : IsSplit(Head(todo), m, heads, edges, G)
<1> DEFINE l == Head(todo)
           bcks == {b \in Ids : b \in ToSet(loops_[l].back_edges)}
           idx(b) == SelectInSeq(id_to_dfs_idx_, LAMBDA c : c = b)
           h == loops_[l].header
           N == Cardinality(graph.blocks)
           n == Len(loops_)
           K == Cardinality(bcks)
           Holds(edges, new, heads, G) ==
             /\ Len(edges) > 1
             /\ \A i \in DOMAIN new : CanNewBlock(graph, new[i])
             /\ \A i \in DOMAIN new : CanInsertHeader(G[i - 1], heads[i + 1], heads[i], edges[i])
             /\ graph' = G[Len(new)]
             /\ loops_' = [loops_ EXCEPT ![l] = AddBackEdge([@ EXCEPT !.back_edges = <<>>], edges[1])]
                            \o [i \in DOMAIN new |-> NewLoop(new[i], edges[i + 1])]
             /\ loop_' = [b \in Ids |-> IF b \in ToSet(new)
                                        THEN n + CHOOSE i \in DOMAIN new : new[i] = b ELSE loop_[b]]
             /\ is_loop_header' = is_loop_header \cup ToSet(new)
<1>1. PICK edges \in {s \in [1 .. K -> bcks] : \A i, j \in DOMAIN s : i < j => idx(s[i]) < idx(s[j])} :
        LET new   == NewIds(Len(edges) - 1)
            heads == <<h>> \o new
            G     == HeadersInserted(edges, heads)
        IN  Holds(edges, new, heads, G)
  BY Zenon DEF SplitBackEdge, SortedBackEdges
<1> DEFINE m == Len(edges) - 1
           new == NewIds(m)
           heads == <<h>> \o new
           G == HeadersInserted(edges, heads)
<1>2. K \in Nat
  BY FiniteIds, FS_Subset, FS_CardinalityType
<1>3. N \in Nat
  <2>1. graph.blocks \subseteq Ids
    BY DEF WF, Shape, Graphs
  <2> QED
    BY <2>1, FiniteIds, FS_Subset, FS_CardinalityType
<1>4. Len(edges) = K /\ edges \in Seq(bcks)
  <2> HIDE DEF bcks
  <2>1. edges \in Seq(bcks) /\ DOMAIN edges = 1 .. K
    BY <1>2 DEF K
  <2> QED
    BY <1>2, <2>1
<1>5. Holds(edges, new, heads, G)
  BY <1>1
<1>6. m \in Nat \ {0} /\ K = m + 1
  <2>1. Len(edges) > 1
    BY <1>5
  <2> HIDE DEF K
  <2> QED
    BY <1>2, <1>4, <2>1
<1>7. \A i \in 1 .. m + 1 : edges[i] \in Ids /\ edges[i] \in ToSet(loops_[l].back_edges)
  BY <1>6
<1>8. ASSUME NEW i \in 1 .. m + 1, NEW j \in 1 .. m + 1, edges[i] = edges[j] PROVE i = j
  <2>1. DOMAIN edges = 1 .. m + 1 /\ \A k \in 1 .. m + 1 : idx(edges[k]) \in Nat
    <3>1. ASSUME NEW b PROVE idx(b) \in Nat
      <4> DEFINE I == {k \in 1 .. Len(id_to_dfs_idx_) : id_to_dfs_idx_[k] = b}
      <4>1. I \subseteq Nat
        BY DEF LoopsTyped
      <4>2. idx(b) = IF I # {} THEN Min(I) ELSE 0
        BY DEF SelectInSeq
      <4> HIDE DEF I, idx
      <4> QED
        BY <4>1, <4>2, LeastIndex
    <3>2. DOMAIN edges = 1 .. K
      OBVIOUS
    <3> HIDE DEF idx, m, K
    <3> QED
      BY <1>6, <3>1, <3>2
  <2>2. /\ i < j => idx(edges[i]) < idx(edges[j])
        /\ j < i => idx(edges[j]) < idx(edges[i])
    <3> HIDE DEF idx
    <3> QED
      BY <1>1, <2>1
  <2> HIDE DEF idx, m
  <2> QED
    BY <1>6, <1>8, <2>1, <2>2
<1> HIDE DEF bcks, m, K, N
<1>9. /\ new = [i \in 1 .. m |-> N + i - 1] /\ DOMAIN new = 1 .. m
      /\ \A i \in 1 .. m : new[i] = N + i - 1
  BY DEF NewIds, N
<1>10. \A i, j \in 1 .. m : new[i] = new[j] => i = j
  BY <1>3, <1>9
<1>11. \A i \in 1 .. m : new[i] \in Ids \ graph.blocks
  BY <1>5, <1>9 DEF CanNewBlock
<1>12. new \in Seq(Ids) /\ Len(new) = m /\ ToSet(new) = {new[i] : i \in 1 .. m}
  <2> HIDE DEF new
  <2>1. new \in Seq(Ids) /\ Len(new) = m
    BY <1>6, <1>9, <1>11
  <2> QED
    BY <2>1, ToSetFacts
<1> HIDE DEF new, h
<1>13. /\ heads \in Seq(Ids \cup {h}) /\ Len(heads) = m + 1 /\ heads[1] = h
       /\ \A i \in 1 .. m : heads[i + 1] = new[i]
  <2>1. <<h>> \in Seq(Ids \cup {h}) /\ Len(<<h>>) = 1 /\ new \in Seq(Ids \cup {h}) /\ <<h>>[1] = h
    BY <1>12
  <2>2. /\ heads \in Seq(Ids \cup {h}) /\ Len(heads) = 1 + m
        /\ \A i \in 1 .. 1 : heads[i] = <<h>>[i]
        /\ \A i \in 1 .. m : heads[1 + i] = new[i]
    BY <1>12, <2>1, ConcatFacts
  <2> QED
    BY <1>6, <2>1, <2>2
<1>14. ToSet(Tail(heads)) = {heads[i + 1] : i \in 1 .. m}
  <2> HIDE DEF heads
  <2>1. heads # <<>>
    BY <1>6, <1>13
  <2>2. /\ Tail(heads) \in Seq(Ids \cup {h}) /\ Len(Tail(heads)) = m
        /\ \A i \in 1 .. m : Tail(heads)[i] = heads[i + 1]
    BY <1>6, <1>13, <2>1, HeadTailFacts
  <2>3. ToSet(Tail(heads)) = {Tail(heads)[i] : i \in 1 .. m}
    BY <2>2, ToSetFacts
  <2> QED
    BY <2>2, <2>3
<1>15. /\ \A i \in 1 .. m : CanInsertHeader(G[i - 1], heads[i + 1], heads[i], edges[i])
       /\ graph' = G[m]
  BY <1>5, <1>9, <1>12
<1> HIDE DEF heads
<1>16. /\ \A i \in 1 .. m : heads[i + 1] \in Ids \ graph.blocks
       /\ \A i, j \in 1 .. m : heads[i + 1] = heads[j + 1] => i = j
  BY <1>10, <1>11, <1>13
<1>17. TurnByTurn(G, heads, edges, m)
  BY <1>6, <1>13, <1>14, <1>15, <1>16, HeadersInsertedFacts
<1> HIDE DEF G
<1>18. {heads[i + 1] : i \in 1 .. m} = ToSet(new)
  BY <1>12, <1>13
<1> DEFINE old == [loops_ EXCEPT ![l] = AddBackEdge([@ EXCEPT !.back_edges = <<>>], edges[1])]
           more == [i \in DOMAIN new |-> NewLoop(new[i], edges[i + 1])]
           S == {old[k] : k \in 1 .. n} \cup {more[k] : k \in 1 .. m}
<1>19. /\ LoopIds = 1 .. n /\ n \in Nat /\ l \in 1 .. n
       /\ old \in Seq(S) /\ Len(old) = n /\ more \in Seq(S) /\ Len(more) = m
  <2>1. LoopIds = 1 .. n /\ n \in Nat /\ l \in 1 .. n /\ loops_ = [k \in 1 .. n |-> loops_[k]]
    BY DEF LoopsTyped, LoopIds
  <2>2. old = [k \in 1 .. n |-> old[k]] /\ more = [k \in 1 .. m |-> more[k]]
    BY <1>9, <2>1
  <2>3. (\A k \in 1 .. n : old[k] \in S) /\ (\A k \in 1 .. m : more[k] \in S)
    OBVIOUS
  <2> HIDE DEF old, more, n, S
  <2>4. old \in [1 .. n -> S] /\ more \in [1 .. m -> S]
    BY <2>2, <2>3
  <2>5. m \in Nat /\ n \in Nat
    BY <1>6, <2>1
  <2>6. \A j \in Nat : \A f \in [1 .. j -> S] : f \in Seq(S) /\ Len(f) = j
    OBVIOUS
  <2>7. old \in Seq(S) /\ Len(old) = n
    BY <2>4, <2>5, <2>6
  <2>8. more \in Seq(S) /\ Len(more) = m
    BY <2>4, <2>5, <2>6
  <2> QED
    BY <2>1, <2>7, <2>8
<1>20. /\ loops_' \in Seq(S) /\ Len(loops_') = n + m
       /\ \A k \in 1 .. n : loops_'[k] = old[k]
       /\ \A k \in 1 .. m : loops_'[n + k] = more[k]
  <2>1. loops_' = old \o more
    BY <1>5
  <2> HIDE DEF old, more, S, n
  <2>2. /\ old \o more \in Seq(S) /\ Len(old \o more) = Len(old) + Len(more)
        /\ \A k \in 1 .. Len(old) : (old \o more)[k] = old[k]
        /\ \A k \in 1 .. Len(more) : (old \o more)[Len(old) + k] = more[k]
    <3>1. old \in Seq(S) /\ more \in Seq(S)
      BY <1>19
    <3> QED
      BY <3>1
  <2> QED
    BY <1>19, <2>1, <2>2
<1>21. LoopIds' = 1 .. n + m /\ loops_' = [k \in 1 .. n + m |-> loops_'[k]]
  <2> HIDE DEF n, S
  <2>1. loops_' = [k \in 1 .. Len(loops_') |-> loops_'[k]] /\ DOMAIN loops_' = 1 .. Len(loops_')
    BY <1>20
  <2> QED
    BY <1>20, <2>1 DEF LoopIds
<1>22. /\ \A k \in LoopIds \ {l} : loops_'[k] = loops_[k]
       /\ loops_'[l] = AddBackEdge([loops_[l] EXCEPT !.back_edges = <<>>], edges[1])
       /\ \A i \in 1 .. m : loops_'[n + i] = NewLoop(heads[i + 1], edges[i + 1])
  <2>1. \A k \in 1 .. n : old[k] = IF k = l THEN AddBackEdge([loops_[l] EXCEPT !.back_edges = <<>>], edges[1])
                                   ELSE loops_[k]
    BY <1>19 DEF LoopsTyped
  <2>2. \A i \in 1 .. m : more[i] = NewLoop(heads[i + 1], edges[i + 1])
    BY <1>9, <1>13
  <2> HIDE DEF old, more, n
  <2> QED
    BY <1>19, <1>20, <2>1, <2>2
<1>23. ASSUME NEW i \in 1 .. m PROVE loop_'[heads[i + 1]] = n + i
  <2> DEFINE b == new[i]
  <2>1. b \in Ids /\ b \in ToSet(new)
    BY <1>11, <1>12
  <2>2. (CHOOSE j \in DOMAIN new : new[j] = b) = i
    <3>1. \A j \in DOMAIN new : new[j] = b <=> j = i
      BY <1>9, <1>10
    <3>2. i \in DOMAIN new
      BY <1>9
    <3> QED
      BY <3>1, <3>2
  <2>3. loop_'[b] = n + CHOOSE j \in DOMAIN new : new[j] = b
    BY <1>5, <2>1
  <2> QED
    BY <1>13, <2>2, <2>3
<1>24. /\ \A b \in Ids : (\A i \in 1 .. m : b # heads[i + 1]) => loop_'[b] = loop_[b]
       /\ loop_' = [b \in Ids |-> loop_'[b]]
  <2>1. loop_' = [b \in Ids |-> IF b \in ToSet(new)
                                 THEN n + CHOOSE i \in DOMAIN new : new[i] = b ELSE loop_[b]]
    BY <1>5
  <2>2. \A b \in Ids : (\A i \in 1 .. m : b # heads[i + 1]) => b \notin ToSet(new)
    BY <1>18
  <2> QED
    BY <2>1, <2>2
<1>25. is_loop_header' = is_loop_header \cup {heads[i + 1] : i \in 1 .. m}
  BY <1>5, <1>18
<1>26. IsSplit(l, m, heads, edges, G)
  <2> HIDE DEF l
  <2> QED
    BY <1>6, <1>7, <1>8, <1>13, <1>15, <1>16, <1>17, <1>20, <1>21, <1>22, <1>23, <1>24, <1>25 DEF IsSplit, h
<1> QED
  BY <1>26

\* However many headers are inserted, the ways end where they did.
LEMMA SplitKeepsWays ==
  ASSUME WF(graph), NEW l, NEW m, NEW heads, NEW edges, NEW G, IsSplit(l, m, heads, edges, G),
         NEW A, WaysLead(A, graph, graph.blocks \ A.blocks)
  PROVE  WaysLead(A, graph', graph'.blocks \ A.blocks)
<1> DEFINE new(n) == {heads[i + 1] : i \in 1 .. n}
           I == graph.blocks \ A.blocks
           P == {n \in Nat : n <= m => WaysLead(A, G[n], I \cup new(n))}
<1>1. /\ m \in Nat \ {0} /\ TurnByTurn(G, heads, edges, m) /\ graph' = G[m]
      /\ \A i \in 1 .. m : heads[i + 1] \in Ids \ graph.blocks
      /\ \A i, j \in 1 .. m : heads[i + 1] = heads[j + 1] => i = j
  BY DEF IsSplit
<1>2. /\ \A n \in 0 .. m : WF(G[n]) /\ G[n].blocks = graph.blocks \cup new(m)
      /\ \A c \in graph.blocks : G[0].succs[c] = graph.succs[c]
      /\ \A i \in 1 .. m : Isolated(G[0], heads[i + 1])
      /\ \A n \in 0 .. m - 1 : IsTurn(G[n], G[n + 1], heads, edges, n)
  BY <1>1 DEF TurnByTurn
<1>4. A.blocks \subseteq graph.blocks
  BY DEF WaysLead
<1>5. 0 \in P
  <2>1. new(0) = {} /\ 0 \in 0 .. m
    BY <1>1
  <2>2. G[0].blocks = graph.blocks \cup new(m)
    BY <1>2, <2>1
  <2>3. Extends(graph, G[0]) /\ \A c \in graph.blocks : G[0].preds[c] = graph.preds[c]
    BY <1>1, <1>2, <2>2 DEF Extends, TurnByTurn
  <2>4. WaysLead(A, G[0], I)
    BY <2>3, ExtendedWays
  <2>5. I \cup new(0) = I
    BY <2>1
  <2> HIDE DEF I, new
  <2>6. WaysLead(A, G[0], I \cup new(0))
    BY <2>4, <2>5
  <2> QED
    BY <2>6
<1>6. ASSUME NEW n \in Nat, n \in P PROVE n + 1 \in P
  <2> SUFFICES ASSUME n + 1 <= m PROVE WaysLead(A, G[n + 1], I \cup new(n + 1))
    OBVIOUS
  <2> DEFINE x == heads[n + 2]
             t == heads[n + 1]
             J == I \cup new(n)
  <2>1. n \in 0 .. m - 1 /\ n \in 0 .. m /\ n + 1 \in 1 .. m /\ (n + 1) + 1 = n + 2 /\ n <= m
    BY <1>1
  <2>2. WaysLead(A, G[n], J) /\ WF(G[n])
    BY <1>2, <1>6, <2>1
  <2>3. /\ x \in G[n].blocks /\ t \in G[n].blocks /\ ~Isolated(G[n], t)
        /\ G[n + 1].blocks = G[n].blocks /\ Detoured(G[n], G[n + 1], x, t)
        /\ \A c \in G[n].blocks \ {x} : Isolated(G[n], c) => Isolated(G[n + 1], c)
    BY <1>2, <2>1 DEF IsTurn
  <2>4. x \notin A.blocks \cup J
    <3>1. x = heads[(n + 1) + 1] /\ x \notin graph.blocks
      BY <1>1, <2>1
    <3>2. x \notin new(n)
      BY <1>1, <2>1, <3>1
    <3> QED
      BY <1>4, <3>1, <3>2
  <2>5. t \in A.blocks \cup J
    BY <2>2, <2>3 DEF WaysLead
  <2>6. WaysLead(A, G[n + 1], J \cup {x})
    <3> HIDE DEF x, t, J
    <3> QED
      BY <2>2, <2>3, <2>4, <2>5, DetourKeepsWays
  <2>7. J \cup {x} = I \cup new(n + 1)
    <3>1. 1 .. n + 1 = (1 .. n) \cup {n + 1}
      OBVIOUS
    <3>2. new(n + 1) = new(n) \cup {heads[(n + 1) + 1]}
      BY <3>1
    <3> QED
      BY <2>1, <3>2
  <2> HIDE DEF J, I, new
  <2> QED
    BY <2>6, <2>7
<1>7. m \in P
  <2> HIDE DEF P
  <2> QED
    BY <1>1, <1>5, <1>6, SetInduction
<1>8. graph'.blocks \ A.blocks = I \cup new(m)
  <2>1. m \in 0 .. m
    BY <1>1
  <2>2. graph'.blocks = graph.blocks \cup new(m)
    BY <1>1, <1>2, <2>1
  <2> QED
    BY <1>1, <1>4, <2>2
<1>9. WaysLead(A, G[m], I \cup new(m))
  BY <1>1, <1>7
<1> QED
  BY <1>1, <1>8, <1>9

-----------------------------------------------------------------------------
\* The headers found, and None for the root.
Headers == {loops_[l].header : l \in LoopIds}

\* A loop whose list of back edges and whose flag are set.
WithFields(L, bs, v) == [L EXCEPT !.back_edges = bs, !.is_reducible = v]

\* A loop with other back edges is a loop with the same header.
LEMMA SetFields ==
  ASSUME NEW L \in LoopRecords, NEW bs \in Seq(Ids), NEW v \in BOOLEAN
  PROVE  LET M == WithFields(L, bs, v)
         IN  /\ M \in LoopRecords /\ M.header = L.header /\ M.pre_header = L.pre_header
             /\ M.back_edges = bs /\ M.is_reducible = v
BY DEF LoopRecords, WithFields

\* What the header of a loop is after the steps it takes to make one.
LEMMA LoopFieldFacts ==
  ASSUME NEW L \in LoopRecords, NEW b \in Ids, NEW doms
  PROVE  /\ AddBackEdge(L, b) \in LoopRecords /\ AddBackEdge(L, b).header = L.header
         /\ AddBackEdge(L, b).back_edges = Append(L.back_edges, b)
         /\ AddBackEdge(L, b).pre_header = L.pre_header
         /\ CalculateReducibility(doms, L) \in LoopRecords
         /\ CalculateReducibility(doms, L).header = L.header
         /\ CalculateReducibility(doms, L).back_edges = L.back_edges
         /\ CalculateReducibility(doms, L).pre_header = L.pre_header
<1>1. /\ AddBackEdge(L, b) \in LoopRecords /\ AddBackEdge(L, b).header = L.header
      /\ AddBackEdge(L, b).back_edges = Append(L.back_edges, b)
      /\ AddBackEdge(L, b).pre_header = L.pre_header
  <2> DEFINE bs == Append(L.back_edges, b)
             v == L.is_reducible /\ DominatesIn(dominators, L.header, b)
  <2>1. L.back_edges \in Seq(Ids)
    BY DEF LoopRecords
  <2>2. bs \in Seq(Ids)
    BY <2>1
  <2>3. v \in BOOLEAN
    OBVIOUS
  <2>4. AddBackEdge(L, b) = WithFields(L, bs, v)
    BY Zenon DEF AddBackEdge, WithFields
  <2> HIDE DEF bs, v
  <2>5. LET M == WithFields(L, bs, v)
        IN  /\ M \in LoopRecords /\ M.header = L.header /\ M.pre_header = L.pre_header
            /\ M.back_edges = bs
    BY <2>2, <2>3, SetFields
  <2> QED
    BY <2>4, <2>5, Zenon DEF bs
<1>2. /\ CalculateReducibility(doms, L) \in LoopRecords
      /\ CalculateReducibility(doms, L).header = L.header
      /\ CalculateReducibility(doms, L).back_edges = L.back_edges
      /\ CalculateReducibility(doms, L).pre_header = L.pre_header
  <2> DEFINE v == \A bck \in ToSet(L.back_edges) : DominatesIn(doms, L.header, bck)
  <2>1. CASE L.header = None \/ L.back_edges = <<>>
    BY <2>1 DEF CalculateReducibility
  <2>2. CASE ~(L.header = None \/ L.back_edges = <<>>)
    <3>1. CalculateReducibility(doms, L) = [L EXCEPT !.is_reducible = v]
      BY <2>2, Zenon DEF CalculateReducibility
    <3>2. v \in BOOLEAN
      OBVIOUS
    <3> HIDE DEF v
    <3>3. LET M == [L EXCEPT !.is_reducible = v]
          IN  /\ M \in LoopRecords /\ M.header = L.header /\ M.pre_header = L.pre_header
              /\ M.back_edges = L.back_edges
      BY <3>2 DEF LoopRecords
    <3> QED
      BY <3>1, <3>3
  <2> QED
    BY <2>1, <2>2
<1> QED
  BY <1>1, <1>2

\* What loops are when they are made.
LEMMA NullLoopFacts ==
  NullLoop \in LoopRecords /\ NullLoop.back_edges = <<>> /\ NullLoop.header = None
<1>1. <<>> \in Seq(Ids) /\ {} \in SUBSET Ids /\ TRUE \in BOOLEAN
  OBVIOUS
<1> QED
  BY <1>1 DEF NullLoop, LoopRecords

LEMMA NewLoopFacts ==
  ASSUME NEW h \in Ids, NEW b \in Ids
  PROVE  /\ NewLoop(h, b) \in LoopRecords /\ NewLoop(h, b).header = h
         /\ NewLoop(h, b).back_edges = <<b>>
<1> DEFINE L == [NullLoop EXCEPT !.header = h]
<1>1. L \in LoopRecords /\ L.header = h /\ L.back_edges = <<>>
  <2>1. NullLoop \in LoopRecords /\ NullLoop.back_edges = <<>>
    BY NullLoopFacts
  <2> QED
    BY <2>1 DEF LoopRecords
<1> HIDE DEF L
<1>2. /\ AddBackEdge(L, b) \in LoopRecords /\ AddBackEdge(L, b).header = h
      /\ AddBackEdge(L, b).back_edges = <<b>>
  <2>1. Append(<<>>, b) = <<b>>
    OBVIOUS
  <2> QED
    BY <1>1, <2>1, LoopFieldFacts
<1>3. NewLoop(h, b) = CalculateReducibility(dominators, AddBackEdge(L, b))
  BY DEF NewLoop, L
<1> QED
  BY <1>2, <1>3, LoopFieldFacts

\* With its new headers, the loop still cuts the cycles it cut.
LEMMA SplitKeepsCut ==
  ASSUME WF(graph), NEW l \in LoopIds, NEW m, NEW heads, NEW edges, NEW G,
         IsSplit(l, m, heads, edges, G), CyclesCut(graph, Headers)
  PROVE  CyclesCut(graph', Headers \cup {heads[i + 1] : i \in 1 .. m})
<1> DEFINE new(n) == {heads[i + 1] : i \in 1 .. n}
           P == {n \in Nat : n <= m => CyclesCut(G[n], Headers \cup new(n))}
<1>1. /\ m \in Nat \ {0} /\ TurnByTurn(G, heads, edges, m) /\ graph' = G[m]
      /\ heads[1] \in Headers
  BY DEF IsSplit, Headers
<1>2. /\ \A n \in 0 .. m : WF(G[n]) /\ G[n].blocks = graph.blocks \cup new(m)
      /\ \A c \in graph.blocks : G[0].succs[c] = graph.succs[c]
      /\ \A i \in 1 .. m : Isolated(G[0], heads[i + 1])
      /\ \A n \in 0 .. m - 1 : IsTurn(G[n], G[n + 1], heads, edges, n)
  BY <1>1 DEF TurnByTurn
<1>3. 0 \in P
  <2>1. new(0) = {} /\ 0 \in 0 .. m
    BY <1>1
  <2>2. G[0].blocks = graph.blocks \cup new(m)
    BY <1>2, <2>1
  <2>3. Extends(graph, G[0])
    BY <1>2, <2>2 DEF Extends
  <2>4. CyclesCut(G[0], Headers)
    BY <2>3, ExtendedCut
  <2>5. Headers \cup new(0) = Headers
    BY <2>1
  <2> HIDE DEF new
  <2> QED
    BY <2>4, <2>5
<1>4. ASSUME NEW n \in Nat, n \in P PROVE n + 1 \in P
  <2> SUFFICES ASSUME n + 1 <= m PROVE CyclesCut(G[n + 1], Headers \cup new(n + 1))
    OBVIOUS
  <2> DEFINE x == heads[n + 2]
             t == heads[n + 1]
             H == Headers \cup new(n)
  <2>1. n \in 0 .. m - 1 /\ n \in 0 .. m /\ n + 1 \in 1 .. m /\ (n + 1) + 1 = n + 2 /\ n <= m
    BY <1>1
  <2>2. CyclesCut(G[n], H) /\ WF(G[n])
    BY <1>2, <1>4, <2>1
  <2>3. /\ x \in G[n].blocks /\ t \in G[n].blocks
        /\ G[n + 1].blocks = G[n].blocks /\ Detoured(G[n], G[n + 1], x, t)
    BY <1>2, <2>1 DEF IsTurn
  <2>4. t \in H
    <3>1. CASE n = 0
      BY <1>1, <3>1
    <3>2. CASE n # 0
      <4>1. n \in 1 .. n
        BY <3>2
      <4> QED
        BY <4>1
    <3> QED
      BY <3>1, <3>2
  <2>5. t # None
    BY <2>2, <2>3, FlowGraphAssumption DEF WF, Shape, Graphs
  <2>6. H \cup {x} = Headers \cup new(n + 1)
    <3>1. 1 .. n + 1 = (1 .. n) \cup {n + 1}
      OBVIOUS
    <3>2. new(n + 1) = new(n) \cup {heads[(n + 1) + 1]}
      BY <3>1
    <3> QED
      BY <2>1, <3>2
  <2> HIDE DEF H, x, t, new
  <2>7. CyclesCut(G[n + 1], H \cup {x})
    BY <2>2, <2>3, <2>4, <2>5, DetourKeepsCut
  <2> QED
    BY <2>6, <2>7
<1>5. m \in P
  <2> HIDE DEF P
  <2> QED
    BY <1>1, <1>3, <1>4, SetInduction
<1> QED
  BY <1>1, <1>5

\* The back edges lead to the headers they were taken for.
LEMMA SplitPreds ==
  ASSUME WF(graph), NEW l, NEW m, NEW heads, NEW edges, NEW G, IsSplit(l, m, heads, edges, G),
         heads[1] \in graph.blocks, \A i \in 1 .. m + 1 : edges[i] \in graph.preds[heads[1]]
  PROVE  /\ \A c \in graph.blocks \ {heads[1]} : graph'.preds[c] = graph.preds[c]
         /\ \A i \in 1 .. m + 1 : edges[i] \in graph'.preds[heads[i]]
<1> DEFINE Good(n) == /\ \A c \in graph.blocks \ {heads[1]} : G[n].preds[c] = graph.preds[c]
                      /\ \A i \in 1 .. n : edges[i] \in G[n].preds[heads[i]]
                      /\ \A j \in n + 1 .. m + 1 : edges[j] \in G[n].preds[heads[n + 1]]
           P == {n \in Nat : n <= m => Good(n)}
<1>1. /\ m \in Nat \ {0} /\ TurnByTurn(G, heads, edges, m) /\ graph' = G[m]
      /\ \A i \in 1 .. m : heads[i + 1] \in Ids \ graph.blocks
      /\ \A i, j \in 1 .. m : heads[i + 1] = heads[j + 1] => i = j
      /\ \A i, j \in 1 .. m + 1 : edges[i] = edges[j] => i = j
  BY DEF IsSplit
<1>2. /\ \A c \in graph.blocks : G[0].preds[c] = graph.preds[c]
      /\ \A n \in 0 .. m - 1 : IsTurn(G[n], G[n + 1], heads, edges, n)
  BY <1>1 DEF TurnByTurn
<1>3. ASSUME NEW i \in 1 .. m + 1, NEW j \in 1 .. m + 1, heads[i] = heads[j] PROVE i = j
  <2>1. \A k \in 1 .. m + 1 : k # 1 => k - 1 \in 1 .. m /\ k = (k - 1) + 1
    BY <1>1
  <2>2. \A k \in 1 .. m + 1 : k # 1 => heads[k] \notin graph.blocks
    BY <1>1, <2>1
  <2>3. CASE i = 1 \/ j = 1
    BY <1>3, <2>2, <2>3
  <2>4. CASE i # 1 /\ j # 1
    <3>1. i - 1 \in 1 .. m /\ j - 1 \in 1 .. m /\ i = (i - 1) + 1 /\ j = (j - 1) + 1
      BY <2>1, <2>4
    <3>2. i - 1 = j - 1
      BY <1>1, <1>3, <3>1
    <3> QED
      BY <3>2
  <2> QED
    BY <2>3, <2>4
<1>4. 0 \in P
  <2>1. 0 + 1 = 1 /\ 1 .. 0 = {}
    OBVIOUS
  <2> QED
    BY <1>2, <2>1
<1>5. ASSUME NEW n \in Nat, n \in P PROVE n + 1 \in P
  <2> SUFFICES ASSUME n + 1 <= m PROVE Good(n + 1)
    OBVIOUS
  <2>1. n \in 0 .. m - 1 /\ n + 1 \in 1 .. m + 1 /\ (n + 1) + 1 = n + 2 /\ n <= m /\ n + 2 \in 1 .. m + 1
    BY <1>1
  <2>2. Good(n)
    BY <1>5, <2>1
  <2>3. /\ heads[n + 1] \in G[n].blocks
        /\ G[n + 1].preds[heads[n + 1]] = {heads[n + 2], edges[n + 1]}
        /\ G[n + 1].preds[heads[n + 2]] = G[n].preds[heads[n + 1]] \ {edges[n + 1]}
        /\ \A c \in Ids \ {heads[n + 1], heads[n + 2]} : G[n + 1].preds[c] = G[n].preds[c]
    BY <1>2, <2>1 DEF IsTurn
  <2>4. graph.blocks \subseteq Ids /\ \A i \in 1 .. m + 1 : heads[i] \in Ids
    <3>1. graph.blocks \subseteq Ids
      BY DEF WF, Shape, Graphs
    <3>2. ASSUME NEW i \in 1 .. m + 1 PROVE heads[i] \in Ids
      <4>1. CASE i = 1
        BY <3>1, <4>1
      <4>2. CASE i # 1
        <5>1. i - 1 \in 1 .. m /\ i = (i - 1) + 1
          BY <1>1, <4>2
        <5> QED
          BY <1>1, <5>1
      <4> QED
        BY <4>1, <4>2
    <3> QED
      BY <3>1, <3>2
  <2>5. ASSUME NEW c \in graph.blocks \ {heads[1]} PROVE G[n + 1].preds[c] = graph.preds[c]
    <3>1. \A k \in 1 .. m + 1 : c # heads[k]
      <4> SUFFICES ASSUME NEW k \in 1 .. m + 1, k # 1 PROVE heads[k] \notin graph.blocks
        OBVIOUS
      <4>1. k - 1 \in 1 .. m /\ k = (k - 1) + 1
        BY <1>1
      <4> QED
        BY <1>1, <4>1
    <3>2. c \in Ids \ {heads[n + 1], heads[n + 2]}
      BY <2>1, <2>4, <3>1
    <3> QED
      BY <2>2, <2>3, <3>2
  <2>6. ASSUME NEW i \in 1 .. n + 1 PROVE edges[i] \in G[n + 1].preds[heads[i]]
    <3>1. CASE i = n + 1
      BY <2>3, <3>1
    <3>2. CASE i # n + 1
      <4>1. i \in 1 .. n /\ i \in 1 .. m + 1 /\ i # n + 2
        BY <1>1, <3>2
      <4>2. heads[i] # heads[n + 1] /\ heads[i] # heads[n + 2]
        BY <1>3, <2>1, <3>2, <4>1
      <4>3. heads[i] \in Ids \ {heads[n + 1], heads[n + 2]}
        BY <2>4, <4>1, <4>2
      <4> QED
        BY <2>2, <2>3, <4>1, <4>3
    <3> QED
      BY <3>1, <3>2
  <2>7. ASSUME NEW j \in (n + 1) + 1 .. m + 1 PROVE edges[j] \in G[n + 1].preds[heads[(n + 1) + 1]]
    <3>1. j \in n + 1 .. m + 1 /\ j \in 1 .. m + 1 /\ j # n + 1
      BY <1>1
    <3>2. edges[j] # edges[n + 1]
      BY <1>1, <2>1, <3>1
    <3> QED
      BY <2>1, <2>2, <2>3, <3>1, <3>2
  <2> QED
    BY <2>5, <2>6, <2>7
<1>6. m \in P
  <2> HIDE DEF P
  <2> QED
    BY <1>1, <1>4, <1>5, SetInduction
<1>7. Good(m)
  BY <1>1, <1>6
<1>8. ASSUME NEW i \in 1 .. m + 1 PROVE edges[i] \in graph'.preds[heads[i]]
  <2>1. CASE i = m + 1
    <3>1. m + 1 \in m + 1 .. m + 1
      BY <1>1
    <3> QED
      BY <1>1, <1>7, <2>1, <3>1
  <2>2. CASE i # m + 1
    <3>1. i \in 1 .. m
      BY <1>1, <2>2
    <3> QED
      BY <1>1, <1>7, <3>1
  <2> QED
    BY <2>1, <2>2
<1> QED
  BY <1>1, <1>7, <1>8

\* What AddPreHeader does to the edges: pre becomes the block before the header.
PreHeaderAdded(L, pre) ==
  LET h == L.header IN
  /\ pre \in Ids \ graph.blocks /\ graph'.blocks = graph.blocks \cup {pre}
  /\ WF(NewBlock(graph, pre, "none")) /\ Extends(graph, NewBlock(graph, pre, "none"))
  /\ NewBlock(graph, pre, "none").blocks = graph'.blocks
  /\ \A c \in graph.blocks : NewBlock(graph, pre, "none").preds[c] = graph.preds[c]
  /\ Detoured(NewBlock(graph, pre, "none"), graph', pre, h)
  /\ graph'.preds[h] = {pre} \cup (graph.preds[h] \cap ToSet(L.back_edges))
  /\ \A c \in graph.blocks \ {h} : graph'.preds[c] = graph.preds[c]
  /\ \A c \in graph.blocks : Isolated(graph, c) => Isolated(graph', c)
  /\ ~Isolated(graph, h)

\* AddPreHeader puts such a block in front of the header.
LEMMA AddPreHeaderDetours ==
  ASSUME WF(graph), AddPreHeader, loops_[Head(todo)].header \in graph.blocks
  PROVE  \E pre : /\ PreHeaderAdded(loops_[Head(todo)], pre)
                  /\ loops_' = [loops_ EXCEPT ![Head(todo)].pre_header = pre]
<1> DEFINE l     == loops_[Head(todo)]
           h     == l.header
           pred  == EntryPredecessors(l)
           pre   == NewIds(1)[1]
           g     == NewBlock(graph, pre, "none")
           moved_edges == ReplaceSuccessors(g, pred, h, pre)
<1>1. /\ pred # {} /\ CanNewBlock(graph, pre)
      /\ \A p \in pred : CanReplaceSuccessor(g, p, h, pre)
      /\ graph' = AddEdgeTo(moved_edges, pre, h, FALLTHROUGH)
      /\ loops_' = [loops_ EXCEPT ![Head(todo)].pre_header = pre]
  BY Zenon DEF AddPreHeader
<1>2. pred = graph.preds[h] \ ToSet(l.back_edges) /\ h \in graph.blocks
  BY DEF EntryPredecessors
<1> HIDE DEF l, pred, pre
<1>3. pre \in Ids \ graph.blocks /\ graph \in Graphs /\ graph.blocks \subseteq Ids
  BY <1>1 DEF CanNewBlock, WF, Shape, Graphs
<1>4. /\ WF(g) /\ Isolated(g, pre) /\ g.blocks = graph.blocks \cup {pre}
      /\ \A c \in graph.blocks : g.succs[c] = graph.succs[c] /\ g.preds[c] = graph.preds[c]
  <2>1. "none" \in Terms
    BY DEF Terms
  <2>2. WF(g)
    BY <1>1, <1>3, <2>1, NewBlockWF
  <2>3. Isolated(g, pre) /\ g.blocks = graph.blocks \cup {pre}
    <3>1. Shape(graph)
      BY DEF WF
    <3> HIDE DEF g
    <3>2. CanNewBlock(graph, pre) /\ pre \in Ids
      BY <1>1, <1>3
    <3>3. LET x == NewBlock(graph, pre, "none")
          IN  Isolated(x, pre) /\ x.blocks = graph.blocks \cup {pre}
      BY <3>1, <3>2 DEF NewBlock, Isolated, Shape, Graphs
    <3> QED
      BY <3>3 DEF g
  <2>4. \A c \in graph.blocks : g.succs[c] = graph.succs[c] /\ g.preds[c] = graph.preds[c]
    BY <1>3 DEF NewBlock, Graphs
  <2> QED
    BY <2>2, <2>3, <2>4
<1>5. Extends(graph, g)
  <2> HIDE DEF g
  <2> QED
    BY <1>3, <1>4 DEF Extends
<1>6. /\ h \in Ids /\ h # pre /\ pre \notin pred /\ pred \subseteq graph.blocks
      /\ pred \subseteq graph.preds[h] /\ pre \notin graph.preds[h]
  <2>1. graph.preds[h] \subseteq graph.blocks
    BY <1>2 DEF WF, Shape, NoDangling
  <2> QED
    BY <1>2, <1>3, <2>1
<1>7. /\ moved_edges.blocks = g.blocks /\ moved_edges \in Graphs
      /\ moved_edges.succs = [c \in Ids |-> IF c \in pred THEN ReplacedSuccs(g, c, h, pre) ELSE g.succs[c]]
      /\ moved_edges.preds = [c \in Ids |-> CASE c = pre -> g.preds[c] \cup pred
                                              [] c = h   -> g.preds[c] \ pred
                                              [] OTHER   -> g.preds[c]]
  <2>1. /\ pre \in g.blocks /\ CanReplaceSuccessors(g, pred, h, pre)
    BY <1>1, <1>4, <1>6 DEF CanReplaceSuccessors
  <2>2. WF(moved_edges)
    <3> HIDE DEF g, h
    <3> QED
      BY <1>4, <1>6, <2>1, ReplaceSuccessorsWF
  <2>3. g \in Graphs
    BY <1>4 DEF WF, Shape
  <2> HIDE DEF g, h
  <2> QED
    BY <2>2, <2>3 DEF ReplaceSuccessors, WF, Shape, Graphs
<1> HIDE DEF g, h, moved_edges
<1>8. /\ graph'.blocks = g.blocks
      /\ graph'.succs = [moved_edges.succs EXCEPT ![pre][FALLTHROUGH] = h]
      /\ graph'.preds = [moved_edges.preds EXCEPT ![h] = @ \cup {pre}]
  BY <1>1, <1>7 DEF AddEdgeTo, Graphs
<1>9. /\ \A c \in graph.blocks : graph'.succs[c] = IF c \in pred THEN ReplacedSuccs(g, c, h, pre)
                                                 ELSE graph.succs[c]
      /\ graph'.succs[pre][0] = h /\ graph'.succs[pre][1] = None
  <2>1. moved_edges.succs[pre] = NoSuccs
    BY <1>3, <1>4, <1>6, <1>7 DEF Isolated
  <2>2. graph'.succs[pre] = [NoSuccs EXCEPT ![0] = h]
    BY <1>3, <1>7, <1>8, <2>1 DEF FALLTHROUGH, Graphs
  <2>3. \A c \in graph.blocks : graph'.succs[c] = moved_edges.succs[c]
    BY <1>3, <1>7, <1>8 DEF Graphs
  <2>4. \A c \in graph.blocks : moved_edges.succs[c] = IF c \in pred THEN ReplacedSuccs(g, c, h, pre)
                                                       ELSE graph.succs[c]
    BY <1>3, <1>4, <1>7
  <2> QED
    BY <2>2, <2>3, <2>4, SlotFacts DEF NoSuccs
<1>10. /\ graph'.preds[h] = {pre} \cup (graph.preds[h] \cap ToSet(l.back_edges))
       /\ \A c \in graph.blocks \ {h} : graph'.preds[c] = graph.preds[c]
  <2>1. moved_edges.preds[h] = graph.preds[h] \ pred
    BY <1>2, <1>4, <1>6, <1>7
  <2>2. graph'.preds[h] = (graph.preds[h] \ pred) \cup {pre}
    BY <1>6, <1>7, <1>8, <2>1 DEF Graphs
  <2>3. \A c \in graph.blocks \ {h} : graph'.preds[c] = graph.preds[c]
    BY <1>3, <1>4, <1>7, <1>8
  <2> QED
    BY <1>2, <2>2, <2>3
<1>11. Detoured(g, graph', pre, h)
  <2>1. ASSUME NEW c \in g.blocks \ {pre}, NEW s \in Slots
        PROVE  \/ graph'.succs[c][s] = g.succs[c][s]
               \/ g.succs[c][s] = h /\ graph'.succs[c][s] = pre
    <3>1. c \in graph.blocks /\ g.succs[c] = graph.succs[c]
      BY <1>4
    <3>2. graph'.succs[c] = IF c \in pred THEN ReplacedSuccs(g, c, h, pre) ELSE g.succs[c]
      BY <1>9, <3>1
    <3> QED
      BY <3>2 DEF ReplacedSuccs, IsSlotOf
  <2>2. SuccSet(graph', pre) = {h}
    BY <1>6, <1>9, SlotFacts, FlowGraphAssumption DEF SuccSet
  <2> QED
    BY <1>9, <2>1, <2>2 DEF Detoured
<1>12. ASSUME NEW c \in graph.blocks, Isolated(graph, c) PROVE Isolated(graph', c)
  <2>1. c # h
    BY <1>1, <1>6, <1>12 DEF Isolated
  <2>2. c \notin pred
    <3> SUFFICES ASSUME c \in pred PROVE FALSE
      OBVIOUS
    <3>1. h \in SuccSet(graph, c)
      BY <1>2, <1>6 DEF WF, Shape, Symmetric
    <3> QED
      BY <1>12, <3>1 DEF Isolated, SuccSet, NoSuccs
  <2> QED
    BY <1>9, <1>10, <1>12, <2>1, <2>2 DEF Isolated
<1>13. ~Isolated(graph, h)
  BY <1>1, <1>6 DEF Isolated
<1>14. PreHeaderAdded(l, pre)
  BY <1>3, <1>4, <1>5, <1>8, <1>10, <1>11, <1>12, <1>13 DEF PreHeaderAdded, g, h
<1> QED
  BY <1>1, <1>14 DEF l

\* The pre-header is on the way, and no cycle is closed by it.
LEMMA AddPreHeaderKeeps ==
  ASSUME WF(graph), NEW L, NEW pre, PreHeaderAdded(L, pre), L.header \in graph.blocks
  PROVE  /\ \A A : WaysLead(A, graph, graph.blocks \ A.blocks)
                   => WaysLead(A, graph', graph'.blocks \ A.blocks)
         /\ \A H : L.header \in H /\ CyclesCut(graph, H) => CyclesCut(graph', H)
<1> DEFINE g == NewBlock(graph, pre, "none")
           h == L.header
<1>1. /\ pre \in Ids \ graph.blocks /\ graph'.blocks = graph.blocks \cup {pre}
      /\ WF(g) /\ Extends(graph, g) /\ g.blocks = graph'.blocks
      /\ \A c \in graph.blocks : g.preds[c] = graph.preds[c]
      /\ Detoured(g, graph', pre, h)
      /\ \A c \in graph.blocks : Isolated(graph, c) => Isolated(graph', c)
      /\ ~Isolated(graph, h)
  BY DEF PreHeaderAdded
<1> HIDE DEF g
<1>2. \A c \in g.blocks \ {pre} : Isolated(g, c) => Isolated(graph', c)
  BY <1>1 DEF Extends, Isolated
<1>3. ASSUME NEW A, WaysLead(A, graph, graph.blocks \ A.blocks)
      PROVE  WaysLead(A, graph', graph'.blocks \ A.blocks)
  <2> DEFINE I == graph.blocks \ A.blocks
  <2>1. A.blocks \subseteq graph.blocks
    BY <1>3 DEF WaysLead
  <2>2. WaysLead(A, g, I)
    BY <1>1, <1>3, ExtendedWays
  <2>3. pre \in g.blocks \ (A.blocks \cup I) /\ h \in A.blocks \cup I /\ I \cup {pre} = graph'.blocks \ A.blocks
    BY <1>1, <2>1
  <2> HIDE DEF I, h
  <2>4. WaysLead(A, graph', I \cup {pre})
    BY <1>1, <1>2, <2>2, <2>3, DetourKeepsWays
  <2> QED
    BY <2>3, <2>4
<1>4. ASSUME NEW H, h \in H, CyclesCut(graph, H) PROVE CyclesCut(graph', H)
  <2>1. CyclesCut(g, H)
    BY <1>1, <1>4, ExtendedCut
  <2>2. h \in H \ {None}
    BY <1>4, FlowGraphAssumption DEF WF, Shape, Graphs
  <2>3. pre \in g.blocks
    BY <1>1
  <2> HIDE DEF h
  <2> QED
    BY <1>1, <2>1, <2>2, <2>3, DetourKeepsCut
<1> QED
  BY <1>3, <1>4

-----------------------------------------------------------------------------
\* The root is no loop of the graph; every other loop has a header, which is in no
\* other loop.
HeadersOwn ==
  /\ Root \in LoopIds /\ loops_[Root].header = None /\ loops_[Root].back_edges = <<>>
  /\ \A l \in LoopIds \ {Root} : loops_[l].header \in graph.blocks /\ loop_[loops_[l].header] = l

\* The back edges leave blocks of the given graph for the header.
BackEdgesLead ==
  \A l \in LoopIds \ {Root} : \A b \in ToSet(loops_[l].back_edges) :
    b \in given.blocks /\ b \in graph.preds[loops_[l].header]

\* What is known of the loops until they are populated.
LoopsKnown == LoopsTyped /\ HeadersOwn /\ BackEdgesLead

\* The loops there are after l was split.
LEMMA SplitLoops ==
  ASSUME LoopsTyped, NEW l \in LoopIds, NEW m, NEW heads, NEW edges, NEW G,
         IsSplit(l, m, heads, edges, G)
  PROVE  LET n == Len(loops_)
         IN  /\ n \in Nat /\ LoopIds = 1 .. n /\ loops_' \in Seq(LoopRecords)
             /\ \A k \in LoopIds : loops_'[k].header = loops_[k].header
             /\ \A k \in LoopIds \ {l} : loops_'[k].back_edges = loops_[k].back_edges
             /\ loops_'[l].back_edges = <<edges[1]>>
             /\ \A i \in 1 .. m : /\ loops_'[n + i].header = heads[i + 1]
                                 /\ loops_'[n + i].back_edges = <<edges[i + 1]>>
             /\ Headers' = Headers \cup {heads[i + 1] : i \in 1 .. m}
<1> DEFINE n == Len(loops_)
           L == [loops_[l] EXCEPT !.back_edges = <<>>]
<1>1. /\ n \in Nat /\ LoopIds = 1 .. n /\ \A k \in LoopIds : loops_[k] \in LoopRecords
  BY DEF LoopsTyped, LoopIds
<1>2. /\ m \in Nat \ {0} /\ LoopIds' = 1 .. n + m /\ loops_' = [k \in 1 .. n + m |-> loops_'[k]]
      /\ \A k \in LoopIds \ {l} : loops_'[k] = loops_[k]
      /\ loops_'[l] = AddBackEdge(L, edges[1])
      /\ \A i \in 1 .. m : loops_'[n + i] = NewLoop(heads[i + 1], edges[i + 1])
      /\ \A i \in 1 .. m : heads[i + 1] \in Ids
      /\ \A i \in 1 .. m + 1 : edges[i] \in Ids
  BY DEF IsSplit
<1>3. L \in LoopRecords /\ L.header = loops_[l].header /\ L.back_edges = <<>>
  <2>1. loops_[l] \in LoopRecords /\ <<>> \in Seq(Ids)
    BY <1>1
  <2> QED
    BY <2>1 DEF LoopRecords
<1> HIDE DEF L
<1>4. /\ loops_'[l] \in LoopRecords /\ loops_'[l].header = loops_[l].header
      /\ loops_'[l].back_edges = <<edges[1]>>
  <2>1. edges[1] \in Ids /\ Append(<<>>, edges[1]) = <<edges[1]>>
    <3>1. 1 \in 1 .. m + 1
      BY <1>2
    <3> QED
      BY <1>2, <3>1
  <2> DEFINE e == edges[1]
             M == AddBackEdge(L, e)
  <2>2. M \in LoopRecords /\ M.header = L.header /\ M.back_edges = Append(L.back_edges, e)
    BY <1>3, <2>1, LoopFieldFacts
  <2>3. loops_'[l] = M
    BY <1>2
  <2> HIDE DEF M, e
  <2>4. M.back_edges = <<e>>
    BY <1>3, <2>1, <2>2 DEF e
  <2> QED
    BY <1>3, <2>2, <2>3, <2>4 DEF e
<1>5. ASSUME NEW i \in 1 .. m
      PROVE  /\ loops_'[n + i] \in LoopRecords /\ loops_'[n + i].header = heads[i + 1]
             /\ loops_'[n + i].back_edges = <<edges[i + 1]>>
  <2>1. i + 1 \in 1 .. m + 1
    BY <1>2
  <2> QED
    BY <1>2, <2>1, NewLoopFacts
<1>6. \A k \in 1 .. n + m : k \in LoopIds \/ \E i \in 1 .. m : k = n + i
  <2> SUFFICES ASSUME NEW k \in 1 .. n + m, k \notin LoopIds PROVE k - n \in 1 .. m /\ k = n + (k - n)
    OBVIOUS
  <2> QED
    BY <1>1, <1>2
<1>7. loops_' \in Seq(LoopRecords)
  <2>1. \A k \in 1 .. n + m : loops_'[k] \in LoopRecords
    BY <1>1, <1>2, <1>4, <1>5, <1>6
  <2>2. n + m \in Nat
    BY <1>1, <1>2
  <2> HIDE DEF n
  <2>3. loops_' \in [1 .. n + m -> LoopRecords]
    BY <1>2, <2>1
  <2>4. \A j \in Nat : [1 .. j -> LoopRecords] \subseteq Seq(LoopRecords)
    OBVIOUS
  <2> QED
    BY <2>2, <2>3, <2>4
<1>8. \A k \in LoopIds : loops_'[k].header = loops_[k].header
  BY <1>2, <1>4
<1>9. Headers' = Headers \cup {heads[i + 1] : i \in 1 .. m}
  <2>1. Headers' = {loops_'[k].header : k \in 1 .. n + m}
    BY <1>2 DEF Headers
  <2>2. ASSUME NEW i \in 1 .. m PROVE heads[i + 1] \in Headers'
    <3>1. n + i \in 1 .. n + m
      BY <1>1, <1>2
    <3> QED
      BY <1>5, <2>1, <3>1
  <2>3. LoopIds \subseteq 1 .. n + m
    BY <1>1, <1>2
  <2>4. Headers \subseteq Headers'
    <3> SUFFICES ASSUME NEW k \in LoopIds PROVE loops_[k].header \in Headers'
      BY DEF Headers
    <3>1. k \in 1 .. n + m /\ loops_'[k].header = loops_[k].header
      BY <1>8, <2>3
    <3> QED
      BY <2>1, <3>1
  <2>5. Headers' \subseteq Headers \cup {heads[i + 1] : i \in 1 .. m}
    <3> SUFFICES ASSUME NEW k \in 1 .. n + m
                 PROVE  loops_'[k].header \in Headers \cup {heads[i + 1] : i \in 1 .. m}
      BY <2>1
    <3>1. CASE k \in LoopIds
      BY <1>8, <3>1 DEF Headers
    <3>2. CASE \E i \in 1 .. m : k = n + i
      BY <1>5, <3>2
    <3> QED
      BY <1>6, <3>1, <3>2
  <2> QED
    BY <2>2, <2>4, <2>5
<1> QED
  BY <1>1, <1>2, <1>4, <1>5, <1>7, <1>8, <1>9

\* Every loop that comes of it has its header to itself, and its back edge.
LEMMA SplitStep ==
  ASSUME WF(graph), LoopsKnown, CyclesCut(graph, Headers), todo \in Seq(LoopIds), SplitBackEdge
  PROVE  /\ LoopsKnown' /\ CyclesCut(graph', Headers') /\ LoopIds \subseteq LoopIds'
         /\ \A A : WaysLead(A, graph, graph.blocks \ A.blocks)
                   => WaysLead(A, graph', graph'.blocks \ A.blocks)
<1> DEFINE l == Head(todo)
           n == Len(loops_)
<1>1. l \in LoopIds /\ UNCHANGED <<id_to_dfs_idx_, given>>
  <2>1. todo # <<>>
    BY DEF SplitBackEdge
  <2> QED
    BY <2>1, HeadTailFacts DEF SplitBackEdge, collecting
<1>2. LoopsTyped /\ HeadersOwn /\ BackEdgesLead
  BY DEF LoopsKnown
<1> HIDE DEF l
<1>3. PICK m, heads, edges, G : IsSplit(l, m, heads, edges, G)
  BY <1>1, <1>2, SplitBackEdgeFacts DEF l
<1>4. /\ m \in Nat \ {0} /\ heads[1] = loops_[l].header
      /\ \A i \in 1 .. m : heads[i + 1] \in Ids \ graph.blocks
      /\ \A i \in 1 .. m + 1 : edges[i] \in ToSet(loops_[l].back_edges)
      /\ TurnByTurn(G, heads, edges, m) /\ graph' = G[m] /\ LoopIds' = 1 .. n + m
      /\ \A b \in Ids : (\A i \in 1 .. m : b # heads[i + 1]) => loop_'[b] = loop_[b]
      /\ \A i \in 1 .. m : loop_'[heads[i + 1]] = n + i
      /\ loop_' = [b \in Ids |-> loop_'[b]]
  BY <1>3 DEF IsSplit
<1>5. /\ n \in Nat /\ LoopIds = 1 .. n /\ loops_' \in Seq(LoopRecords)
      /\ \A k \in LoopIds : loops_'[k].header = loops_[k].header
      /\ \A k \in LoopIds \ {l} : loops_'[k].back_edges = loops_[k].back_edges
      /\ loops_'[l].back_edges = <<edges[1]>>
      /\ \A i \in 1 .. m : /\ loops_'[n + i].header = heads[i + 1]
                          /\ loops_'[n + i].back_edges = <<edges[i + 1]>>
      /\ Headers' = Headers \cup {heads[i + 1] : i \in 1 .. m}
  BY <1>1, <1>2, <1>3, SplitLoops
<1>6. l # Root
  <2>1. 1 \in 1 .. m + 1 /\ ToSet(<<>>) = {}
    BY <1>4 DEF ToSet
  <2> QED
    BY <1>2, <1>4, <2>1 DEF HeadersOwn
<1>7. /\ heads[1] \in graph.blocks
      /\ \A i \in 1 .. m + 1 : edges[i] \in graph.preds[heads[1]] /\ edges[i] \in given.blocks
  BY <1>1, <1>2, <1>4, <1>6 DEF HeadersOwn, BackEdgesLead
<1>8. graph.blocks \subseteq Ids /\ graph'.blocks = graph.blocks \cup {heads[i + 1] : i \in 1 .. m}
  <2>1. m \in 0 .. m
    BY <1>4
  <2>2. graph'.blocks = graph.blocks \cup {heads[i + 1] : i \in 1 .. m}
    BY <1>4, <2>1 DEF TurnByTurn
  <2> QED
    BY <2>2 DEF WF, Shape, Graphs
<1>9. /\ \A c \in graph.blocks \ {heads[1]} : graph'.preds[c] = graph.preds[c]
      /\ \A i \in 1 .. m + 1 : edges[i] \in graph'.preds[heads[i]]
  BY <1>3, <1>7, SplitPreds
<1>10. LoopIds \subseteq LoopIds' /\ \A k \in LoopIds' : k \in LoopIds \/ \E i \in 1 .. m : k = n + i
  <2>1. \A k \in 1 .. n + m : k \in 1 .. n \/ (k - n \in 1 .. m /\ k = n + (k - n))
    BY <1>4, <1>5
  <2>2. 1 .. n \subseteq 1 .. n + m
    BY <1>4, <1>5
  <2> HIDE DEF n
  <2> QED
    BY <1>4, <1>5, <2>1, <2>2
<1>11. LoopsTyped'
  <2>1. loop_' \in [Ids -> Nat \cup {None}]
    <3>1. ASSUME NEW b \in Ids PROVE loop_'[b] \in Nat \cup {None}
      <4>1. CASE \A i \in 1 .. m : b # heads[i + 1]
        BY <1>2, <1>4, <4>1 DEF LoopsTyped
      <4>2. CASE \E i \in 1 .. m : b = heads[i + 1]
        BY <1>4, <1>5, <4>2
      <4> QED
        BY <4>1, <4>2
    <3> QED
      BY <1>4, <3>1
  <2> QED
    BY <1>1, <1>2, <1>5, <2>1 DEF LoopsTyped
<1>12. HeadersOwn'
  <2>1. Root \in LoopIds' /\ loops_'[Root].header = None /\ loops_'[Root].back_edges = <<>>
    BY <1>2, <1>5, <1>6, <1>10 DEF HeadersOwn
  <2>2. ASSUME NEW k \in LoopIds \ {Root}
        PROVE  loops_'[k].header \in graph'.blocks /\ loop_'[loops_'[k].header] = k
    <3>1. loops_[k].header \in graph.blocks /\ loop_[loops_[k].header] = k
      BY <1>2 DEF HeadersOwn
    <3> QED
      BY <1>4, <1>5, <1>8, <3>1
  <2>3. ASSUME NEW i \in 1 .. m
        PROVE  loops_'[n + i].header \in graph'.blocks /\ loop_'[loops_'[n + i].header] = n + i
    <3>1. loops_'[n + i].header = heads[i + 1] /\ heads[i + 1] \in graph'.blocks
      BY <1>5, <1>8
    <3>2. loop_'[heads[i + 1]] = n + i
      BY <1>4
    <3> QED
      BY <3>1, <3>2
  <2> QED
    BY <1>10, <2>1, <2>2, <2>3 DEF HeadersOwn
<1>13. BackEdgesLead'
  <2>1. ASSUME NEW k \in LoopIds \ {Root, l}, NEW b \in ToSet(loops_'[k].back_edges)
        PROVE  b \in given.blocks /\ b \in graph'.preds[loops_'[k].header]
    <3>1. /\ loops_[k].header \in graph.blocks /\ b \in given.blocks
          /\ b \in graph.preds[loops_[k].header]
      BY <1>2, <1>5 DEF HeadersOwn, BackEdgesLead
    <3>2. loops_[k].header # heads[1]
      BY <1>1, <1>2, <1>4, <1>6 DEF HeadersOwn
    <3> QED
      BY <1>5, <1>9, <3>1, <3>2
  <2>2. ASSUME NEW i \in 1 .. m + 1 PROVE edges[i] \in given.blocks /\ edges[i] \in graph'.preds[heads[i]]
    BY <1>7, <1>9
  <2>3. ASSUME NEW b \in ToSet(loops_'[l].back_edges)
        PROVE  b \in given.blocks /\ b \in graph'.preds[loops_'[l].header]
    <3>1. 1 \in 1 .. m + 1 /\ b = edges[1]
      BY <1>4, <1>5, OneBackEdge
    <3>2. loops_'[l].header = heads[1]
      BY <1>1, <1>4, <1>5
    <3>3. edges[1] \in given.blocks /\ edges[1] \in graph'.preds[heads[1]]
      BY <2>2, <3>1
    <3> QED
      BY <3>1, <3>2, <3>3
  <2>4. ASSUME NEW i \in 1 .. m, NEW b \in ToSet(loops_'[n + i].back_edges)
        PROVE  b \in given.blocks /\ b \in graph'.preds[loops_'[n + i].header]
    <3>0. i + 1 \in 1 .. m + 1
      BY <1>4
    <3>1. b = edges[i + 1]
      <4>1. loops_'[n + i].back_edges = <<edges[i + 1]>>
        BY <1>5
      <4>2. ToSet(<<edges[i + 1]>>) = {edges[i + 1]}
        BY OneBackEdge
      <4> QED
        BY <4>1, <4>2
    <3> QED
      BY <1>5, <2>2, <3>0, <3>1
  <2> QED
    BY <1>1, <1>10, <2>1, <2>3, <2>4 DEF BackEdgesLead
<1>14. CyclesCut(graph', Headers')
  BY <1>1, <1>3, <1>5, SplitKeepsCut
<1> QED
  BY <1>3, <1>10, <1>11, <1>12, <1>13, <1>14, SplitKeepsWays DEF LoopsKnown

\* Control enters l through its pre-header.
Entered(l) ==
  LET h   == loops_[l].header
      pre == loops_[l].pre_header
  IN  /\ h \in graph.blocks /\ pre \in graph.blocks \ given.blocks /\ pre # h
      /\ SuccSet(graph, pre) = {h}
      /\ \E e \in given.blocks : loops_[l].back_edges = <<e>> /\ graph.preds[h] = {pre, e}

\* The loops AddPreHeaders is done with.
EnteredBut(rest) == \A l \in Natural : l \notin ToSet(rest) => Entered(l)

\* The loop that AddPreHeader is at is entered through its pre-header from then on.
LEMMA AddPreHeaderStep ==
  ASSUME WF(graph), LoopsKnown, CyclesCut(graph, Headers), todo \in Seq(LoopIds \ {Root}),
         AddPreHeader, given.blocks \subseteq graph.blocks, EnteredBut(todo)
  PROVE  /\ LoopsKnown' /\ CyclesCut(graph', Headers') /\ LoopIds' = LoopIds
         /\ EnteredBut(todo)'
         /\ \A A : WaysLead(A, graph, graph.blocks \ A.blocks)
                   => WaysLead(A, graph', graph'.blocks \ A.blocks)
<1>0. PICK l : l = Head(todo)
  OBVIOUS
<1> DEFINE L == loops_[l]
           h == L.header
<1>1. /\ l \in LoopIds \ {Root} /\ ToSet(todo) = {l} \cup ToSet(todo')
      /\ UNCHANGED <<id_to_dfs_idx_, given, loop_>>
      /\ Len(loops_[loop_[h]].back_edges) = 1
  <2>1. todo # <<>> /\ todo' = Tail(todo) /\ UNCHANGED <<id_to_dfs_idx_, given, loop_>>
        /\ Len(loops_[loop_[h]].back_edges) = 1
    BY <1>0 DEF AddPreHeader, collecting, blockLoops
  <2> QED
    BY <1>0, <2>1, HeadTailFacts
<1>2. LoopsTyped /\ HeadersOwn /\ BackEdgesLead
  BY DEF LoopsKnown
<1>3. /\ loops_ \in Seq(LoopRecords) /\ LoopIds = 1 .. Len(loops_) /\ Len(loops_) \in Nat
      /\ \A k \in LoopIds : loops_[k] \in LoopRecords
  BY <1>2 DEF LoopsTyped, LoopIds
<1>4. h \in graph.blocks /\ loop_[h] = l
  BY <1>1, <1>2 DEF HeadersOwn
<1>5. PICK pre : PreHeaderAdded(L, pre) /\ loops_' = [loops_ EXCEPT ![l].pre_header = pre]
  BY <1>0, <1>4, AddPreHeaderDetours
<1>6. PICK e : L.back_edges = <<e>> /\ ToSet(L.back_edges) = {e}
  <2>1. L.back_edges \in Seq(Ids) /\ Len(L.back_edges) = 1
    BY <1>1, <1>3, <1>4 DEF LoopRecords
  <2>2. L.back_edges = <<L.back_edges[1]>>
    <3> HIDE DEF L
    <3> QED
      BY <2>1
  <2> QED
    BY <2>2, OneBackEdge
<1>7. e \in given.blocks /\ e \in graph.preds[h]
  BY <1>1, <1>2, <1>6 DEF BackEdgesLead
<1>8. /\ pre \in Ids \ graph.blocks /\ graph'.blocks = graph.blocks \cup {pre}
      /\ Extends(graph, NewBlock(graph, pre, "none"))
      /\ NewBlock(graph, pre, "none").blocks = graph'.blocks
      /\ Detoured(NewBlock(graph, pre, "none"), graph', pre, h)
      /\ graph'.preds[h] = {pre, e}
      /\ \A c \in graph.blocks \ {h} : graph'.preds[c] = graph.preds[c]
  BY <1>5, <1>6, <1>7 DEF PreHeaderAdded
<1>9. /\ loops_' \in Seq(LoopRecords) /\ LoopIds' = LoopIds
      /\ \A k \in LoopIds : /\ loops_'[k].header = loops_[k].header
                            /\ loops_'[k].back_edges = loops_[k].back_edges
                            /\ loops_'[k].is_reducible = loops_[k].is_reducible
      /\ \A k \in LoopIds \ {l} : loops_'[k] = loops_[k]
      /\ loops_'[l].pre_header = pre
  <2> DEFINE M == [L EXCEPT !.pre_header = pre]
  <2>1. l \in LoopIds /\ L \in LoopRecords
    BY <1>1, <1>3
  <2>2. /\ M \in LoopRecords /\ M.header = L.header /\ M.back_edges = L.back_edges
        /\ M.is_reducible = L.is_reducible /\ M.pre_header = pre
    <3> HIDE DEF L
    <3> QED
      BY <1>8, <2>1 DEF LoopRecords
  <2>3. loops_' = [loops_ EXCEPT ![l] = M]
    BY <1>5
  <2> HIDE DEF M
  <2>4. loops_' \in Seq(LoopRecords) /\ DOMAIN loops_' = DOMAIN loops_
    BY <1>3, <2>1, <2>2, <2>3
  <2>5. loops_'[l] = M /\ \A k \in LoopIds \ {l} : loops_'[k] = loops_[k]
    BY <2>1, <2>3 DEF LoopIds
  <2> QED
    BY <2>2, <2>4, <2>5 DEF LoopIds
<1>10. Headers' = Headers
  BY <1>9 DEF Headers
<1>11. LoopsTyped'
  BY <1>1, <1>2, <1>9 DEF LoopsTyped
<1>12. HeadersOwn'
  BY <1>1, <1>2, <1>8, <1>9 DEF HeadersOwn
<1>13. ASSUME NEW k \in LoopIds \ {Root, l} PROVE loops_[k].header \in graph.blocks \ {h}
  BY <1>1, <1>2, <1>4, <1>13 DEF HeadersOwn
<1>14. BackEdgesLead'
  <2>1. ASSUME NEW k \in LoopIds \ {Root, l}, NEW b \in ToSet(loops_[k].back_edges)
        PROVE  b \in given.blocks /\ b \in graph'.preds[loops_[k].header]
    BY <1>2, <1>8, <1>13 DEF BackEdgesLead
  <2>2. ASSUME NEW b \in ToSet(loops_[l].back_edges)
        PROVE  b \in given.blocks /\ b \in graph'.preds[loops_[l].header]
    BY <1>6, <1>7, <1>8
  <2> QED
    BY <1>1, <1>9, <2>1, <2>2 DEF BackEdgesLead
<1>15. Entered(l)'
  <2>1. SuccSet(graph', pre) = {h}
    BY <1>8 DEF Detoured
  <2>2. /\ loops_'[l].header = h /\ loops_'[l].back_edges = <<e>> /\ loops_'[l].pre_header = pre
    BY <1>1, <1>6, <1>9
  <2>3. pre \in graph'.blocks \ given.blocks /\ pre # h /\ h \in graph'.blocks /\ given' = given
    BY <1>1, <1>4, <1>8
  <2> HIDE DEF L, h
  <2> QED
    BY <1>7, <1>8, <2>1, <2>2, <2>3 DEF Entered
<1>16. ASSUME NEW k \in LoopIds \ {Root, l}, Entered(k) PROVE Entered(k)'
  <2> DEFINE y == loops_[k].header
             x == loops_[k].pre_header
  <2>1. /\ y \in graph.blocks /\ x \in graph.blocks \ given.blocks /\ x # y
        /\ SuccSet(graph, x) = {y}
    BY <1>16 DEF Entered
  <2>2. PICK f \in given.blocks : loops_[k].back_edges = <<f>> /\ graph.preds[y] = {x, f}
    BY <1>16 DEF Entered
  <2>3. graph'.preds[y] = {x, f}
    BY <1>8, <1>13, <2>2
  <2>4. SuccSet(graph', x) = {y}
    <3>1. x # pre /\ y # h
      BY <1>8, <1>13, <2>1
    <3>2. ASSUME NEW s \in Slots PROVE graph'.succs[x][s] = graph.succs[x][s]
      <4>1. NewBlock(graph, pre, "none").succs[x] = graph.succs[x]
        BY <1>8, <2>1 DEF Extends
      <4>2. graph.succs[x][s] # h
        <5>1. h # None
          BY <1>4, FlowGraphAssumption DEF WF, Shape, Graphs
        <5> QED
          BY <2>1, <3>1, <5>1 DEF SuccSet
      <4>3. x \in NewBlock(graph, pre, "none").blocks \ {pre}
        BY <1>8, <2>1, <3>1
      <4> QED
        BY <1>8, <4>1, <4>2, <4>3 DEF Detoured
    <3> QED
      BY <2>1, <3>2 DEF SuccSet
  <2>5. loops_'[k] = loops_[k] /\ given' = given /\ graph.blocks \subseteq graph'.blocks
    BY <1>1, <1>8, <1>9
  <2> QED
    BY <2>1, <2>2, <2>3, <2>4, <2>5 DEF Entered
<1>17. EnteredBut(todo)'
  <2> SUFFICES ASSUME NEW k \in Natural', k \notin ToSet(todo') PROVE Entered(k)'
    BY DEF EnteredBut
  <2>1. k \in Natural
    <3>1. k \in LoopIds /\ k # Root /\ loops_'[k].is_reducible
      BY <1>9 DEF Natural
    <3>2. loops_[k].is_reducible
      BY <1>9, <3>1, Zenon
    <3> QED
      BY <3>1, <3>2 DEF Natural
  <2>2. k \in LoopIds \ {Root}
    BY <2>1 DEF Natural
  <2>3. CASE k = l
    BY <1>15, <2>3
  <2>4. CASE k # l
    <3>1. Entered(k)
      BY <1>1, <2>1, <2>4 DEF EnteredBut
    <3> QED
      BY <1>16, <2>2, <2>4, <3>1
  <2> QED
    BY <2>3, <2>4
<1>18. /\ CyclesCut(graph', Headers')
       /\ \A A : WaysLead(A, graph, graph.blocks \ A.blocks)
                 => WaysLead(A, graph', graph'.blocks \ A.blocks)
  <2>1. L.header \in Headers /\ L.header \in graph.blocks
    BY <1>1, <1>4 DEF Headers
  <2> HIDE DEF L
  <2>2. /\ \A A : WaysLead(A, graph, graph.blocks \ A.blocks)
                  => WaysLead(A, graph', graph'.blocks \ A.blocks)
        /\ \A H : L.header \in H /\ CyclesCut(graph, H) => CyclesCut(graph', H)
    BY <1>5, <2>1, AddPreHeaderKeeps
  <2> QED
    BY <1>10, <2>1, <2>2
<1> QED
  BY <1>9, <1>11, <1>12, <1>14, <1>17, <1>18 DEF LoopsKnown

-----------------------------------------------------------------------------
\* A block that is in a loop is its header.
HeadersOnly == \A b \in Ids : loop_[b] # None => loop_[b] \in LoopIds /\ loops_[loop_[b]].header = b

\* What CollectBackEdges notes of an edge from b back to c.
Noted(b, c) ==
  IF loop_[c] = None
  THEN /\ loops_' = Append(loops_, NewLoop(c, b))
       /\ loop_' = [loop_ EXCEPT ![c] = Len(loops_')]
  ELSE /\ loops_' = [loops_ EXCEPT ![loop_[c]] = AddBackEdge(@, b)]
       /\ loop_' = loop_

\* An edge that leads back to c makes c a header.
LEMMA NotedLoops ==
  ASSUME WF(graph), LoopsKnown, HeadersOnly, NEW b \in given.blocks, NEW c \in graph.blocks,
         b \in graph.preds[c], given.blocks \subseteq Ids,
         UNCHANGED <<graph, given, id_to_dfs_idx_>>, Noted(b, c)
  PROVE  LoopsKnown' /\ HeadersOnly' /\ Headers' = Headers \cup {c}
<1> DEFINE n == Len(loops_)
<1>1. LoopsTyped /\ HeadersOwn /\ BackEdgesLead
  BY DEF LoopsKnown
<1>2. /\ loops_ \in Seq(LoopRecords) /\ LoopIds = 1 .. n /\ n \in Nat
      /\ \A k \in LoopIds : loops_[k] \in LoopRecords
      /\ loop_ \in [Ids -> Nat \cup {None}] /\ c \in Ids /\ b \in Ids
  BY <1>1 DEF LoopsTyped, LoopIds, WF, Shape, Graphs
<1>3. CASE loop_[c] = None
  <2> DEFINE N == NewLoop(c, b)
  <2>1. N \in LoopRecords /\ N.header = c /\ N.back_edges = <<b>> /\ ToSet(<<b>>) = {b}
    BY <1>2, NewLoopFacts, OneBackEdge
  <2>2. loops_' = Append(loops_, N) /\ loop_' = [loop_ EXCEPT ![c] = Len(loops_')]
    BY <1>3 DEF Noted
  <2> HIDE DEF N
  <2>3. /\ loops_' \in Seq(LoopRecords) /\ Len(loops_') = n + 1
        /\ \A k \in 1 .. n : loops_'[k] = loops_[k]
        /\ loops_'[n + 1] = N
    <3>1. loops_' \in Seq(LoopRecords) /\ Len(loops_') = n + 1 /\ loops_'[n + 1] = N
      BY <1>2, <2>1, <2>2
    <3>2. \A k \in 1 .. n : loops_'[k] = loops_[k]
      BY <1>2, <2>1, <2>2
    <3> QED
      BY <3>1, <3>2
  <2> HIDE DEF n
  <2>4. LoopIds' = LoopIds \cup {n + 1} /\ n + 1 \notin LoopIds /\ n + 1 # Root /\ n + 1 \in Nat
    <3>1. Root \in LoopIds /\ Root = 1
      BY <1>1 DEF HeadersOwn, Root
    <3>2. LoopIds' = 1 .. n + 1
      BY <1>2, <2>3 DEF LoopIds
    <3> QED
      BY <1>2, <3>1, <3>2
  <2>5. /\ loop_'[c] = n + 1 /\ \A x \in Ids \ {c} : loop_'[x] = loop_[x]
        /\ loop_' \in [Ids -> Nat \cup {None}]
    <3>1. n + 1 \in Nat
      BY <1>2
    <3> QED
      BY <1>2, <2>2, <2>3, <3>1
  <2>6. \A k \in LoopIds \ {Root} : loops_[k].header # c /\ loops_[k].header \in Ids
    BY <1>1, <1>2, <1>3, NullLoopAssumption DEF HeadersOwn, WF, Shape, Graphs
  <2>7. LoopsTyped'
    BY <1>1, <2>3, <2>5 DEF LoopsTyped
  <2>8. HeadersOwn'
    <3>1. Root \in LoopIds' /\ loops_'[Root] = loops_[Root]
      BY <1>1, <1>2, <2>3, <2>4 DEF HeadersOwn
    <3>2. ASSUME NEW k \in LoopIds \ {Root}
          PROVE  loops_'[k].header \in graph.blocks /\ loop_'[loops_'[k].header] = k
      BY <1>1, <1>2, <2>3, <2>5, <2>6 DEF HeadersOwn
    <3>3. loops_'[n + 1].header \in graph.blocks /\ loop_'[loops_'[n + 1].header] = n + 1
      BY <2>1, <2>3, <2>5
    <3> QED
      BY <1>1, <2>4, <3>1, <3>2, <3>3 DEF HeadersOwn
  <2>9. BackEdgesLead'
    <3>1. ASSUME NEW k \in LoopIds \ {Root}, NEW x \in ToSet(loops_'[k].back_edges)
          PROVE  x \in given.blocks /\ x \in graph.preds[loops_'[k].header]
      <4>1. loops_'[k] = loops_[k]
        BY <1>2, <2>3
      <4> QED
        BY <1>1, <3>1, <4>1 DEF BackEdgesLead
    <3>2. ASSUME NEW x \in ToSet(N.back_edges) PROVE x \in given.blocks /\ x \in graph.preds[N.header]
      BY <2>1, <3>2
    <3> QED
      BY <2>3, <2>4, <3>1, <3>2 DEF BackEdgesLead
  <2>10. HeadersOnly'
    <3> SUFFICES ASSUME NEW x \in Ids, loop_'[x] # None
                 PROVE  loop_'[x] \in LoopIds' /\ loops_'[loop_'[x]].header = x
      BY DEF HeadersOnly
    <3>1. CASE x = c
      BY <2>1, <2>3, <2>4, <2>5, <3>1
    <3>2. CASE x # c
      BY <1>2, <2>3, <2>4, <2>5, <3>2 DEF HeadersOnly
    <3> QED
      BY <3>1, <3>2
  <2>11. Headers' = Headers \cup {c}
    <3>1. \A k \in LoopIds : loops_'[k].header = loops_[k].header
      BY <1>2, <2>3
    <3>2. loops_'[n + 1].header = c
      BY <2>1, <2>3
    <3>3. Headers' = {loops_'[k].header : k \in LoopIds \cup {n + 1}}
      BY <2>4 DEF Headers
    <3> QED
      BY <3>1, <3>2, <3>3 DEF Headers
  <2> QED
    BY <2>7, <2>8, <2>9, <2>10, <2>11 DEF LoopsKnown
<1>4. CASE loop_[c] # None
  <2>1. PICK j : j = loop_[c]
    OBVIOUS
  <2> DEFINE L == loops_[j]
             N == AddBackEdge(L, b)
  <2>2. j \in LoopIds /\ L.header = c /\ j # Root /\ L \in LoopRecords
    BY <1>1, <1>2, <1>4, <2>1, FlowGraphAssumption DEF HeadersOnly, HeadersOwn
  <2>3. N \in LoopRecords /\ N.header = c /\ N.back_edges = Append(L.back_edges, b)
    BY <1>2, <2>2, LoopFieldFacts
  <2>4. ToSet(N.back_edges) = ToSet(L.back_edges) \cup {b}
    <3>1. L.back_edges \in Seq(Ids)
      BY <2>2 DEF LoopRecords
    <3> HIDE DEF L, N
    <3> QED
      BY <1>2, <2>3, <3>1, AppendFacts
  <2>5. loops_' = [loops_ EXCEPT ![j] = N] /\ loop_' = loop_
    BY <1>4, <2>1 DEF Noted
  <2> HIDE DEF N
  <2>6. /\ loops_' \in Seq(LoopRecords) /\ LoopIds' = LoopIds
        /\ loops_'[j] = N /\ \A k \in LoopIds \ {j} : loops_'[k] = loops_[k]
        /\ \A k \in LoopIds : loops_'[k].header = loops_[k].header
    <3>1. loops_' \in Seq(LoopRecords) /\ DOMAIN loops_' = DOMAIN loops_
      BY <1>2, <2>2, <2>3, <2>5
    <3>2. loops_'[j] = N /\ \A k \in LoopIds \ {j} : loops_'[k] = loops_[k]
      BY <2>2, <2>5 DEF LoopIds
    <3> QED
      BY <2>2, <2>3, <3>1, <3>2 DEF LoopIds
  <2>7. LoopsTyped'
    BY <1>1, <2>5, <2>6 DEF LoopsTyped
  <2>8. HeadersOwn'
    BY <1>1, <2>2, <2>5, <2>6 DEF HeadersOwn
  <2>9. BackEdgesLead'
    <3>1. ASSUME NEW k \in LoopIds \ {Root, j}, NEW x \in ToSet(loops_'[k].back_edges)
          PROVE  x \in given.blocks /\ x \in graph.preds[loops_'[k].header]
      BY <1>1, <2>6, <3>1 DEF BackEdgesLead
    <3>2. ASSUME NEW x \in ToSet(N.back_edges) PROVE x \in given.blocks /\ x \in graph.preds[c]
      BY <1>1, <2>2, <2>4 DEF BackEdgesLead
    <3> QED
      BY <2>2, <2>3, <2>6, <3>1, <3>2 DEF BackEdgesLead
  <2>10. HeadersOnly'
    BY <2>5, <2>6 DEF HeadersOnly
  <2>11. Headers' = Headers \cup {c}
    <3>1. Headers' = Headers
      BY <2>6 DEF Headers
    <3>2. c \in Headers
      BY <2>2 DEF Headers
    <3> QED
      BY <3>1, <3>2
  <2> QED
    BY <2>7, <2>8, <2>9, <2>10, <2>11 DEF LoopsKnown
<1> QED
  BY <1>3, <1>4

-----------------------------------------------------------------------------
\* What is known of the calls of CollectBackEdges.
Frames == [bb : Ids, todo : Seq(Ids)]

\* The blocks whose calls have returned.
Finished == black \ grey

\* The blocks with GREY are those of the calls that are active.
Calls ==
  /\ stack \in Seq(Frames)
  /\ \A i, j \in 1 .. Len(stack) : stack[i].bb = stack[j].bb => i = j
  /\ grey = {stack[k].bb : k \in 1 .. Len(stack)}
  /\ grey \subseteq black /\ black \subseteq graph.blocks /\ Start \in black

\* What a call has looked at is a header, has been left, or is being visited.
Awaited ==
  \A k \in 1 .. Len(stack) :
    /\ ToSet(stack[k].todo) \subseteq SuccSet(graph, stack[k].bb)
    /\ \A c \in SuccSet(graph, stack[k].bb) :
         \/ c \in ToSet(stack[k].todo) \cup Headers \cup Finished
         \/ k < Len(stack) /\ c = stack[k + 1].bb

\* In the order in which the blocks of D were left, an edge leads back, or to H.
Descends(g, D, H) ==
  \E r \in [Ids -> Nat], n \in Nat :
    \A b \in D : r[b] < n /\ \A c \in SuccSet(g, b) : c \in H \/ (c \in D /\ r[c] < r[b])

\* The call on top of the stack, and what it becomes as it looks at a successor.
LEMMA TopFacts ==
  ASSUME Calls, stack # <<>>
  PROVE  LET n == Len(stack)
             t == stack[n]
         IN  /\ n \in Nat \ {0} /\ Top = t /\ t \in Frames /\ t.bb \in grey
             /\ Front(stack) \in Seq(Frames) /\ Len(Front(stack)) = n - 1
             /\ \A k \in 1 .. n - 1 : Front(stack)[k] = stack[k]
             /\ Top.todo # <<>> =>
                  /\ succ \in Ids /\ ToSet(t.todo) = {succ} \cup ToSet(Tail(t.todo))
                  /\ NextSucc \in Seq(Frames) /\ Len(NextSucc) = n
                  /\ \A k \in 1 .. n - 1 : NextSucc[k] = stack[k]
                  /\ NextSucc[n].bb = t.bb /\ NextSucc[n].todo = Tail(t.todo)
<1> DEFINE n == Len(stack)
           t == stack[n]
<1>1. /\ Front(stack) \in Seq(Frames) /\ Len(Front(stack)) = n - 1 /\ n \in Nat \ {0}
      /\ \A k \in 1 .. n - 1 : Front(stack)[k] = stack[k]
      /\ Top = t /\ t \in Frames
  BY FrontFacts DEF Calls, Top
<1>2. t.bb \in grey
  BY <1>1 DEF Calls
<1>3. ASSUME Top.todo # <<>>
      PROVE  /\ succ \in Ids /\ ToSet(t.todo) = {succ} \cup ToSet(Tail(t.todo))
             /\ NextSucc \in Seq(Frames) /\ Len(NextSucc) = n
             /\ \A k \in 1 .. n - 1 : NextSucc[k] = stack[k]
             /\ NextSucc[n].bb = t.bb /\ NextSucc[n].todo = Tail(t.todo)
  <2> DEFINE e == [t EXCEPT !.todo = Tail(@)]
  <2>1. t.todo \in Seq(Ids) /\ t.todo # <<>>
    <3> HIDE DEF t
    <3> QED
      BY <1>1, <1>3 DEF Frames
  <2>2. succ \in Ids /\ ToSet(t.todo) = {succ} \cup ToSet(Tail(t.todo)) /\ Tail(t.todo) \in Seq(Ids)
    BY <1>1, <2>1, HeadTailFacts DEF succ
  <2>3. e \in Frames /\ e.bb = t.bb /\ e.todo = Tail(t.todo)
    <3> HIDE DEF t
    <3> QED
      BY <1>1, <2>2 DEF Frames
  <2>4. NextSucc = Append(Front(stack), e)
    BY <1>1 DEF NextSucc
  <2> HIDE DEF e
  <2>5. /\ NextSucc \in Seq(Frames) /\ Len(NextSucc) = n /\ NextSucc[n] = e
        /\ \A k \in 1 .. n - 1 : NextSucc[k] = stack[k]
    BY <2>3, <2>4, ReplaceTop DEF Calls
  <2> QED
    BY <2>2, <2>3, <2>5
<1> QED
  BY <1>1, <1>2, <1>3

\* A successor is passed that is a header now, or has been left.
LEMMA PassSuccessor ==
  ASSUME Calls, Awaited, AtSuccessor, stack' = NextSucc, UNCHANGED <<graph, grey, black>>,
         Headers \subseteq Headers', succ \in Headers' \cup Finished
  PROVE  Calls' /\ Awaited'
<1> DEFINE n == Len(stack)
           t == stack[n]
<1>1. /\ n \in Nat \ {0} /\ ToSet(t.todo) = {succ} \cup ToSet(Tail(t.todo))
      /\ stack' \in Seq(Frames) /\ Len(stack') = n
      /\ \A k \in 1 .. n - 1 : stack'[k] = stack[k]
      /\ stack'[n].bb = t.bb /\ stack'[n].todo = Tail(t.todo)
  BY TopFacts DEF AtSuccessor
<1>2. \A k \in 1 .. n : k # n => k \in 1 .. n - 1
  BY <1>1
<1>3. \A k \in 1 .. n : stack'[k].bb = stack[k].bb
  BY <1>1, <1>2
<1>4. Calls'
  BY <1>1, <1>3 DEF Calls
<1>5. Finished' = Finished
  BY DEF Finished
<1>6. ASSUME NEW k \in 1 .. n
      PROVE  /\ ToSet(stack'[k].todo) \subseteq SuccSet(graph, stack'[k].bb)
             /\ \A c \in SuccSet(graph, stack'[k].bb) :
                  \/ c \in ToSet(stack'[k].todo) \cup Headers' \cup Finished
                  \/ k < n /\ c = stack'[k + 1].bb
  <2>1. CASE k = n
    <3>1. stack'[k].bb = t.bb /\ ToSet(t.todo) = {succ} \cup ToSet(stack'[k].todo)
      BY <1>1, <2>1
    <3>0. n \in 1 .. n /\ ~(n < n)
      BY <1>1
    <3>2. /\ ToSet(t.todo) \subseteq SuccSet(graph, t.bb)
          /\ \A c \in SuccSet(graph, t.bb) : c \in ToSet(t.todo) \cup Headers \cup Finished
      BY <3>0 DEF Awaited
    <3> HIDE DEF t
    <3> QED
      BY <3>1, <3>2
  <2>2. CASE k # n
    <3>1. k < n /\ k + 1 \in 1 .. n /\ stack'[k] = stack[k]
      BY <1>1, <1>2, <2>2
    <3> QED
      BY <1>3, <3>1 DEF Awaited
  <2> QED
    BY <2>1, <2>2
<1> QED
  BY <1>1, <1>4, <1>5, <1>6 DEF Awaited

\* A call for a successor is made.
LEMMA VisitCalls ==
  ASSUME WF(graph), Calls, Awaited, Visit, Headers' = Headers
  PROVE  Calls' /\ Awaited' /\ Finished' = Finished
<1> DEFINE n == Len(stack)
           t == stack[n]
<1>0. PICK x : x = succ
  OBVIOUS
<1>1. /\ n \in Nat \ {0} /\ ToSet(t.todo) = {x} \cup ToSet(Tail(t.todo)) /\ x \in Ids
      /\ NextSucc \in Seq(Frames) /\ Len(NextSucc) = n
      /\ \A k \in 1 .. n - 1 : NextSucc[k] = stack[k]
      /\ NextSucc[n].bb = t.bb /\ NextSucc[n].todo = Tail(t.todo)
  BY <1>0, TopFacts DEF Visit, AtSuccessor
<1>2. /\ stack' = Append(NextSucc, Call(x)) /\ grey' = grey \cup {x} /\ black' = black \cup {x}
      /\ graph' = graph /\ x \notin grey \cup black
  BY <1>0 DEF Visit
<1> DEFINE e == Call(x)
<1>3. e \in Frames /\ e.bb = x /\ ToSet(e.todo) = SuccSet(graph, x)
  <2>1. GetSuccessors(graph, x) \in Seq(Ids) /\ ToSet(GetSuccessors(graph, x)) = SuccSet(graph, x)
    <3>1. graph \in Graphs /\ None \in {None}
      BY DEF WF, Shape
    <3>2. /\ SuccessorsBut(graph, x, {None}) \in Seq(Ids)
          /\ ToSet(SuccessorsBut(graph, x, {None})) = SuccSet(graph, x) \ {None}
      BY <1>1, <3>1, SuccessorsFacts
    <3> QED
      BY <3>2 DEF GetSuccessors, SuccSet
  <2> QED
    BY <1>1, <2>1 DEF Call, Frames
<1> HIDE DEF e
<1>4. /\ stack' \in Seq(Frames) /\ Len(stack') = n + 1 /\ stack'[n + 1] = e
      /\ \A k \in 1 .. n : stack'[k] = NextSucc[k]
  BY <1>1, <1>2, <1>3, AppendFacts DEF e
<1>5. /\ \A k \in 1 .. n - 1 : stack'[k] = stack[k]
      /\ stack'[n].bb = t.bb /\ stack'[n].todo = Tail(t.todo)
  BY <1>1, <1>4
<1>6. /\ \A k \in 1 .. n : k # n => k \in 1 .. n - 1
      /\ \A k \in 1 .. n + 1 : k # n + 1 => k \in 1 .. n
      /\ 1 .. n + 1 = 1 .. n \cup {n + 1}
  BY <1>1
<1>7. \A k \in 1 .. n : stack'[k].bb = stack[k].bb /\ stack[k].bb \in grey
  BY <1>1, <1>5, <1>6 DEF Calls
<1>8. Finished' = Finished
  BY <1>2 DEF Finished
<1>9. x \in graph.blocks
  <2>0. n \in 1 .. n
    BY <1>1
  <2>1. x \in SuccSet(graph, t.bb) /\ t.bb \in grey
    BY <1>1, <1>7, <2>0 DEF Awaited
  <2> QED
    BY <2>1 DEF Calls, WF, Shape, NoDangling
<1>10. Calls'
  <2>1. \A i, j \in 1 .. n + 1 : stack'[i].bb = stack'[j].bb => i = j
    <3> SUFFICES ASSUME NEW i \in 1 .. n + 1, NEW j \in 1 .. n + 1, stack'[i].bb = stack'[j].bb
                 PROVE  i = j
      OBVIOUS
    <3>1. CASE i \in 1 .. n /\ j \in 1 .. n
      BY <1>7, <3>1 DEF Calls
    <3>2. CASE i = n + 1 /\ j \in 1 .. n
      BY <1>2, <1>3, <1>4, <1>7, <3>2
    <3>3. CASE j = n + 1 /\ i \in 1 .. n
      BY <1>2, <1>3, <1>4, <1>7, <3>3
    <3>4. CASE i = n + 1 /\ j = n + 1
      BY <3>4
    <3> QED
      BY <1>6, <3>1, <3>2, <3>3, <3>4
  <2>2. grey' = {stack'[k].bb : k \in 1 .. n + 1}
    <3>1. {stack'[k].bb : k \in 1 .. n + 1} = {stack'[k].bb : k \in 1 .. n} \cup {x}
      BY <1>3, <1>4, <1>6
    <3>2. {stack'[k].bb : k \in 1 .. n} = grey
      BY <1>7 DEF Calls
    <3> QED
      BY <1>2, <3>1, <3>2
  <2> QED
    BY <1>2, <1>4, <1>9, <2>1, <2>2 DEF Calls
<1>11. ASSUME NEW k \in 1 .. n + 1
       PROVE  /\ ToSet(stack'[k].todo) \subseteq SuccSet(graph, stack'[k].bb)
              /\ \A c \in SuccSet(graph, stack'[k].bb) :
                   \/ c \in ToSet(stack'[k].todo) \cup Headers \cup Finished
                   \/ k < n + 1 /\ c = stack'[k + 1].bb
  <2>1. CASE k = n + 1
    BY <1>3, <1>4, <2>1
  <2>2. CASE k = n
    <3>1. stack'[k].bb = t.bb /\ ToSet(t.todo) = {x} \cup ToSet(stack'[k].todo) /\ stack'[k + 1].bb = x
          /\ k < n + 1
      BY <1>1, <1>3, <1>4, <1>5, <2>2
    <3>2. /\ ToSet(t.todo) \subseteq SuccSet(graph, t.bb)
          /\ \A c \in SuccSet(graph, t.bb) : c \in ToSet(t.todo) \cup Headers \cup Finished
      BY <1>1, <2>2 DEF Awaited
    <3> HIDE DEF t
    <3> QED
      BY <3>1, <3>2
  <2>3. CASE k # n /\ k # n + 1
    <3>1. k < n /\ k < n + 1 /\ k \in 1 .. n /\ k + 1 \in 1 .. n /\ stack'[k] = stack[k]
      BY <1>1, <1>5, <1>6, <2>3
    <3> QED
      BY <1>7, <3>1 DEF Awaited
  <2> QED
    BY <2>1, <2>2, <2>3
<1> QED
  BY <1>2, <1>4, <1>8, <1>10, <1>11 DEF Awaited

\* A call returns: all the successors are headers, or have been left before.
LEMMA LeaveCalls ==
  ASSUME WF(graph), Calls, Awaited, Leave, Headers' = Headers, Descends(graph, Finished, Headers)
  PROVE  Calls' /\ Awaited' /\ Descends(graph, Finished', Headers)
<1> DEFINE n == Len(stack)
<1>0. PICK x : x = stack[n].bb
  OBVIOUS
<1>1. /\ n \in Nat \ {0} /\ x \in grey /\ x \in Ids /\ stack[n].todo = <<>>
      /\ stack' \in Seq(Frames) /\ Len(stack') = n - 1
      /\ \A k \in 1 .. n - 1 : stack'[k] = stack[k]
      /\ grey' = grey \ {x} /\ black' = black /\ graph' = graph
  <2>1. /\ n \in Nat \ {0} /\ Top = stack[n] /\ stack[n] \in Frames /\ x \in grey
        /\ stack' \in Seq(Frames) /\ Len(stack') = n - 1
        /\ \A k \in 1 .. n - 1 : stack'[k] = stack[k]
    BY <1>0, TopFacts DEF Leave
  <2> QED
    BY <1>0, <2>1 DEF Leave, Frames
<1>2. Finished' = Finished \cup {x} /\ x \notin Finished
  BY <1>1 DEF Finished, Calls
<1>3. \A c \in SuccSet(graph, x) : c \in Headers \cup Finished
  <2>1. n \in 1 .. n /\ ToSet(stack[n].todo) = {}
    BY <1>1 DEF ToSet
  <2>2. \A c \in SuccSet(graph, x) : c \in ToSet(stack[n].todo) \cup Headers \cup Finished \/ n < n
    BY <1>0, <2>1 DEF Awaited
  <2> QED
    BY <1>1, <2>1, <2>2
<1>4. Calls'
  <2>1. 1 .. n = 1 .. n - 1 \cup {n} /\ \A k \in 1 .. n - 1 : k \in 1 .. n /\ k # n
    BY <1>1
  <2>2. \A k \in 1 .. n - 1 : stack[k].bb # x
    BY <1>0, <2>1 DEF Calls
  <2>3. grey' = {stack'[k].bb : k \in 1 .. n - 1}
    <3>1. grey = {stack[k].bb : k \in 1 .. n - 1} \cup {x}
      BY <1>0, <2>1 DEF Calls
    <3>2. {stack[k].bb : k \in 1 .. n - 1} = {stack'[k].bb : k \in 1 .. n - 1}
      BY <1>1
    <3> QED
      BY <1>1, <2>2, <3>1, <3>2
  <2>4. \A i, j \in 1 .. n - 1 : stack'[i].bb = stack'[j].bb => i = j
    BY <1>1, <2>1 DEF Calls
  <2> HIDE DEF n
  <2> QED
    BY <1>1, <2>3, <2>4 DEF Calls
<1>5. ASSUME NEW k \in 1 .. n - 1
      PROVE  /\ ToSet(stack'[k].todo) \subseteq SuccSet(graph, stack'[k].bb)
             /\ \A c \in SuccSet(graph, stack'[k].bb) :
                  \/ c \in ToSet(stack'[k].todo) \cup Headers \cup Finished'
                  \/ k < n - 1 /\ c = stack'[k + 1].bb
  <2>1. k \in 1 .. n /\ k + 1 \in 1 .. n /\ stack'[k] = stack[k]
    BY <1>1
  <2>2. /\ ToSet(stack[k].todo) \subseteq SuccSet(graph, stack[k].bb)
        /\ \A c \in SuccSet(graph, stack[k].bb) :
             c \in ToSet(stack[k].todo) \cup Headers \cup Finished \/ c = stack[k + 1].bb
    BY <2>1 DEF Awaited
  <2>3. stack[k + 1].bb = x \/ (k < n - 1 /\ stack[k + 1] = stack'[k + 1])
    <3>1. k + 1 = n \/ k + 1 \in 1 .. n - 1
      BY <1>1
    <3>2. k + 1 \in 1 .. n - 1 => k < n - 1
      BY <1>1
    <3> QED
      BY <1>0, <1>1, <3>1, <3>2
  <2> QED
    BY <1>2, <2>1, <2>2, <2>3
<1>6. Awaited'
  BY <1>1, <1>5 DEF Awaited
<1>7. Descends(graph, Finished', Headers)
  <2>1. PICK r \in [Ids -> Nat], N \in Nat :
          \A b \in Finished : r[b] < N /\ \A c \in SuccSet(graph, b) :
                                            c \in Headers \/ (c \in Finished /\ r[c] < r[b])
    BY DEF Descends
  <2> DEFINE q == [r EXCEPT ![x] = N]
  <2>2. q \in [Ids -> Nat] /\ q[x] = N /\ \A b \in Finished : q[b] = r[b]
    BY <1>1, <1>2
  <2> HIDE DEF q
  <2>3. \A b \in Finished \cup {x} : b \in Ids => q[b] < N + 1
    BY <2>1, <2>2
  <2>4. ASSUME NEW b \in Finished \cup {x}
        PROVE  q[b] < N + 1 /\ \A c \in SuccSet(graph, b) :
                                 c \in Headers \/ (c \in Finished \cup {x} /\ q[c] < q[b])
    <3>1. CASE b = x
      BY <1>3, <2>1, <2>2, <3>1
    <3>2. CASE b \in Finished
      <4>1. \A c \in Finished : q[c] = r[c]
        BY <2>2
      <4>2. q[b] < N /\ q[b] \in Nat
        <5>1. r[b] < N /\ q[b] = r[b]
          BY <2>1, <2>2, <3>2
        <5>2. b \in Ids
          BY <3>2 DEF Finished, Calls, WF, Shape, Graphs
        <5> QED
          BY <2>2, <5>1, <5>2
      <4>3. \A c \in SuccSet(graph, b) : c \in Headers \/ (c \in Finished /\ r[c] < r[b])
        BY <2>1, <3>2
      <4> QED
        BY <2>1, <2>2, <3>2, <4>1, <4>2, <4>3
    <3> QED
      BY <3>1, <3>2
  <2>5. N + 1 \in Nat
    OBVIOUS
  <2> QED
    BY <1>2, <2>2, <2>4, <2>5 DEF Descends
<1> QED
  BY <1>4, <1>6, <1>7

\* What holds while the back edges are collected.
Collecting ==
  /\ graph = given
  /\ Calls /\ Awaited /\ HeadersOnly
  /\ Headers \ {None} \subseteq black
  /\ Descends(graph, Finished, Headers)

\* The edges that lead to a block with GREY go to headers.
LEMMA BackEdgeStep ==
  ASSUME WF(graph), LoopsKnown, Collecting, BackEdge
  PROVE  LoopsKnown' /\ Collecting'
<1> DEFINE n == Len(stack)
<1>0. PICK b, c : b = Top.bb /\ c = succ
  OBVIOUS
<1>1. /\ AtSuccessor /\ c \in grey /\ stack' = NextSucc
      /\ UNCHANGED <<graph, grey, black, given, id_to_dfs_idx_>>
      /\ Noted(b, c)
  BY <1>0 DEF BackEdge, Noted, blockLoops
<1>2. /\ graph = given /\ Calls /\ Awaited /\ HeadersOnly /\ Headers \ {None} \subseteq black
      /\ Descends(graph, Finished, Headers)
  BY DEF Collecting
<1>3. c \in graph.blocks /\ b \in graph.blocks /\ b \in graph.preds[c] /\ given.blocks \subseteq Ids
  <2>1. /\ n \in Nat \ {0} /\ Top = stack[n] /\ stack[n].bb \in grey
        /\ ToSet(stack[n].todo) = {c} \cup ToSet(Tail(stack[n].todo))
    BY <1>0, <1>1, <1>2, TopFacts DEF AtSuccessor
  <2>2. n \in 1 .. n
    BY <2>1
  <2>3. b = stack[n].bb
    BY <1>0, <2>1
  <2>4. c \in SuccSet(graph, b)
    BY <1>2, <2>1, <2>2, <2>3 DEF Awaited
  <2>5. b \in graph.blocks /\ c \in graph.blocks
    BY <1>1, <1>2, <2>1, <2>3 DEF Calls
  <2> QED
    BY <1>2, <2>4, <2>5 DEF WF, Shape, Symmetric, Graphs
<1>4. LoopsKnown' /\ HeadersOnly' /\ Headers' = Headers \cup {c}
  BY <1>1, <1>2, <1>3, NotedLoops
<1>5. Calls' /\ Awaited'
  BY <1>0, <1>1, <1>2, <1>4, PassSuccessor
<1>6. Descends(graph, Finished, Headers \cup {c})
  <2>1. PICK r \in [Ids -> Nat], N \in Nat :
          \A x \in Finished : r[x] < N /\ \A y \in SuccSet(graph, x) :
                                            y \in Headers \/ (y \in Finished /\ r[y] < r[x])
    BY <1>2 DEF Descends
  <2> QED
    BY <2>1 DEF Descends
<1>7. Descends(graph, Finished, Headers)'
  BY <1>1, <1>4, <1>6 DEF Finished
<1>8. Headers' \ {None} \subseteq black'
  BY <1>1, <1>2, <1>4 DEF Calls
<1> QED
  BY <1>1, <1>2, <1>4, <1>5, <1>7, <1>8 DEF Collecting

\* What an analysis step leaves of the loops when it leaves the variables.
LEMMA SameLoops ==
  ASSUME UNCHANGED <<graph, loops_, loop_, given>>
  PROVE  /\ LoopIds' = LoopIds /\ Headers' = Headers /\ (HeadersOwn => HeadersOwn')
         /\ (BackEdgesLead => BackEdgesLead') /\ (HeadersOnly => HeadersOnly')
         /\ (LoopsKnown /\ id_to_dfs_idx_' \in Seq(Ids) => LoopsKnown')
         /\ \A rest : EnteredBut(rest) => EnteredBut(rest)'
<1>1. LoopIds' = LoopIds
  BY DEF LoopIds
<1>2. Headers' = Headers
  BY <1>1 DEF Headers
<1>3. (HeadersOwn => HeadersOwn') /\ (BackEdgesLead => BackEdgesLead') /\ (HeadersOnly => HeadersOnly')
  BY <1>1 DEF HeadersOwn, BackEdgesLead, HeadersOnly
<1>4. LoopsKnown /\ id_to_dfs_idx_' \in Seq(Ids) => LoopsKnown'
  BY <1>3 DEF LoopsKnown, LoopsTyped
<1>5. ASSUME NEW rest, EnteredBut(rest) PROVE EnteredBut(rest)'
  BY <1>1, <1>5 DEF EnteredBut, Entered, Natural
<1> QED
  BY <1>1, <1>2, <1>3, <1>4, <1>5

\* When the first call returns, no walk goes on for ever without a header.
LEMMA CollectStep ==
  ASSUME WF(graph), LoopsKnown, Collecting, SkipBlack \/ Visit \/ Leave
  PROVE  /\ LoopsKnown' /\ UNCHANGED <<graph, loops_, loop_, given>>
         /\ phase' = phase => Collecting'
         /\ phase' # phase => phase' = "SplitBackEdges" /\ CyclesCut(graph, Headers)'
                              /\ todo' = [l \in LoopIds |-> l]
<1>1. UNCHANGED <<graph, loops_, loop_, given>>
  BY DEF SkipBlack, Visit, Leave, blockLoops
<1>2. /\ graph = given /\ Calls /\ Awaited /\ HeadersOnly /\ Headers \ {None} \subseteq black
      /\ Descends(graph, Finished, Headers)
  BY DEF Collecting
<1>3. LoopIds' = LoopIds /\ Headers' = Headers /\ HeadersOnly'
  BY <1>1, <1>2, SameLoops
<1>4. id_to_dfs_idx_' \in Seq(Ids)
  <2>1. id_to_dfs_idx_ \in Seq(Ids)
    BY DEF LoopsKnown, LoopsTyped
  <2>2. CASE Visit
    <3>1. succ \in Ids
      BY <1>2, <2>2, TopFacts DEF Visit, AtSuccessor
    <3> QED
      BY <2>1, <2>2, <3>1 DEF Visit
  <2>3. CASE SkipBlack \/ Leave
    BY <2>1, <2>3 DEF SkipBlack, Leave
  <2> QED
    BY <2>2, <2>3
<1>5. LoopsKnown'
  BY <1>1, <1>4, SameLoops
<1>6. CASE SkipBlack
  <2>1. AtSuccessor /\ stack' = NextSucc /\ UNCHANGED <<phase, grey, black>> /\ succ \in Finished
    BY <1>6 DEF SkipBlack, Finished
  <2>2. Calls' /\ Awaited'
    BY <1>1, <1>2, <1>3, <2>1, PassSuccessor
  <2> QED
    BY <1>1, <1>2, <1>3, <1>5, <2>1, <2>2 DEF Collecting, Finished
<1>7. CASE Visit
  <2>1. Calls' /\ Awaited' /\ Finished' = Finished
    BY <1>2, <1>3, <1>7, VisitCalls
  <2>2. phase' = phase /\ black \subseteq black'
    BY <1>7 DEF Visit
  <2> QED
    BY <1>1, <1>2, <1>3, <1>5, <2>1, <2>2 DEF Collecting
<1>8. CASE Leave
  <2>1. Calls' /\ Awaited' /\ Descends(graph, Finished', Headers)
    BY <1>2, <1>3, <1>8, LeaveCalls
  <2>2. /\ black' = black /\ stack' = Front(stack) /\ phase = "CollectBackEdges" /\ stack # <<>>
        /\ IF Len(stack) = 1 THEN phase' = "SplitBackEdges" /\ todo' = [l \in LoopIds |-> l]
           ELSE phase' = phase
    BY <1>8 DEF Leave
  <2>3. Collecting'
    BY <1>1, <1>2, <1>3, <2>1, <2>2 DEF Collecting
  <2>4. ASSUME Len(stack) = 1 PROVE CyclesCut(graph, Headers)
    <3>1. Len(stack') = 0
      <4>1. Len(Front(stack)) = Len(stack) - 1
        BY <1>2, <2>2, TopFacts
      <4> QED
        BY <2>2, <2>4, <4>1
    <3>2. grey' = {}
      BY <2>1, <3>1 DEF Calls
    <3>3. Finished' = black
      BY <2>2, <3>2 DEF Finished
    <3>4. PICK r \in [Ids -> Nat], N \in Nat :
            \A b \in black : r[b] < N /\ \A c \in SuccSet(graph, b) :
                                           c \in Headers \/ (c \in black /\ r[c] < r[b])
      BY <2>1, <3>3 DEF Descends
    <3>5. \A b \in black : \A c \in SuccSet(graph, b) : c \in black /\ (c \in Headers \/ r[c] < r[b])
      <4>1. \A b : None \notin SuccSet(graph, b)
        BY DEF SuccSet
      <4> QED
        BY <1>2, <3>4, <4>1
    <3>6. black \in SUBSET graph.blocks /\ Start \in black
      BY <1>2 DEF Calls
    <3> QED
      BY <1>2, <3>4, <3>5, <3>6 DEF CyclesCut
  <2>5. CASE Len(stack) = 1
    BY <1>1, <1>3, <1>5, <2>2, <2>4, <2>5
  <2>6. CASE Len(stack) # 1
    BY <1>1, <1>5, <2>2, <2>3, <2>6
  <2> QED
    BY <2>5, <2>6
<1> QED
  BY <1>6, <1>7, <1>8

-----------------------------------------------------------------------------
\* The fields of a Loop that PopulateLoops and BuildLoopTree leave alone.
LoopFields == {"header", "pre_header", "back_edges", "is_reducible"}

\* The fields of the loops that are there whatever happens to the others.
LoopsHaveFields == \A l \in LoopIds : LoopFields \subseteq DOMAIN loops_[l]

\* The invariant: each slot leads where it led; while edges that lead back are
\* collected, what has been left leads down, to a header, or to what is being visited;
\* from then on the headers cut every cycle, and each is entered through its
\* pre-header once it has one.
LoopsIInv ==
  phase # "layout" =>
    /\ WaysLead(given, graph, graph.blocks \ given.blocks)
    /\ phase \in {"CollectBackEdges", "SplitBackEdges", "AddPreHeaders"} => LoopsKnown
    /\ phase = "CollectBackEdges" => Collecting
    /\ phase \in {"SplitBackEdges", "AddPreHeaders", "PopulateLoops", "Check", "done"}
       => CyclesCut(graph, Headers)
    /\ phase = "SplitBackEdges" => todo \in Seq(LoopIds)
    /\ phase = "AddPreHeaders" => todo \in Seq(LoopIds \ {Root}) /\ EnteredBut(todo)
    /\ phase \in {"PopulateLoops", "Check", "done"} => LoopsHaveFields /\ EnteredBut(<<>>)

\* There is at least the root.
LEMMA LoopIdsFacts ==
  ASSUME LoopsKnown
  PROVE  /\ LoopIds = 1 .. Len(loops_) /\ Len(loops_) \in Nat /\ Len(loops_) # 0
         /\ \A l \in LoopIds : loops_[l] \in LoopRecords
<1>1. loops_ \in Seq(LoopRecords) /\ Root \in LoopIds
  BY DEF LoopsKnown, LoopsTyped, HeadersOwn
<1> QED
  BY <1>1 DEF LoopIds, Root

\* AddPreHeaders has all loops before it, whatever is reducible now.
LEMMA RecalculateStep ==
  ASSUME LoopsKnown, RecalculateLoopsReducibility
  PROVE  /\ LoopsKnown' /\ Headers' = Headers /\ UNCHANGED <<graph, given>>
         /\ todo' \in Seq(LoopIds' \ {Root}) /\ EnteredBut(todo)'
<1> DEFINE n == Len(loops_)
<1>1. /\ LoopIds = 1 .. n /\ n \in Nat /\ n # 0
      /\ \A l \in LoopIds : loops_[l] \in LoopRecords
  BY LoopIdsFacts
<1>2. /\ UNCHANGED <<graph, given, loop_, id_to_dfs_idx_>> /\ todo' = Tail([l \in LoopIds |-> l])
      /\ loops_' = loops_ \/ loops_' = [l \in LoopIds |-> CalculateReducibility(dominators', loops_[l])]
  BY DEF RecalculateLoopsReducibility, collecting, blockLoops, Recalculated, LoopIds
<1>3. LoopsTyped /\ HeadersOwn /\ BackEdgesLead
  BY DEF LoopsKnown
<1>4. /\ LoopIds' = LoopIds /\ loops_' \in Seq(LoopRecords)
      /\ \A l \in LoopIds : /\ loops_'[l].header = loops_[l].header
                            /\ loops_'[l].back_edges = loops_[l].back_edges
  <2>1. CASE loops_' = loops_
    BY <1>3, <2>1 DEF LoopIds, LoopsTyped
  <2>2. CASE loops_' = [l \in LoopIds |-> CalculateReducibility(dominators', loops_[l])]
    <3>1. ASSUME NEW l \in LoopIds
          PROVE  /\ loops_'[l] \in LoopRecords /\ loops_'[l].header = loops_[l].header
                 /\ loops_'[l].back_edges = loops_[l].back_edges
      <4>1. loops_'[l] = CalculateReducibility(dominators', loops_[l])
        BY <2>2
      <4>2. Start \in Ids
        BY FlowGraphAssumption
      <4>3. \A d : /\ CalculateReducibility(d, loops_[l]) \in LoopRecords
                   /\ CalculateReducibility(d, loops_[l]).header = loops_[l].header
                   /\ CalculateReducibility(d, loops_[l]).back_edges = loops_[l].back_edges
        BY <1>1, <4>2, LoopFieldFacts
      <4> QED
        BY <4>1, <4>3
    <3>2. DOMAIN loops_' = LoopIds
      BY <2>2
    <3>3. loops_' \in Seq(LoopRecords)
      <4>1. loops_' = [l \in 1 .. n |-> loops_'[l]]
        BY <1>1, <2>2
      <4>2. loops_' \in [1 .. n -> LoopRecords]
        BY <1>1, <3>1, <4>1
      <4>3. \A j \in Nat : \A S : [1 .. j -> S] \subseteq Seq(S)
        OBVIOUS
      <4> QED
        BY <1>1, <4>2, <4>3
    <3> QED
      BY <3>1, <3>2, <3>3 DEF LoopIds
  <2> QED
    BY <1>2, <2>1, <2>2
<1>5. Headers' = Headers
  BY <1>4 DEF Headers
<1>6. LoopsKnown'
  <2>1. LoopsTyped'
    BY <1>2, <1>3, <1>4 DEF LoopsTyped
  <2>2. HeadersOwn'
    BY <1>2, <1>3, <1>4 DEF HeadersOwn
  <2>3. BackEdgesLead'
    BY <1>2, <1>3, <1>4 DEF BackEdgesLead
  <2> QED
    BY <2>1, <2>2, <2>3 DEF LoopsKnown
<1>7. todo' \in Seq(LoopIds' \ {Root}) /\ ToSet(todo') = LoopIds' \ {Root}
  BY <1>1, <1>2, <1>4, CountUp DEF Root
<1>8. EnteredBut(todo)'
  BY <1>7 DEF EnteredBut, Natural
<1> QED
  BY <1>2, <1>5, <1>6, <1>7, <1>8

\* The loops are put in order; their headers are what they were.
LEMMA OrderStep ==
  ASSUME LoopsHaveFields, EnteredBut(<<>>),
         PopulateLoop \/ DropIrreducible \/ PassNoHeader \/ BuildLoopTree \/ Check
  PROVE  LoopsHaveFields' /\ EnteredBut(<<>>)' /\ Headers' = Headers /\ UNCHANGED <<graph, given>>
<1>1. UNCHANGED <<graph, given>>
  BY DEF PopulateLoop, DropIrreducible, PassNoHeader, BuildLoopTree, Check
<1>2. /\ LoopIds' = LoopIds
      /\ \A l \in LoopIds : \/ loops_'[l] = loops_[l]
                            \/ \E B : loops_'[l] = [loops_[l] EXCEPT !.blocks = B]
                            \/ \E o : loops_'[l] = [loops_[l] EXCEPT !.outer_loop = o]
  <2>1. CASE PopulateLoop
    <3> DEFINE cur == loop_[Head(todo)]
               S == Searched(loops_[cur])
               free == {b \in S : loop_[b] = None}
               met == {loop_[b] : b \in S} \ {None, cur}
    <3>1. loops_' = [l \in LoopIds |->
                         CASE l = cur -> [loops_[l] EXCEPT !.blocks = @ \cup free]
                           [] l \in met /\ loops_[l].outer_loop = None ->
                                [loops_[l] EXCEPT !.outer_loop = cur]
                           [] OTHER -> loops_[l]]
      BY <2>1, Zenon DEF PopulateLoop
    <3> HIDE DEF cur, S, free, met
    <3>2. LoopIds' = LoopIds
      BY <3>1 DEF LoopIds
    <3>3. ASSUME NEW l \in LoopIds
          PROVE  \/ loops_'[l] = loops_[l]
                 \/ loops_'[l] = [loops_[l] EXCEPT !.blocks = @ \cup free]
                 \/ loops_'[l] = [loops_[l] EXCEPT !.outer_loop = cur]
      BY <3>1
    <3> QED
      BY <3>2, <3>3, Zenon
  <2>2. CASE BuildLoopTree
    <3>1. PICK free :
            loops_' = [l \in LoopIds |->
                       IF l = Root THEN [loops_[l] EXCEPT !.blocks = @ \cup free]
                       ELSE IF loops_[l].outer_loop = None
                            THEN [loops_[l] EXCEPT !.outer_loop = Root]
                            ELSE loops_[l]]
      BY <2>2, Zenon DEF BuildLoopTree
    <3>2. LoopIds' = LoopIds
      BY <3>1 DEF LoopIds
    <3>3. ASSUME NEW l \in LoopIds
          PROVE  \/ loops_'[l] = loops_[l]
                 \/ loops_'[l] = [loops_[l] EXCEPT !.blocks = @ \cup free]
                 \/ loops_'[l] = [loops_[l] EXCEPT !.outer_loop = Root]
      BY <3>1
    <3> QED
      BY <3>2, <3>3, Zenon
  <2>3. CASE DropIrreducible \/ PassNoHeader \/ Check
    BY <2>3 DEF DropIrreducible, PassNoHeader, Check, LoopIds
  <2> QED
    BY <2>1, <2>2, <2>3
<1>3. ASSUME NEW l \in LoopIds
      PROVE  /\ LoopFields \subseteq DOMAIN loops_'[l]
             /\ loops_'[l].header = loops_[l].header
             /\ loops_'[l].pre_header = loops_[l].pre_header
             /\ loops_'[l].back_edges = loops_[l].back_edges
             /\ loops_'[l].is_reducible = loops_[l].is_reducible
  <2>1. LoopFields \subseteq DOMAIN loops_[l]
    BY DEF LoopsHaveFields
  <2> QED
    BY <1>2, <2>1 DEF LoopFields
<1>4. Headers' = Headers
  BY <1>2, <1>3 DEF Headers
<1>5. LoopsHaveFields'
  BY <1>2, <1>3 DEF LoopsHaveFields
<1>6. EnteredBut(<<>>)'
  <2> SUFFICES ASSUME NEW l \in Natural', l \notin ToSet(<<>>) PROVE Entered(l)'
    BY DEF EnteredBut
  <2>1. l \in Natural
    <3>1. l \in LoopIds /\ l # Root /\ loops_'[l].is_reducible
      BY <1>2 DEF Natural
    <3>2. loops_[l].is_reducible
      BY <1>3, <3>1, Zenon
    <3> QED
      BY <3>1, <3>2 DEF Natural
  <2>2. Entered(l) /\ l \in LoopIds
    BY <2>1 DEF EnteredBut, Natural
  <2> QED
    BY <1>1, <1>3, <2>2 DEF Entered
<1> QED
  BY <1>1, <1>4, <1>5, <1>6

\* The invariant is about the variables of the analysis only.
LEMMA SameInvariant == ASSUME LoopsIInv, UNCHANGED vars PROVE LoopsIInv'
<1>1. UNCHANGED <<graph, phase, loops_, loop_, given, todo, stack, grey, black, id_to_dfs_idx_>>
  BY DEF vars, collecting, blockLoops
<1>2. Headers' = Headers /\ LoopIds' = LoopIds
  BY <1>1 DEF Headers, LoopIds
<1>3. LoopsKnown <=> LoopsKnown'
  BY <1>1, <1>2 DEF LoopsKnown, LoopsTyped, HeadersOwn, BackEdgesLead
<1>4. Collecting <=> Collecting'
  BY <1>1, <1>2 DEF Collecting, Calls, Awaited, HeadersOnly, Finished
<1>5. \A rest : EnteredBut(rest) => EnteredBut(rest)'
  BY <1>1, SameLoops
<1>6. EnteredBut(todo) => EnteredBut(todo)'
  <2>1. PICK rest : rest = todo
    OBVIOUS
  <2>2. EnteredBut(rest) => EnteredBut(rest)'
    BY <1>5
  <2> QED
    BY <1>1, <2>1, <2>2 DEF EnteredBut
<1>7. LoopsHaveFields <=> LoopsHaveFields'
  BY <1>1, <1>2 DEF LoopsHaveFields
<1> QED
  BY <1>1, <1>2, <1>3, <1>4, <1>5, <1>6, <1>7 DEF LoopsIInv

\* Every step of the analysis keeps the invariant.
LEMMA AnalysisStep ==
  ASSUME WF(graph), LoopsIInv, Next, phase # "layout", phase' # "layout"
  PROVE  LoopsIInv'
<1> DEFINE Way == WaysLead(given, graph, graph.blocks \ given.blocks)
<1>1. /\ Way
      /\ phase \in {"CollectBackEdges", "SplitBackEdges", "AddPreHeaders"} => LoopsKnown
      /\ phase = "CollectBackEdges" => Collecting
      /\ phase \in {"SplitBackEdges", "AddPreHeaders", "PopulateLoops", "Check", "done"}
         => CyclesCut(graph, Headers)
      /\ phase = "SplitBackEdges" => todo \in Seq(LoopIds)
      /\ phase = "AddPreHeaders" => todo \in Seq(LoopIds \ {Root}) /\ EnteredBut(todo)
      /\ phase \in {"PopulateLoops", "Check", "done"} => LoopsHaveFields /\ EnteredBut(<<>>)
  BY DEF LoopsIInv
<1>2. UNCHANGED <<graph, given>> => Way'
  BY <1>1
<1> HIDE DEF Way
<1>3. CASE BackEdge
  <2>1. phase = "CollectBackEdges" /\ phase' = phase /\ UNCHANGED <<graph, given>>
    BY <1>3 DEF BackEdge, AtSuccessor
  <2>2. LoopsKnown' /\ Collecting'
    BY <1>1, <1>3, <2>1, BackEdgeStep
  <2> QED
    BY <1>2, <2>1, <2>2 DEF LoopsIInv, Way
<1>4. CASE SkipBlack \/ Visit \/ Leave
  <2>1. phase = "CollectBackEdges"
    BY <1>4 DEF SkipBlack, Visit, Leave, AtSuccessor
  <2>2. /\ LoopsKnown' /\ UNCHANGED <<graph, loops_, loop_, given>>
        /\ phase' = phase => Collecting'
        /\ phase' # phase => phase' = "SplitBackEdges" /\ CyclesCut(graph, Headers)'
                             /\ todo' = [l \in LoopIds |-> l]
    BY <1>1, <1>4, <2>1, CollectStep
  <2>3. ASSUME todo' = [l \in LoopIds |-> l] PROVE todo' \in Seq(LoopIds')
    <3>1. LoopIds = 1 .. Len(loops_) /\ Len(loops_) \in Nat /\ Len(loops_) # 0
      BY <1>1, <2>1, LoopIdsFacts
    <3>2. LoopIds' = LoopIds
      BY <2>2 DEF LoopIds
    <3> QED
      BY <2>3, <3>1, <3>2, CountUp
  <2> QED
    BY <1>2, <2>1, <2>2, <2>3 DEF LoopsIInv, Way
<1>5. CASE SplitBackEdge
  <2>1. phase = "SplitBackEdges" /\ phase' = phase /\ todo # <<>> /\ todo' = Tail(todo) /\ given' = given
    BY <1>5 DEF SplitBackEdge
  <2>2. /\ LoopsKnown' /\ CyclesCut(graph', Headers') /\ LoopIds \subseteq LoopIds'
        /\ \A A : WaysLead(A, graph, graph.blocks \ A.blocks)
                  => WaysLead(A, graph', graph'.blocks \ A.blocks)
    BY <1>1, <1>5, <2>1, SplitStep
  <2>3. Way'
    <3>1. WaysLead(given, graph', graph'.blocks \ given.blocks)
      BY <1>1, <2>2 DEF Way
    <3> QED
      BY <2>1, <3>1 DEF Way
  <2>4. todo' \in Seq(LoopIds')
    <3>1. Tail(todo) \in Seq(LoopIds)
      BY <1>1, <2>1, HeadTailFacts
    <3>2. Seq(LoopIds) \subseteq Seq(LoopIds')
      BY <2>2
    <3> QED
      BY <2>1, <3>1, <3>2
  <2> QED
    BY <2>1, <2>2, <2>3, <2>4 DEF LoopsIInv, Way
<1>6. CASE KeepBackEdges \/ NoPreHeader
  <2>1. /\ phase \in {"SplitBackEdges", "AddPreHeaders"} /\ phase' = phase
        /\ todo # <<>> /\ todo' = Tail(todo)
        /\ UNCHANGED <<graph, loops_, loop_, given, id_to_dfs_idx_>>
        /\ phase = "AddPreHeaders" => ~loops_[Head(todo)].is_reducible
    BY <1>6 DEF KeepBackEdges, NoPreHeader, blockLoops, collecting
  <2>2. LoopIds' = LoopIds /\ Headers' = Headers /\ LoopsKnown'
    <3>1. id_to_dfs_idx_' \in Seq(Ids) /\ LoopsKnown
      BY <1>1, <2>1 DEF LoopsKnown, LoopsTyped
    <3> QED
      BY <2>1, <3>1, SameLoops
  <2>3. CyclesCut(graph, Headers)'
    BY <1>1, <2>1, <2>2
  <2>4. CASE phase = "SplitBackEdges"
    <3>1. todo' \in Seq(LoopIds')
      BY <1>1, <2>1, <2>2, <2>4, HeadTailFacts
    <3> QED
      BY <1>2, <2>1, <2>2, <2>3, <2>4, <3>1 DEF LoopsIInv, Way
  <2>5. CASE phase = "AddPreHeaders"
    <3>1. todo' \in Seq(LoopIds' \ {Root}) /\ ToSet(todo) = {Head(todo)} \cup ToSet(todo')
      BY <1>1, <2>1, <2>2, <2>5, HeadTailFacts
    <3>2. EnteredBut(todo')
      <4> SUFFICES ASSUME NEW l \in Natural, l \notin ToSet(todo') PROVE Entered(l)
        BY DEF EnteredBut
      <4>1. l # Head(todo)
        BY <2>1, <2>5 DEF Natural
      <4>2. l \notin ToSet(todo)
        BY <3>1, <4>1
      <4> QED
        BY <1>1, <2>5, <4>2 DEF EnteredBut
    <3>3. EnteredBut(todo)'
      <4>1. PICK rest : rest = todo'
        OBVIOUS
      <4>2. EnteredBut(rest)'
        BY <2>1, <3>2, <4>1, SameLoops
      <4> QED
        BY <4>1, <4>2 DEF EnteredBut
    <3> QED
      BY <1>2, <2>1, <2>2, <2>3, <2>5, <3>1, <3>3 DEF LoopsIInv, Way
  <2> QED
    BY <2>1, <2>4, <2>5
<1>7. CASE ReadMoved
  <2>1. phase' = "undefined" /\ UNCHANGED <<graph, given>>
    BY <1>7 DEF ReadMoved
  <2> QED
    BY <1>2, <2>1 DEF LoopsIInv, Way
<1>8. CASE RecalculateLoopsReducibility
  <2>1. phase = "SplitBackEdges" /\ phase' = "AddPreHeaders"
    BY <1>8 DEF RecalculateLoopsReducibility
  <2>2. /\ LoopsKnown' /\ Headers' = Headers /\ UNCHANGED <<graph, given>>
        /\ todo' \in Seq(LoopIds' \ {Root}) /\ EnteredBut(todo)'
    BY <1>1, <1>8, <2>1, RecalculateStep
  <2>3. CyclesCut(graph, Headers)'
    BY <1>1, <2>1, <2>2
  <2> QED
    BY <1>2, <2>1, <2>2, <2>3 DEF LoopsIInv, Way
<1>9. CASE AddPreHeader
  <2>1. phase = "AddPreHeaders" /\ phase' = phase /\ todo # <<>> /\ todo' = Tail(todo) /\ given' = given
    BY <1>9 DEF AddPreHeader
  <2>2. given.blocks \subseteq graph.blocks
    BY <1>1 DEF Way, WaysLead
  <2>3. /\ LoopsKnown' /\ CyclesCut(graph', Headers') /\ LoopIds' = LoopIds
        /\ EnteredBut(todo)'
        /\ \A A : WaysLead(A, graph, graph.blocks \ A.blocks)
                  => WaysLead(A, graph', graph'.blocks \ A.blocks)
    BY <1>1, <1>9, <2>1, <2>2, AddPreHeaderStep
  <2>4. Way'
    <3>1. WaysLead(given, graph', graph'.blocks \ given.blocks)
      BY <1>1, <2>3 DEF Way
    <3> QED
      BY <2>1, <3>1 DEF Way
  <2>5. todo' \in Seq(LoopIds' \ {Root})
    BY <1>1, <2>1, <2>3, HeadTailFacts
  <2> QED
    BY <2>1, <2>3, <2>4, <2>5 DEF LoopsIInv, Way
<1>10. CASE PreHeadersDone
  <2>1. /\ phase = "AddPreHeaders" /\ phase' = "PopulateLoops" /\ todo = <<>>
        /\ UNCHANGED <<graph, loops_, loop_, given>>
    BY <1>10 DEF PreHeadersDone, blockLoops
  <2>2. LoopsHaveFields
    <3>1. \A l \in LoopIds : loops_[l] \in LoopRecords
      BY <1>1, <2>1, LoopIdsFacts
    <3> QED
      BY <3>1 DEF LoopsHaveFields, LoopFields, LoopRecords
  <2>3. LoopsHaveFields'
    BY <2>1, <2>2 DEF LoopsHaveFields, LoopIds
  <2>4. EnteredBut(<<>>)' /\ Headers' = Headers
    BY <1>1, <2>1, SameLoops
  <2>5. CyclesCut(graph, Headers)'
    BY <1>1, <2>1, <2>4
  <2> QED
    BY <1>2, <2>1, <2>3, <2>4, <2>5 DEF LoopsIInv, Way
<1>11. CASE PopulateLoop \/ DropIrreducible \/ PassNoHeader \/ BuildLoopTree \/ Check
  <2>1. phase \in {"PopulateLoops", "Check"} /\ phase' \in {"PopulateLoops", "Check", "done", "aborted"}
    BY <1>11 DEF PopulateLoop, DropIrreducible, PassNoHeader, BuildLoopTree, Check
  <2>2. LoopsHaveFields' /\ EnteredBut(<<>>)' /\ Headers' = Headers /\ UNCHANGED <<graph, given>>
    BY <1>1, <1>11, <2>1, OrderStep
  <2>3. CyclesCut(graph, Headers)'
    BY <1>1, <2>1, <2>2
  <2> QED
    BY <1>2, <2>1, <2>2, <2>3 DEF LoopsIInv, Way
<1>12. CASE Terminated
  <2>1. UNCHANGED vars
    BY <1>12 DEF Terminated
  <2> QED
    BY <2>1, SameInvariant
<1> QED
  BY <1>3, <1>4, <1>5, <1>6, <1>7, <1>8, <1>9, <1>10, <1>11, <1>12 DEF Next

\* A graph keeps what leads where as long as nothing is done to it.
LEMMA GivenWays ==
  ASSUME WF(graph), given = graph
  PROVE  WaysLead(given, graph, graph.blocks \ given.blocks)
<1> DEFINE d == [c \in Ids \cup {None} |-> c]
           r == [c \in Ids \cup {None} |-> 0]
<1>1. graph.blocks \ given.blocks = {}
  OBVIOUS
<1>2. graph.blocks \subseteq Ids /\ \A b \in graph.blocks, s \in Slots : graph.succs[b][s] \in Ids \cup {None}
  BY DEF WF, Shape, Graphs
<1>3. Ways(given, graph, {}, d, r)
  <2>1. r \in [Ids \cup {None} -> Nat]
    OBVIOUS
  <2>2. \A c \in given.blocks \cup {None} : d[c] = c /\ r[c] = 0
    BY <1>2
  <2>3. \A b \in given.blocks, s \in Slots : d[graph.succs[b][s]] = given.succs[b][s]
    BY <1>2
  <2> HIDE DEF d, r
  <2> QED
    BY <2>1, <2>2, <2>3 DEF Ways
<1> HIDE DEF d, r
<1>4. \E e, q : Ways(given, graph, {}, e, q)
  BY <1>3
<1> QED
  BY <1>1, <1>4 DEF WaysLead

\* The invariant holds when the analysis starts.
LEMMA LoopsInit ==
  ASSUME Init, WF(graph), Start \in graph.blocks
  PROVE  LoopsIInv
<1>1. /\ given = graph /\ phase = "CollectBackEdges" /\ stack = <<Call(Start)>>
      /\ grey = {Start} /\ black = {Start} /\ id_to_dfs_idx_ = <<Start>>
      /\ loops_ = <<NullLoop>> /\ loop_ = [b \in Ids |-> None]
  BY DEF Init
<1>2. graph \in Graphs /\ Start \in Ids /\ graph.blocks \subseteq Ids
  BY DEF WF, Shape, Graphs
<1>3. LoopIds = {1} /\ loops_[1] = NullLoop /\ Headers = {None}
  <2>1. 1 .. 1 = {1}
    OBVIOUS
  <2>2. LoopIds = 1 .. 1 /\ loops_[1] = NullLoop
    BY <1>1 DEF LoopIds
  <2> QED
    BY <2>1, <2>2, NullLoopFacts DEF Headers
<1>4. LoopsKnown
  <2>1. loops_ \in Seq(LoopRecords) /\ id_to_dfs_idx_ \in Seq(Ids)
    BY <1>1, <1>2, NullLoopFacts
  <2>2. loop_ \in [Ids -> Nat \cup {None}]
    BY <1>1
  <2> QED
    BY <1>3, <2>1, <2>2, NullLoopFacts DEF LoopsKnown, LoopsTyped, HeadersOwn, BackEdgesLead, Root
<1>5. Collecting
  <2> DEFINE t == Call(Start)
  <2>1. t \in Frames /\ t.bb = Start /\ ToSet(t.todo) = SuccSet(graph, Start)
    <3> DEFINE list == GetSuccessors(graph, Start)
    <3>1. list \in Seq(Ids) /\ ToSet(list) = SuccSet(graph, Start) \ {None}
      BY <1>2, SuccessorsFacts DEF GetSuccessors
    <3>2. None \notin SuccSet(graph, Start)
      BY DEF SuccSet
    <3>3. t = [bb |-> Start, todo |-> list]
      BY DEF Call
    <3> HIDE DEF t, list
    <3>4. t \in Frames /\ t.bb = Start /\ t.todo = list
      BY <1>2, <3>1, <3>3 DEF Frames
    <3> QED
      BY <3>1, <3>2, <3>4
  <2> HIDE DEF t
  <2>2. stack \in Seq(Frames) /\ Len(stack) = 1 /\ stack[1] = t /\ 1 .. 1 = {1}
    BY <1>1, <2>1 DEF t
  <2>3. Calls
    <3>1. \A i, j \in 1 .. Len(stack) : stack[i].bb = stack[j].bb => i = j
      BY <2>2
    <3>2. {stack[k].bb : k \in 1 .. Len(stack)} = {Start}
      BY <2>1, <2>2
    <3> QED
      BY <1>1, <2>2, <3>1, <3>2 DEF Calls
  <2>4. Awaited
    BY <2>1, <2>2 DEF Awaited
  <2>5. HeadersOnly /\ Headers \ {None} \subseteq black
    BY <1>1, <1>3 DEF HeadersOnly
  <2>6. Descends(graph, Finished, Headers)
    <3>1. Finished = {}
      BY <1>1 DEF Finished
    <3>2. [b \in Ids |-> 0] \in [Ids -> Nat] /\ 0 \in Nat
      OBVIOUS
    <3> QED
      BY <3>1, <3>2 DEF Descends
  <2> QED
    BY <1>1, <2>3, <2>4, <2>5, <2>6 DEF Collecting
<1> QED
  BY <1>1, <1>4, <1>5, GivenWays DEF LoopsIInv

\* What is done with the graph after the analysis keeps the invariant too.
LEMMA LoopsStep ==
  ASSUME LayoutIInv, LoopsIInv, [LayoutNext]_allVars
  PROVE  LoopsIInv'
<1>1. CASE AnalyseLoops
  <2>1. Next
    BY <1>1 DEF AnalyseLoops
  <2>2. phase # "layout"
    BY <2>1 DEF Next, BackEdge, SkipBlack, Visit, AtSuccessor, Leave, SplitBackEdge, KeepBackEdges,
          ReadMoved, RecalculateLoopsReducibility, AddPreHeader, NoPreHeader, PreHeadersDone,
          PopulateLoop, DropIrreducible, PassNoHeader, BuildLoopTree, Check, Terminated
  <2>3. WF(graph) /\ Start \in graph.blocks
    BY <2>2 DEF LayoutIInv, Analysing
  <2>4. phase' # "layout"
    BY <2>1, <2>2, <2>3, AnalysisKeepsWF
  <2> QED
    BY <2>1, <2>2, <2>3, <2>4, AnalysisStep
<1>2. ASSUME phase # "layout", NEW p, p \in {"LinearizeBlocks", "endless", "pastEnd", "linearized", "unordered"},
             Enter(p)
      PROVE  LoopsIInv'
  <2>1. phase' = p /\ UNCHANGED <<graph, given>>
    BY <1>2 DEF Enter
  <2>2. WaysLead(given, graph, graph.blocks \ given.blocks)'
    BY <1>2, <2>1 DEF LoopsIInv
  <2> QED
    BY <1>2, <2>1, <2>2 DEF LoopsIInv
<1>3. CASE BeginLinearizeBlocks
  BY <1>2, <1>3 DEF BeginLinearizeBlocks
<1>4. CASE PlaceBlock
  <2>1. phase = "LinearizeBlocks" /\ (Enter("endless") \/ UNCHANGED vars)
    BY <1>4 DEF PlaceBlock
  <2> QED
    BY <1>2, <2>1, SameInvariant
<1>5. CASE EndLinearizeBlocks
  <2>1. phase = "LinearizeBlocks" /\ (Enter("pastEnd") \/ Enter("linearized") \/ Enter("unordered"))
    BY <1>5 DEF EndLinearizeBlocks
  <2> QED
    BY <1>2, <2>1
<1>6. CASE BeginLayout
  BY <1>6 DEF BeginLayout, LoopsIInv
<1>7. CASE LayOut
  BY <1>7 DEF LayOut, LoopsIInv
<1>8. CASE Ended \/ UNCHANGED allVars
  <2>1. UNCHANGED vars
    BY <1>8 DEF Ended, allVars
  <2> QED
    BY <2>1, SameInvariant
<1> QED
  BY <1>1, <1>3, <1>4, <1>5, <1>6, <1>7, <1>8 DEF LayoutNext

\* The invariant of the loop analysis holds in every state.
THEOREM LoopsKeepIInv == LayoutSpec => []LoopsIInv
<1>1. LayoutInit => LoopsIInv
  <2> SUFFICES ASSUME LayoutInit PROVE LoopsIInv
    OBVIOUS
  <2>1. Init /\ graph \in Inputs
    BY DEF LayoutInit, Init
  <2>2. WF(graph) /\ Start \in graph.blocks
    BY <2>1, InputsAssumption DEF WF, Shape
  <2> QED
    BY <2>1, <2>2, LoopsInit
<1>2. LayoutIInv /\ LoopsIInv /\ [LayoutNext]_allVars => LoopsIInv'
  BY LoopsStep
<1> QED
  BY <1>1, <1>2, LayoutKeepsIInv, PTL DEF LayoutSpec

-----------------------------------------------------------------------------
\* The two properties follow from the invariants.
LEMMA PathsAndCyclesKept == LayoutIInv /\ LoopsIInv => KeepsPathsAndCycles
<1> SUFFICES ASSUME LayoutIInv, LoopsIInv, phase # "layout" PROVE KeepsPathsAndCycles
  BY DEF KeepsPathsAndCycles
<1>1. WF(graph) /\ WaysLead(given, graph, graph.blocks \ given.blocks)
  BY DEF LayoutIInv, Analysing, LoopsIInv
<1>2. \A b \in given.blocks, s \in Slots : LeadsTo(b, s) = given.succs[b][s]
  BY <1>1, WaysEnd
<1>3. ASSUME phase = "done", NEW b \in Reachable(graph) \ Headers, NEW c \in SuccSet(graph, b)
      PROVE  b \notin ReachAvoiding(graph, c, Headers)
  <2>1. CyclesCut(graph, Headers)
    BY <1>3 DEF LoopsIInv
  <2> QED
    BY <1>1, <2>1, CutEndsWalks
<1> QED
  BY <1>2, <1>3 DEF KeepsPathsAndCycles, Headers

LEMMA PreHeadersEntered == LayoutIInv /\ LoopsIInv => EnteredThroughPreHeader
<1> SUFFICES ASSUME LayoutIInv, LoopsIInv, phase = "done", NEW l \in Natural
             PROVE  LET h   == loops_[l].header
                        pre == loops_[l].pre_header
                    IN  /\ Len(loops_[l].back_edges) = 1
                        /\ graph.preds[h] = {pre, loops_[l].back_edges[1]}
                        /\ SuccSet(graph, pre) = {h}
                        /\ pre \notin NaturalLoop(l)
  BY DEF EnteredThroughPreHeader
<1> DEFINE h   == loops_[l].header
           pre == loops_[l].pre_header
<1>1. WF(graph) /\ given.blocks \subseteq graph.blocks
  BY DEF LayoutIInv, Analysing, LoopsIInv, WaysLead
<1>2. Entered(l)
  <2>1. EnteredBut(<<>>)
    BY DEF LoopsIInv
  <2>2. ToSet(<<>>) = {}
    BY DEF ToSet
  <2> QED
    BY <2>1, <2>2 DEF EnteredBut
<1>3. PICK e \in given.blocks : loops_[l].back_edges = <<e>> /\ graph.preds[h] = {pre, e}
  BY <1>2 DEF Entered
<1>4. /\ h \in graph.blocks /\ pre \in graph.blocks \ given.blocks /\ pre # h
      /\ SuccSet(graph, pre) = {h}
  BY <1>2 DEF Entered
<1>5. pre \notin NaturalLoop(l)
  <2>1. graph \in Graphs /\ graph.blocks \subseteq Ids
    BY <1>1 DEF WF, Shape, Graphs
  <2>2. ReachAvoiding(graph, pre, {h}) \subseteq {pre}
    <3> DEFINE C == {pre}
    <3>1. C \in SUBSET Ids /\ {pre} \ {h} \subseteq C /\ \A c \in C : SuccSet(graph, c) \ {h} \subseteq C
      BY <1>4, <2>1
    <3>2. pre \in Ids
      BY <1>4, <2>1
    <3> HIDE DEF C, pre, h
    <3>3. ReachAvoiding(graph, pre, {h}) \subseteq C
      BY <2>1, <3>1, <3>2, ReachAvoidingLeast
    <3> QED
      BY <3>3 DEF C
  <2>3. ToSet(loops_[l].back_edges) = {e} /\ e # pre
    BY <1>3, <1>4, OneBackEdge
  <2> QED
    BY <1>4, <2>2, <2>3 DEF NaturalLoop
<1>6. Len(loops_[l].back_edges) = 1 /\ loops_[l].back_edges[1] = e
  BY <1>3
<1> QED
  BY <1>3, <1>4, <1>5, <1>6

\* Whatever the graph, the edits of the loop analysis change no path: in every state a
\* slot of a block of the given graph leads where it led, the inserted headers and
\* pre-headers being part of the way; and in the end every cycle passes a header.
THEOREM KeepsPathsAndCyclesAlways == LayoutSpec => []KeepsPathsAndCycles
  BY LayoutKeepsIInv, LoopsKeepIInv, PathsAndCyclesKept, PTL

\* Whatever the graph, every reducible loop has one back edge in the end and is entered
\* through its pre-header only, which leads nowhere else and is outside.
THEOREM EnteredThroughPreHeaderAlways == LayoutSpec => []EnteredThroughPreHeader
  BY LayoutKeepsIInv, LoopsKeepIInv, PreHeadersEntered, PTL

-----------------------------------------------------------------------------
(* How PopulateLoops puts loops into one another, apart from the graph: hd[l] is    *)
(* the header of loop l, nl[l] the natural loop of those in N, bl[l] and ou[l] the   *)
(* blocks and the loop around that are noted so far, lp[b] the loop of block b, and *)
(* T has the blocks to come.                                                        *)

\* Natural loops lie in one another or apart.
Nests(R, hd, N, nl) ==
  /\ DOMAIN hd \in SUBSET Nat /\ N \in SUBSET (DOMAIN hd \ {Root})
  /\ \A l \in DOMAIN hd \ {Root} : hd[l] \in R
  /\ \A l, m \in DOMAIN hd \ {Root} : hd[l] = hd[m] => l = m
  /\ \A l \in N : hd[l] \in nl[l] /\ nl[l] \subseteq R
  /\ \A l, m \in N : hd[l] \in nl[m] => nl[l] \subseteq nl[m]
  /\ \A l, m \in N : l # m => hd[l] \notin nl[m] \/ hd[m] \notin nl[l]
  /\ \A l, m \in N : \A b \in nl[l] \cap nl[m] : hd[l] \in nl[m] \/ hd[m] \in nl[l]

\* A block in a loop is its header, or was found in it; only natural loops have
\* blocks, and only they lie in others, once their headers have been come to.
FiledAs(N, hd, bl, ou, lp, T) ==
  /\ \A b \in Ids : lp[b] # None =>
       /\ lp[b] \in DOMAIN hd \ {Root}
       /\ \/ b = hd[lp[b]] /\ (lp[b] \in N \/ b \in T)
          \/ lp[b] \in N /\ b \in bl[lp[b]]
  /\ \A l \in DOMAIN hd : \A b \in bl[l] : b \in Ids /\ l \in N /\ lp[b] = l /\ b # hd[l]
  /\ \A l \in DOMAIN hd : ou[l] # None => l \in N /\ ou[l] \in N

\* The loops around b whose headers have been come to, but for the one b is header of.
Around(N, hd, nl, T, b) == {k \in N : hd[k] \notin T /\ b \in nl[k] /\ b # hd[k]}

\* The loop that b, or the loop b is header of, is noted to lie in.
UpFrom(hd, ou, lp, b) ==
  IF lp[b] = None THEN None ELSE IF b = hd[lp[b]] THEN ou[lp[b]] ELSE lp[b]

\* It is the innermost of them.
NestedAs(R, N, hd, nl, ou, lp, T) ==
  \A b \in R :
    LET u == UpFrom(hd, ou, lp, b)
        D == Around(N, hd, nl, T, b)
    IN  /\ u = None => D = {}
        /\ u # None => u \in D /\ \A k \in D : hd[u] \in nl[k]

\* What PopulateLoop does to loop m, whose search has come to the blocks S.
Populates(m, S, hd, bl, ou, lp, bl2, ou2, lp2) ==
  LET free == {b \in S : lp[b] = None}
      met  == {lp[b] : b \in S} \ {None, m}
  IN  /\ \A l \in DOMAIN hd : bl2[l] = IF l = m THEN bl[l] \cup free ELSE bl[l]
      /\ \A l \in DOMAIN hd : ou2[l] = IF l \in met /\ ou[l] = None THEN m ELSE ou[l]
      /\ \A b \in Ids : lp2[b] = IF b \in free THEN m ELSE lp[b]

LEMMA PopulateFiles ==
  ASSUME NEW R, NEW hd, NEW N, NEW nl, Nests(R, hd, N, nl),
         NEW bl, NEW ou, NEW lp, NEW T, FiledAs(N, hd, bl, ou, lp, T),
         NEW m \in N, lp[hd[m]] = m, nl[m] \cap T = {hd[m]}, T \subseteq R,
         NEW S \in SUBSET Ids, S \cap R = nl[m] \ {hd[m]},
         NEW bl2, NEW ou2, NEW lp2, Populates(m, S, hd, bl, ou, lp, bl2, ou2, lp2)
  PROVE  FiledAs(N, hd, bl2, ou2, lp2, T \ {hd[m]})
<1> DEFINE free == {b \in S : lp[b] = None}
           met  == {lp[b] : b \in S} \ {None, m}
<1>1. /\ \A l \in DOMAIN hd : bl2[l] = IF l = m THEN bl[l] \cup free ELSE bl[l]
      /\ \A l \in DOMAIN hd : ou2[l] = IF l \in met /\ ou[l] = None THEN m ELSE ou[l]
      /\ \A b \in Ids : lp2[b] = IF b \in free THEN m ELSE lp[b]
  BY DEF Populates
<1>2. /\ \A b \in Ids : lp[b] # None =>
           /\ lp[b] \in DOMAIN hd \ {Root}
           /\ \/ b = hd[lp[b]] /\ (lp[b] \in N \/ b \in T)
              \/ lp[b] \in N /\ b \in bl[lp[b]]
      /\ \A l \in DOMAIN hd : \A b \in bl[l] : b \in Ids /\ l \in N /\ lp[b] = l /\ b # hd[l]
      /\ \A l \in DOMAIN hd : ou[l] # None => l \in N /\ ou[l] \in N
  BY DEF FiledAs
<1>3. /\ DOMAIN hd \in SUBSET Nat /\ N \in SUBSET (DOMAIN hd \ {Root}) /\ m \in DOMAIN hd \ {Root}
      /\ hd[m] \in R /\ hd[m] \notin S /\ m # None
  BY NullLoopAssumption DEF Nests
<1>4. met \subseteq N
  <2> SUFFICES ASSUME NEW b \in S, lp[b] # None, lp[b] \notin N PROVE FALSE
    OBVIOUS
  <2>1. b = hd[lp[b]] /\ b \in T
    BY <1>2
  <2>2. b \in nl[m]
    BY <2>1
  <2> QED
    BY <1>3, <2>1, <2>2
<1> HIDE DEF met
<1>5. ASSUME NEW b \in Ids, lp2[b] # None
      PROVE  /\ lp2[b] \in DOMAIN hd \ {Root}
             /\ \/ b = hd[lp2[b]] /\ (lp2[b] \in N \/ b \in T \ {hd[m]})
                \/ lp2[b] \in N /\ b \in bl2[lp2[b]]
  <2>1. CASE b \in free
    <3>1. lp2[b] = m /\ b \in bl2[m]
      BY <1>1, <1>3, <2>1
    <3> QED
      BY <1>3, <3>1
  <2>2. CASE b \notin free
    <3>1. lp2[b] = lp[b]
      BY <1>1, <2>2
    <3>2. PICK l : l = lp[b]
      OBVIOUS
    <3>3. /\ l \in DOMAIN hd \ {Root}
          /\ \/ b = hd[l] /\ (l \in N \/ b \in T)
             \/ l \in N /\ b \in bl[l]
      BY <1>2, <1>5, <3>1, <3>2
    <3>4. bl[l] \subseteq bl2[l]
      BY <1>1, <3>3
    <3>5. b = hd[m] => l \in N
      BY <3>2
    <3> QED
      BY <3>1, <3>2, <3>3, <3>4, <3>5
  <2> QED
    BY <2>1, <2>2
<1>6. ASSUME NEW l \in DOMAIN hd, NEW b \in bl2[l] PROVE b \in Ids /\ l \in N /\ lp2[b] = l /\ b # hd[l]
  <2>1. CASE b \in bl[l]
    <3>1. b \in Ids /\ l \in N /\ lp[b] = l /\ b # hd[l]
      BY <1>2, <2>1
    <3>2. b \notin free
      BY <1>3, <3>1, NullLoopAssumption
    <3> QED
      BY <1>1, <3>1, <3>2
  <2>2. CASE l = m /\ b \in free
    <3>1. lp2[b] = m /\ b \in S
      BY <1>1, <2>2
    <3> QED
      BY <1>3, <2>2, <3>1
  <2> QED
    BY <1>1, <2>1, <2>2
<1>7. ASSUME NEW l \in DOMAIN hd, ou2[l] # None PROVE l \in N /\ ou2[l] \in N
  BY <1>1, <1>2, <1>4, <1>7
<1> QED
  BY <1>5, <1>6, <1>7 DEF FiledAs

LEMMA PopulateNests ==
  ASSUME NEW R \in SUBSET Ids, NEW hd, NEW N, NEW nl, Nests(R, hd, N, nl),
         NEW bl, NEW ou, NEW lp, NEW T, FiledAs(N, hd, bl, ou, lp, T),
         NestedAs(R, N, hd, nl, ou, lp, T),
         \A k \in N : nl[k] \cap T # {} => hd[k] \in T,
         NEW m \in N, lp[hd[m]] = m, nl[m] \cap T = {hd[m]},
         NEW S, S = nl[m] \ {hd[m]},
         NEW bl2, NEW ou2, NEW lp2, Populates(m, S, hd, bl, ou, lp, bl2, ou2, lp2)
  PROVE  NestedAs(R, N, hd, nl, ou2, lp2, T \ {hd[m]})
<1> DEFINE free == {b \in S : lp[b] = None}
           met  == {lp[b] : b \in S} \ {None, m}
           T2   == T \ {hd[m]}
           D(b)  == Around(N, hd, nl, T, b)
           D2(b) == Around(N, hd, nl, T2, b)
           u(b)  == UpFrom(hd, ou, lp, b)
           u2(b) == UpFrom(hd, ou2, lp2, b)
<1>1. /\ \A l \in DOMAIN hd : ou2[l] = IF l \in met /\ ou[l] = None THEN m ELSE ou[l]
      /\ \A b \in Ids : lp2[b] = IF b \in free THEN m ELSE lp[b]
  BY DEF Populates
<1>2. /\ \A b \in Ids : lp[b] # None =>
           /\ lp[b] \in DOMAIN hd \ {Root}
           /\ \/ b = hd[lp[b]] /\ (lp[b] \in N \/ b \in T)
              \/ lp[b] \in N /\ b \in bl[lp[b]]
      /\ \A l \in DOMAIN hd : \A b \in bl[l] : b \in Ids /\ l \in N /\ lp[b] = l /\ b # hd[l]
      /\ \A l \in DOMAIN hd : ou[l] # None => l \in N /\ ou[l] \in N
  BY DEF FiledAs
<1>3. /\ DOMAIN hd \in SUBSET Nat /\ N \in SUBSET (DOMAIN hd \ {Root})
      /\ \A l, k \in DOMAIN hd \ {Root} : hd[l] = hd[k] => l = k
      /\ \A l \in N : hd[l] \in nl[l] /\ nl[l] \subseteq R
      /\ \A l, k \in N : l # k => hd[l] \notin nl[k] \/ hd[k] \notin nl[l]
      /\ \A l, k \in N : \A b \in nl[l] \cap nl[k] : hd[l] \in nl[k] \/ hd[k] \in nl[l]
  BY DEF Nests
<1>4. /\ m \in DOMAIN hd \ {Root} /\ hd[m] \in T /\ hd[m] \in R /\ S \subseteq R /\ S \subseteq Ids
      /\ m # None /\ None \notin DOMAIN hd
  BY <1>3, NullLoopAssumption
<1>5. \A b \in R : (u(b) = None => D(b) = {}) /\ (u(b) # None => u(b) \in D(b) /\ \A k \in D(b) : hd[u(b)] \in nl[k])
  BY DEF NestedAs
<1>6. \A b \in R : D2(b) = D(b) \cup (IF b \in S THEN {m} ELSE {})
  <2> SUFFICES ASSUME NEW b \in R, NEW k \in N
               PROVE  k \in D2(b) <=> k \in D(b) \/ (k = m /\ b \in S)
    BY DEF Around
  <2>1. CASE k = m
    BY <1>4, <2>1 DEF Around
  <2>2. CASE k # m
    <3>1. hd[k] # hd[m]
      BY <1>3, <1>4, <2>2
    <3> QED
      BY <2>2, <3>1 DEF Around
  <2> QED
    BY <2>1, <2>2
<1>7. ASSUME NEW k \in N, hd[k] \notin T, NEW b \in nl[k], b \in nl[m] PROVE hd[k] \in nl[m] /\ hd[k] \in S
  <2>1. k # m
    BY <1>4, <1>7
  <2>2. hd[m] \notin nl[k]
    BY <1>4, <1>7
  <2>3. hd[k] \in nl[m]
    BY <1>3, <1>7, <2>2
  <2>4. hd[k] # hd[m]
    BY <1>3, <1>4, <2>1
  <2> QED
    BY <2>3, <2>4
<1> HIDE DEF D, D2, T2
<1>8. ASSUME NEW b \in R, b \notin S PROVE u2(b) = u(b)
  <2>1. lp2[b] = lp[b] /\ b \in Ids
    BY <1>1, <1>8
  <2>2. ASSUME lp[b] # None, b = hd[lp[b]], lp[b] \in met PROVE FALSE
    <3>1. PICK l : l = lp[b]
      OBVIOUS
    <3>2. PICK c \in S : lp[c] = l
      BY <2>2, <3>1
    <3>3. l \in DOMAIN hd \ {Root} /\ l # m /\ b = hd[l]
      BY <1>2, <2>1, <2>2, <3>1
    <3>4. c # hd[l] /\ l # None
      BY <1>8, <2>2, <3>1, <3>2
    <3>5. c \in Ids /\ c \in R
      BY <1>4, <3>2
    <3>6. l \in N /\ u(c) = l
      BY <1>2, <3>2, <3>4, <3>5 DEF UpFrom
    <3>7. l \in D(c)
      BY <1>5, <3>4, <3>5, <3>6
    <3>8. hd[l] \notin T /\ c \in nl[l] /\ c \in nl[m]
      BY <3>2, <3>7 DEF D, Around
    <3> QED
      BY <1>7, <1>8, <3>3, <3>6, <3>8
  <2>3. CASE lp[b] = None
    BY <2>1, <2>3 DEF UpFrom
  <2>4. CASE lp[b] # None /\ b # hd[lp[b]]
    BY <2>1, <2>4 DEF UpFrom
  <2>5. CASE lp[b] # None /\ b = hd[lp[b]]
    <3>1. lp[b] \notin met /\ lp[b] \in DOMAIN hd
      BY <1>2, <2>1, <2>2, <2>5
    <3>2. ou2[lp[b]] = ou[lp[b]]
      BY <1>1, <3>1
    <3> QED
      BY <2>1, <2>5, <3>2 DEF UpFrom
  <2> QED
    BY <2>3, <2>4, <2>5
<1>9. ASSUME NEW b \in S, u(b) = None PROVE u2(b) = m
  <2>1. b \in Ids /\ b # hd[m] /\ b \in R
    BY <1>4
  <2>2. CASE lp[b] = None
    <3>1. lp2[b] = m
      BY <1>1, <2>1, <2>2
    <3> QED
      BY <1>4, <2>1, <3>1 DEF UpFrom
  <2>3. CASE lp[b] # None
    <3>1. PICK l : l = lp[b]
      OBVIOUS
    <3>2. l \in DOMAIN hd \ {Root} /\ b = hd[l] /\ ou[l] = None
      BY <1>2, <1>9, <2>1, <2>3, <3>1 DEF UpFrom
    <3>3. l \in met
      BY <2>1, <2>3, <3>1, <3>2
    <3>4. ou2[l] = m
      BY <1>1, <3>2, <3>3
    <3>5. lp2[b] = l
      BY <1>1, <2>1, <2>3, <3>1
    <3> QED
      BY <1>4, <3>2, <3>4, <3>5 DEF UpFrom
  <2> QED
    BY <2>2, <2>3
<1>10. ASSUME NEW b \in S, u(b) # None PROVE u2(b) = u(b)
  <2>1. b \in Ids /\ lp[b] # None
    BY <1>4, <1>10 DEF UpFrom
  <2>2. lp2[b] = lp[b] /\ lp[b] \in DOMAIN hd
    BY <1>1, <1>2, <2>1
  <2>3. b = hd[lp[b]] => ou2[lp[b]] = ou[lp[b]]
    BY <1>1, <1>10, <2>1, <2>2 DEF UpFrom
  <2> QED
    BY <2>1, <2>2, <2>3 DEF UpFrom
<1> HIDE DEF u, u2, met, free
<1>11. ASSUME NEW b \in R
       PROVE  /\ u2(b) = None => D2(b) = {}
              /\ u2(b) # None => u2(b) \in D2(b) /\ \A k \in D2(b) : hd[u2(b)] \in nl[k]
  <2>1. CASE b \notin S
    BY <1>5, <1>6, <1>8, <2>1
  <2>2. CASE b \in S /\ u(b) = None
    <3>1. D2(b) = {m} /\ u2(b) = m
      BY <1>5, <1>6, <1>9, <2>2
    <3> QED
      BY <1>3, <1>4, <3>1
  <2>3. CASE b \in S /\ u(b) # None
    <3>1. u2(b) = u(b) /\ u(b) \in D(b) /\ \A k \in D(b) : hd[u(b)] \in nl[k]
      BY <1>5, <1>10, <2>3
    <3>2. D2(b) = D(b) \cup {m}
      BY <1>6, <2>3
    <3>3. hd[u(b)] \in nl[m]
      <4>1. u(b) \in N /\ hd[u(b)] \notin T /\ b \in nl[u(b)] /\ b \in nl[m]
        BY <2>3, <3>1 DEF D, Around
      <4> QED
        BY <1>7, <4>1
    <3> QED
      BY <2>3, <3>1, <3>2, <3>3
  <2> QED
    BY <2>1, <2>2, <2>3
<1> QED
  BY <1>11 DEF NestedAs, D2, u2, T2

\* The header h of a loop that is not natural, or a block that is no header, is passed.
LEMMA PassFiles ==
  ASSUME NEW R \in SUBSET Ids, NEW hd, NEW N, NEW nl, Nests(R, hd, N, nl),
         NEW bl, NEW ou, NEW lp, NEW T, FiledAs(N, hd, bl, ou, lp, T),
         NEW h \in R, \A k \in N : hd[k] # h,
         NEW lp2, \A b \in Ids \ {h} : lp2[b] = lp[b],
         \/ lp2[h] = lp[h] /\ \A k \in DOMAIN hd \ {Root} : hd[k] # h
         \/ \E l \in DOMAIN hd \ {Root} : h = hd[l] /\ lp[h] = l /\ lp2[h] = ou[l]
  PROVE  /\ FiledAs(N, hd, bl, ou, lp2, T \ {h})
         /\ NestedAs(R, N, hd, nl, ou, lp, T) => NestedAs(R, N, hd, nl, ou, lp2, T \ {h})
<1>1. /\ \A b \in Ids : lp[b] # None =>
           /\ lp[b] \in DOMAIN hd \ {Root}
           /\ \/ b = hd[lp[b]] /\ (lp[b] \in N \/ b \in T)
              \/ lp[b] \in N /\ b \in bl[lp[b]]
      /\ \A l \in DOMAIN hd : \A b \in bl[l] : b \in Ids /\ l \in N /\ lp[b] = l /\ b # hd[l]
      /\ \A l \in DOMAIN hd : ou[l] # None => l \in N /\ ou[l] \in N
  BY DEF FiledAs
<1>2. h \in Ids /\ N \in SUBSET (DOMAIN hd \ {Root})
  BY DEF Nests
<1>3. \/ lp2[h] = lp[h] /\ \A k \in DOMAIN hd \ {Root} : hd[k] # h
      \/ lp2[h] = None /\ \E l \in DOMAIN hd \ {Root} : h = hd[l] /\ lp[h] = l /\ l \notin N /\ ou[l] = None
  BY <1>1
<1>4. ASSUME NEW b \in Ids, lp2[b] # None
      PROVE  /\ lp2[b] \in DOMAIN hd \ {Root}
             /\ \/ b = hd[lp2[b]] /\ (lp2[b] \in N \/ b \in T \ {h})
                \/ lp2[b] \in N /\ b \in bl[lp2[b]]
  <2>1. lp2[b] = lp[b]
    BY <1>3, <1>4
  <2>2. b = h => b # hd[lp2[b]] \/ lp2[b] \notin DOMAIN hd \ {Root}
    BY <1>3, <1>4
  <2> QED
    BY <1>1, <1>4, <2>1, <2>2
<1>5. ASSUME NEW l \in DOMAIN hd, NEW b \in bl[l]
      PROVE  b \in Ids /\ l \in N /\ lp2[b] = l /\ b # hd[l]
  <2>1. b \in Ids /\ l \in N /\ lp[b] = l /\ b # hd[l]
    BY <1>1
  <2>2. lp2[b] = lp[b]
    BY <1>3, <2>1
  <2> QED
    BY <2>1, <2>2
<1>6. FiledAs(N, hd, bl, ou, lp2, T \ {h})
  BY <1>1, <1>4, <1>5 DEF FiledAs
<1>7. ASSUME NestedAs(R, N, hd, nl, ou, lp, T) PROVE NestedAs(R, N, hd, nl, ou, lp2, T \ {h})
  <2>1. ASSUME NEW b \in R
        PROVE  /\ Around(N, hd, nl, T \ {h}, b) = Around(N, hd, nl, T, b)
               /\ UpFrom(hd, ou, lp2, b) = UpFrom(hd, ou, lp, b)
    <3>1. Around(N, hd, nl, T \ {h}, b) = Around(N, hd, nl, T, b)
      BY DEF Around
    <3>2. CASE lp2[b] = lp[b]
      BY <3>1, <3>2 DEF UpFrom
    <3>3. CASE lp2[b] # lp[b]
      <4>1. b = h /\ lp2[h] = None
        BY <1>3, <3>3
      <4>2. PICK l \in DOMAIN hd \ {Root} : h = hd[l] /\ lp[h] = l /\ l \notin N /\ ou[l] = None
        BY <1>3, <3>3, <4>1
      <4> QED
        BY <3>1, <4>1, <4>2 DEF UpFrom
    <3> QED
      BY <3>2, <3>3
  <2> QED
    BY <1>7, <2>1 DEF NestedAs
<1> QED
  BY <1>6, <1>7

\* Before the first block is come to.
LEMMA FiledAtFirst ==
  ASSUME NEW R \in SUBSET Ids, NEW hd, NEW N, NEW nl, Nests(R, hd, N, nl), NEW bl, NEW ou, NEW lp,
         \A l \in DOMAIN hd : bl[l] = {} /\ ou[l] = None,
         \A b \in Ids : lp[b] # None => lp[b] \in DOMAIN hd \ {Root} /\ b = hd[lp[b]]
  PROVE  FiledAs(N, hd, bl, ou, lp, R) /\ NestedAs(R, N, hd, nl, ou, lp, R)
<1>1. \A l \in DOMAIN hd \ {Root} : hd[l] \in R
  BY DEF Nests
<1>2. FiledAs(N, hd, bl, ou, lp, R)
  BY <1>1 DEF FiledAs
<1>3. ASSUME NEW b \in R PROVE Around(N, hd, nl, R, b) = {} /\ UpFrom(hd, ou, lp, b) = None
  <2>1. N \in SUBSET (DOMAIN hd \ {Root})
    BY DEF Nests
  <2>2. Around(N, hd, nl, R, b) = {}
    BY <1>1, <2>1 DEF Around
  <2>3. CASE lp[b] = None
    BY <2>2, <2>3 DEF UpFrom
  <2>4. CASE lp[b] # None
    <3>1. ou[lp[b]] = None /\ b = hd[lp[b]]
      BY <2>4
    <3> QED
      BY <2>2, <2>4, <3>1 DEF UpFrom
  <2> QED
    BY <2>3, <2>4
<1> QED
  BY <1>2, <1>3 DEF NestedAs

-----------------------------------------------------------------------------
\* What BuildLoopTree does: all that is in no loop yet is put into the root.
Builds(R, hd, bl, ou, lp, bl2, ou2, lp2) ==
  LET free == {b \in R : lp[b] = None}
  IN  /\ \A l \in DOMAIN hd : bl2[l] = IF l = Root THEN bl[l] \cup free ELSE bl[l]
      /\ \A l \in DOMAIN hd : ou2[l] = IF l # Root /\ ou[l] = None THEN Root ELSE ou[l]
      /\ \A b \in Ids : lp2[b] = IF b \in free THEN Root ELSE lp[b]

\* Every block that can be reached is in one loop, which lists it or has it for its
\* header, and every loop but the root in another.
ListedAs(R, N, hd, bl, ou, lp) ==
  /\ \A b \in Ids : lp[b] # None =>
       \/ lp[b] = Root /\ b \in bl[Root]
       \/ lp[b] \in N /\ (b = hd[lp[b]] \/ b \in bl[lp[b]])
  /\ \A l \in DOMAIN hd : \A b \in bl[l] : b \in Ids /\ l \in N \cup {Root} /\ lp[b] = l
  /\ \A l \in N : lp[hd[l]] = l /\ hd[l] \notin bl[l]
  /\ \A b \in R : lp[b] \in N \cup {Root}
  /\ ou[Root] = None
  /\ \A l \in N : ou[l] \in N \cup {Root}
  /\ \A l \in DOMAIN hd \ (N \cup {Root}) : ou[l] = Root

\* The loop around b, or around the loop b is header of, and the natural loops around b.
Above(hd, ou, lp, b) == IF lp[b] = Root THEN Root ELSE IF b = hd[lp[b]] THEN ou[lp[b]] ELSE lp[b]

AllAround(N, hd, nl, b) == {k \in N : b \in nl[k] /\ b # hd[k]}

InTree(R, N, hd, nl, ou, lp) ==
  \A b \in R :
    LET u == Above(hd, ou, lp, b)
        D == AllAround(N, hd, nl, b)
    IN  /\ u = Root => D = {}
        /\ u # Root => u \in D /\ \A k \in D : hd[u] \in nl[k]

LEMMA BuildsTree ==
  ASSUME NEW R \in SUBSET Ids, NEW hd, NEW N, NEW nl, Nests(R, hd, N, nl),
         NEW bl, NEW ou, NEW lp, FiledAs(N, hd, bl, ou, lp, {}), Root \in DOMAIN hd,
         \A m \in N : lp[hd[m]] = m,
         NEW bl2, NEW ou2, NEW lp2, Builds(R, hd, bl, ou, lp, bl2, ou2, lp2)
  PROVE  /\ ListedAs(R, N, hd, bl2, ou2, lp2)
         /\ NestedAs(R, N, hd, nl, ou, lp, {}) => InTree(R, N, hd, nl, ou2, lp2)
<1> DEFINE free == {b \in R : lp[b] = None}
<1>1. /\ \A l \in DOMAIN hd : bl2[l] = IF l = Root THEN bl[l] \cup free ELSE bl[l]
      /\ \A l \in DOMAIN hd : ou2[l] = IF l # Root /\ ou[l] = None THEN Root ELSE ou[l]
      /\ \A b \in Ids : lp2[b] = IF b \in free THEN Root ELSE lp[b]
  BY DEF Builds
<1>2. /\ \A b \in Ids : lp[b] # None =>
           /\ lp[b] \in DOMAIN hd \ {Root} /\ lp[b] \in N
           /\ b = hd[lp[b]] \/ b \in bl[lp[b]]
      /\ \A l \in DOMAIN hd : \A b \in bl[l] : b \in Ids /\ l \in N /\ lp[b] = l /\ b # hd[l]
      /\ \A l \in DOMAIN hd : ou[l] # None => l \in N /\ ou[l] \in N
  BY DEF FiledAs
<1>3. /\ N \in SUBSET (DOMAIN hd \ {Root}) /\ Root # None /\ None \notin N
      /\ \A l \in N : hd[l] \in R /\ hd[l] \in Ids
  BY NullLoopAssumption DEF Nests, Root
<1>4. ASSUME NEW b \in Ids, lp2[b] # None
      PROVE  \/ lp2[b] = Root /\ b \in bl2[Root]
             \/ lp2[b] \in N /\ (b = hd[lp2[b]] \/ b \in bl2[lp2[b]])
  <2>1. CASE b \in free
    BY <1>1, <2>1
  <2>2. CASE b \notin free
    <3>1. lp2[b] = lp[b]
      BY <1>1, <2>2
    <3>2. lp[b] \in N /\ lp[b] # Root /\ bl2[lp[b]] = bl[lp[b]]
      BY <1>1, <1>2, <1>3, <1>4, <3>1
    <3> QED
      BY <1>2, <1>4, <3>1, <3>2
  <2> QED
    BY <2>1, <2>2
<1>5. ASSUME NEW l \in DOMAIN hd, NEW b \in bl2[l] PROVE b \in Ids /\ l \in N \cup {Root} /\ lp2[b] = l
  <2>1. CASE b \in bl[l]
    <3>1. b \in Ids /\ l \in N /\ lp[b] = l
      BY <1>2, <2>1
    <3> QED
      BY <1>1, <1>3, <3>1
  <2>2. CASE l = Root /\ b \in free
    BY <1>1, <2>2
  <2> QED
    BY <1>1, <2>1, <2>2
<1>6. ASSUME NEW l \in N PROVE lp2[hd[l]] = l /\ hd[l] \notin bl2[l] /\ ou2[l] \in N \cup {Root}
  <2>1. l \in DOMAIN hd /\ l # Root /\ lp[hd[l]] = l /\ hd[l] \in Ids /\ l # None
    BY <1>3
  <2>2. bl2[l] = bl[l] /\ lp2[hd[l]] = l
    BY <1>1, <2>1
  <2>3. ou2[l] \in N \cup {Root}
    BY <1>1, <1>2, <2>1
  <2> QED
    BY <1>2, <2>1, <2>2, <2>3
<1>7. \A b \in R : lp2[b] \in N \cup {Root}
  BY <1>1, <1>2
<1>8. ou2[Root] = None /\ \A l \in DOMAIN hd \ (N \cup {Root}) : ou2[l] = Root
  BY <1>1, <1>2, <1>3
<1>9. ListedAs(R, N, hd, bl2, ou2, lp2)
  BY <1>4, <1>5, <1>6, <1>7, <1>8 DEF ListedAs
<1>10. ASSUME NestedAs(R, N, hd, nl, ou, lp, {}), NEW b \in R
       PROVE  LET u == Above(hd, ou2, lp2, b)
                  D == AllAround(N, hd, nl, b)
              IN  /\ u = Root => D = {}
                  /\ u # Root => u \in D /\ \A k \in D : hd[u] \in nl[k]
  <2> DEFINE u == UpFrom(hd, ou, lp, b)
             D == Around(N, hd, nl, {}, b)
  <2>1. (u = None => D = {}) /\ (u # None => u \in D /\ \A k \in D : hd[u] \in nl[k])
    BY <1>10 DEF NestedAs
  <2>2. D = AllAround(N, hd, nl, b)
    BY DEF Around, AllAround
  <2>3. Root \notin D
    BY <1>3 DEF Around
  <2> HIDE DEF D
  <2>4. Above(hd, ou2, lp2, b) = IF u = None THEN Root ELSE u
    <3>1. CASE lp[b] = None
      BY <1>1, <3>1 DEF UpFrom, Above
    <3>2. CASE lp[b] # None
      <4>1. PICK l : l = lp[b]
        OBVIOUS
      <4>2. lp2[b] = l /\ l \in N /\ l \in DOMAIN hd /\ l # Root /\ l # None
        BY <1>1, <1>2, <3>2, <4>1
      <4>3. ou2[l] = IF ou[l] = None THEN Root ELSE ou[l]
        BY <1>1, <4>2
      <4>4. CASE b = hd[l]
        BY <4>1, <4>2, <4>3, <4>4 DEF UpFrom, Above
      <4>5. CASE b # hd[l]
        BY <4>1, <4>2, <4>5 DEF UpFrom, Above
      <4> QED
        BY <4>4, <4>5
    <3> QED
      BY <3>1, <3>2
  <2> HIDE DEF u
  <2>5. (IF u = None THEN Root ELSE u) = Root => D = {}
    BY <2>1, <2>3
  <2>6. (IF u = None THEN Root ELSE u) # Root => u # None
    OBVIOUS
  <2> QED
    BY <2>1, <2>2, <2>4, <2>5, <2>6
<1> QED
  BY <1>9, <1>10 DEF InTree

\* en[l] has l, the loop l is in, and so on, and nothing else.
EnclosesAs(D, ou, en) ==
  \A l \in D :
    /\ en[l] \subseteq D /\ l \in en[l] /\ \A m \in en[l] : ou[m] # None => ou[m] \in en[l]
    /\ \A C \in SUBSET D : l \in C /\ (\A m \in C : ou[m] # None => ou[m] \in C) => en[l] \subseteq C

LEMMA TreeEncloses ==
  ASSUME NEW R \in SUBSET Ids, NEW hd, NEW N, NEW nl, Nests(R, hd, N, nl), Root \in DOMAIN hd,
         NEW bl, NEW ou, NEW lp, ListedAs(R, N, hd, bl, ou, lp), InTree(R, N, hd, nl, ou, lp),
         NEW en, EnclosesAs(DOMAIN hd, ou, en), NEW k \in N
  PROVE  en[k] = {m \in N : hd[k] \in nl[m]} \cup {Root}
<1> DEFINE E == {m \in N : hd[k] \in nl[m]} \cup {Root}
<1>1. /\ N \in SUBSET (DOMAIN hd \ {Root}) /\ Root # None /\ None \notin N
      /\ \A l, m \in N : hd[l] = hd[m] => l = m
      /\ \A l \in N : hd[l] \in nl[l] /\ nl[l] \subseteq R /\ hd[l] \in R
      /\ \A l, m \in N : hd[l] \in nl[m] => nl[l] \subseteq nl[m]
      /\ \A l, m \in N : l # m => hd[l] \notin nl[m] \/ hd[m] \notin nl[l]
  BY NullLoopAssumption DEF Nests, Root
<1>2. /\ \A l \in N : lp[hd[l]] = l /\ ou[l] \in N \cup {Root}
      /\ ou[Root] = None
  BY DEF ListedAs
<1>3. ASSUME NEW m \in N
      PROVE  /\ ou[m] = Root => \A j \in N \ {m} : hd[m] \notin nl[j]
             /\ ou[m] # Root => /\ ou[m] \in N \ {m} /\ hd[m] \in nl[ou[m]]
                                /\ \A j \in N \ {m} : hd[m] \in nl[j] => hd[ou[m]] \in nl[j]
  <2>1. hd[m] \in R /\ lp[hd[m]] = m /\ m # Root /\ m \in N
    BY <1>1, <1>2
  <2>2. Above(hd, ou, lp, hd[m]) = ou[m]
    BY <2>1 DEF Above
  <2>3. /\ ou[m] = Root => AllAround(N, hd, nl, hd[m]) = {}
        /\ ou[m] # Root => /\ ou[m] \in AllAround(N, hd, nl, hd[m])
                           /\ \A j \in AllAround(N, hd, nl, hd[m]) : hd[ou[m]] \in nl[j]
    BY <2>1, <2>2 DEF InTree
  <2>4. ASSUME NEW j \in N PROVE j \in AllAround(N, hd, nl, hd[m]) <=> j # m /\ hd[m] \in nl[j]
    BY <1>1 DEF AllAround
  <2>5. AllAround(N, hd, nl, hd[m]) \subseteq N
    BY DEF AllAround
  <2> QED
    BY <2>3, <2>4, <2>5
<1>4. /\ en[k] \subseteq DOMAIN hd /\ k \in en[k] /\ \A m \in en[k] : ou[m] # None => ou[m] \in en[k]
      /\ \A C \in SUBSET (DOMAIN hd) : k \in C /\ (\A m \in C : ou[m] # None => ou[m] \in C) => en[k] \subseteq C
  BY <1>1 DEF EnclosesAs
<1>5. en[k] \subseteq E
  <2>1. E \in SUBSET (DOMAIN hd) /\ k \in E
    BY <1>1
  <2>2. ASSUME NEW m \in E, ou[m] # None PROVE ou[m] \in E
    <3>1. m \in N /\ hd[k] \in nl[m]
      BY <1>2, <2>2
    <3>2. CASE ou[m] = Root
      BY <3>2
    <3>3. CASE ou[m] # Root
      <4>1. ou[m] \in N /\ hd[m] \in nl[ou[m]]
        BY <1>3, <3>1, <3>3
      <4>2. nl[m] \subseteq nl[ou[m]]
        BY <1>1, <3>1, <4>1
      <4> QED
        BY <3>1, <4>1, <4>2
    <3> QED
      BY <3>2, <3>3
  <2> HIDE DEF E
  <2> QED
    BY <1>4, <2>1, <2>2
<1>6. \* The outermost loop of a part of en[k] lies in one that is not of that part.
      ASSUME NEW Y \in SUBSET (en[k] \cap N), Y # {} PROVE \E j \in Y : ou[j] \in en[k] \ Y
  <2>1. \A j \in N : IsFiniteSet(nl[j]) /\ Cardinality(nl[j]) \in Nat
    <3> SUFFICES ASSUME NEW j \in N PROVE IsFiniteSet(nl[j]) /\ Cardinality(nl[j]) \in Nat
      OBVIOUS
    <3>1. nl[j] \subseteq Ids
      BY <1>1
    <3> QED
      BY <3>1, FiniteIds, FS_Subset, FS_CardinalityType
  <2>2. \A j \in N : Cardinality(nl[j]) <= Cardinality(Ids)
    <3> SUFFICES ASSUME NEW j \in N PROVE Cardinality(nl[j]) <= Cardinality(Ids)
      OBVIOUS
    <3>1. nl[j] \subseteq Ids
      BY <1>1
    <3> QED
      BY <3>1, FiniteIds, FS_Subset
  <2>3. Cardinality(Ids) \in Nat
    BY FiniteIds, FS_CardinalityType
  <2> DEFINE rest(j) == Cardinality(Ids) - Cardinality(nl[j])
             ranks   == {rest(j) : j \in Y}
  <2>4. ranks \subseteq Nat /\ ranks # {}
    BY <1>6, <2>1, <2>2, <2>3
  <2>5. PICK x \in ranks : \A y \in ranks : x <= y
    <3> HIDE DEF ranks
    <3> QED
      BY <2>4, Least
  <2>6. PICK j \in Y : x = rest(j)
    BY <2>5
  <2>7. j \in N /\ j \in en[k]
    BY <2>6
  <2>8. ou[j] \in en[k]
    BY <1>1, <1>2, <1>4, <2>7
  <2>9. ASSUME ou[j] \in Y PROVE FALSE
    <3>1. PICK i : i = ou[j]
      OBVIOUS
    <3>2. i \in N \ {j} /\ hd[j] \in nl[i]
      BY <1>1, <1>3, <2>7, <2>9, <3>1
    <3>3. nl[j] \subseteq nl[i] /\ nl[j] # nl[i]
      BY <1>1, <2>7, <3>2
    <3>4. Cardinality(nl[j]) < Cardinality(nl[i])
      <4>1. Cardinality(nl[j]) <= Cardinality(nl[i]) /\ Cardinality(nl[j]) # Cardinality(nl[i])
        BY <2>1, <3>2, <3>3, FS_Subset
      <4> QED
        BY <2>1, <2>7, <3>2, <4>1
    <3>5. rest(j) <= rest(i)
      BY <2>5, <2>6, <2>9, <3>1
    <3> QED
      BY <2>1, <2>3, <2>7, <3>2, <3>4, <3>5
  <2> QED
    BY <2>6, <2>8, <2>9
<1>7. Root \in en[k]
  <2>1. PICK j \in en[k] \cap N : ou[j] \in en[k] \ (en[k] \cap N)
    BY <1>4, <1>6
  <2> QED
    BY <1>2, <2>1
<1>8. ASSUME NEW m \in N, hd[k] \in nl[m], m \notin en[k] PROVE FALSE
  <2> DEFINE Y == {j \in en[k] \cap N : hd[j] \in nl[m]}
  <2>1. Y \in SUBSET (en[k] \cap N) /\ Y # {}
    BY <1>4, <1>8
  <2>2. PICK j \in Y : ou[j] \in en[k] \ Y
    <3> HIDE DEF Y
    <3> QED
      BY <1>6, <2>1
  <2>3. j \in N /\ m \in N \ {j} /\ hd[j] \in nl[m]
    BY <1>8, <2>2
  <2>4. ou[j] # Root
    BY <1>3, <2>3
  <2>5. ou[j] \in N /\ hd[ou[j]] \in nl[m]
    BY <1>3, <2>3, <2>4
  <2> QED
    BY <2>2, <2>5
<1>9. E \subseteq en[k]
  BY <1>7, <1>8
<1> QED
  BY <1>5, <1>9

\* The tree of loops is that of the natural loops.
LEMMA TreeIsNest ==
  ASSUME NEW R \in SUBSET Ids, NEW hd, NEW N, NEW nl, Nests(R, hd, N, nl), Root \in DOMAIN hd,
         NEW bl, NEW ou, NEW lp, ListedAs(R, N, hd, bl, ou, lp), InTree(R, N, hd, nl, ou, lp),
         NEW en, EnclosesAs(DOMAIN hd, ou, en)
  PROVE  /\ \A l \in DOMAIN hd \ {Root} : Root \in en[l] /\ l \notin en[ou[l]]
         /\ \A l \in N, b \in R : l \in en[lp[b]] <=> b \in nl[l]
<1>1. /\ N \in SUBSET (DOMAIN hd \ {Root}) /\ Root # None
      /\ \A l, m \in N : hd[l] = hd[m] => l = m
      /\ \A l \in N : hd[l] \in nl[l] /\ nl[l] \subseteq R
      /\ \A l, m \in N : hd[l] \in nl[m] => nl[l] \subseteq nl[m]
      /\ \A l, m \in N : l # m => hd[l] \notin nl[m] \/ hd[m] \notin nl[l]
  BY NullLoopAssumption DEF Nests, Root
<1>2. /\ \A l \in N : lp[hd[l]] = l /\ ou[l] \in N \cup {Root}
      /\ \A b \in R : lp[b] \in N \cup {Root}
      /\ ou[Root] = None
      /\ \A l \in DOMAIN hd \ (N \cup {Root}) : ou[l] = Root
  BY DEF ListedAs
<1>3. ASSUME NEW k \in N PROVE en[k] = {m \in N : hd[k] \in nl[m]} \cup {Root}
  BY TreeEncloses
<1>4. /\ \A l \in DOMAIN hd : Root \notin N /\ l \in en[l]
      /\ \A C \in SUBSET DOMAIN hd : \A l \in C : (\A m \in C : ou[m] # None => ou[m] \in C) => en[l] \subseteq C
      /\ \A l \in DOMAIN hd : \A m \in en[l] : ou[m] # None => ou[m] \in en[l]
  BY <1>1 DEF EnclosesAs
<1>5. en[Root] = {Root}
  <2>1. {Root} \in SUBSET DOMAIN hd /\ \A m \in {Root} : ou[m] # None => ou[m] \in {Root}
    BY <1>2
  <2>2. en[Root] \subseteq {Root}
    BY <1>4, <2>1
  <2> QED
    BY <1>4, <2>2
<1>6. ASSUME NEW l \in DOMAIN hd \ {Root} PROVE Root \in en[l] /\ l \notin en[ou[l]]
  <2>1. CASE l \in N
    <3>1. Root \in en[l]
      BY <1>3, <2>1
    <3>2. CASE ou[l] = Root
      BY <1>5, <3>1, <3>2
    <3>3. CASE ou[l] # Root
      <4>1. PICK u : u = ou[l]
        OBVIOUS
      <4>2. u \in N
        BY <1>2, <2>1, <3>3, <4>1
      <4>3. u \in AllAround(N, hd, nl, hd[l])
        <5>1. hd[l] \in R /\ lp[hd[l]] = l
          BY <1>1, <1>2, <2>1
        <5>2. Above(hd, ou, lp, hd[l]) = u
          BY <4>1, <5>1 DEF Above
        <5> QED
          BY <3>3, <4>1, <5>1, <5>2 DEF InTree
      <4>4. hd[l] \in nl[u] /\ u # l
        BY <4>3 DEF AllAround
      <4>5. hd[u] \notin nl[l]
        BY <1>1, <2>1, <4>2, <4>4
      <4>6. l \notin en[u]
        BY <1>3, <4>2, <4>5
      <4> QED
        BY <3>1, <4>1, <4>6
    <3> QED
      BY <3>2, <3>3
  <2>2. CASE l \notin N
    <3>1. ou[l] = Root
      BY <1>2, <2>2
    <3>2. Root \in en[l]
      BY <1>1, <1>4, <3>1
    <3> QED
      BY <1>5, <3>1, <3>2
  <2> QED
    BY <2>1, <2>2
<1>7. ASSUME NEW l \in N, NEW b \in R PROVE l \in en[lp[b]] <=> b \in nl[l]
  <2>1. l # Root
    BY <1>1
  <2>2. b = hd[l] => lp[b] = l
    BY <1>2
  <2>3. CASE lp[b] = Root
    <3>1. AllAround(N, hd, nl, b) = {}
      BY <2>3 DEF InTree, Above
    <3>2. l \notin AllAround(N, hd, nl, b)
      BY <3>1
    <3>3. b \notin nl[l]
      BY <2>1, <2>2, <2>3, <3>2 DEF AllAround
    <3> QED
      BY <1>5, <2>1, <2>3, <3>3
  <2>4. CASE lp[b] # Root
    <3>1. PICK k : k = lp[b]
      OBVIOUS
    <3>2. k \in N /\ k # Root
      BY <1>2, <2>4, <3>1
    <3>3. l \in en[k] <=> hd[k] \in nl[l]
      BY <1>3, <2>1, <3>2
    <3>4. CASE b = hd[k]
      BY <3>1, <3>3, <3>4
    <3>5. CASE b # hd[k]
      <4>1. Above(hd, ou, lp, b) = k
        BY <2>4, <3>1, <3>5 DEF Above
      <4>2. k \in AllAround(N, hd, nl, b) /\ \A j \in AllAround(N, hd, nl, b) : hd[k] \in nl[j]
        BY <3>2, <4>1 DEF InTree
      <4>3. b \in nl[k]
        BY <4>2 DEF AllAround
      <4>4. hd[k] \in nl[l] => b \in nl[l]
        BY <1>1, <3>2, <4>3
      <4>5. b # hd[l]
        BY <2>2, <3>1, <3>5
      <4>6. b \in nl[l] => hd[k] \in nl[l]
        BY <4>2, <4>5 DEF AllAround
      <4> QED
        BY <3>1, <3>3, <4>4, <4>6
    <3> QED
      BY <3>4, <3>5
  <2> QED
    BY <2>3, <2>4
<1> QED
  BY <1>6, <1>7

-----------------------------------------------------------------------------
\* The search of PopulateLoop comes to the back edges, to the predecessors of what it
\* comes to, but for the header, and to nothing else.
LEMMA SearchedLeast ==
  ASSUME graph \in Graphs, NEW l, ToSet(l.back_edges) \subseteq Ids
  PROVE  /\ Searched(l) \subseteq Ids /\ ToSet(l.back_edges) \subseteq Searched(l)
         /\ \A c \in Searched(l) : graph.preds[c] \ {l.header} \subseteq Searched(l)
         /\ \A C \in SUBSET Ids :
              ToSet(l.back_edges) \subseteq C /\ (\A c \in C : graph.preds[c] \ {l.header} \subseteq C)
              => Searched(l) \subseteq C
<1> DEFINE a == ToSet(l.back_edges)
           R[n \in Nat] == IF n = 0 THEN ToSet(l.back_edges)
                           ELSE LET P == R[n - 1]
                                IN  P \cup ((UNION {graph.preds[b] : b \in P}) \ {l.header})
           step == [P \in SUBSET Ids |-> P \cup ((UNION {graph.preds[b] : b \in P}) \ {l.header})]
           Rule(f) == f = [n \in Nat |-> IF n = 0 THEN ToSet(l.back_edges)
                           ELSE LET P == f[n - 1]
                                IN  P \cup ((UNION {graph.preds[b] : b \in P}) \ {l.header})]
<1>1. step \in [SUBSET Ids -> SUBSET Ids] /\ a \in SUBSET Ids
  <2>1. \A b \in Ids : graph.preds[b] \subseteq Ids
    BY DEF Graphs
  <2> QED
    BY <2>1
<1>2. PICK f \in [Nat -> SUBSET Ids] : f[0] = a /\ \A n \in Nat : f[n + 1] = step[f[n]]
  <2> DEFINE S == SUBSET Ids
  <2>1. a \in S /\ step \in [S -> S]
    BY <1>1
  <2> HIDE DEF step, S, a
  <2>2. \E f \in [Nat -> S] : f[0] = a /\ \A n \in Nat : f[n + 1] = step[f[n]]
    BY <2>1, Recursion
  <2> QED
    BY <2>2 DEF S
<1>3. Rule(f)
  <2>1. ASSUME NEW n \in Nat, n # 0
        PROVE  f[n] = f[n - 1] \cup ((UNION {graph.preds[b] : b \in f[n - 1]}) \ {l.header})
    <3>1. n - 1 \in Nat /\ n = (n - 1) + 1
      BY <2>1
    <3>2. f[n] = step[f[n - 1]]
      BY <1>2, <3>1
    <3> QED
      BY <1>2, <3>1, <3>2
  <2> QED
    BY <1>2, <2>1
<1>4. R = CHOOSE x : Rule(x)
  OBVIOUS
<1>5. Rule(R)
  <2> HIDE DEF Rule
  <2> QED
    BY <1>3, <1>4
<1> HIDE DEF R
<1>6. R[0] = a
  BY <1>5
<1>7. ASSUME NEW n \in Nat, R[n] \in SUBSET Ids PROVE R[n + 1] = step[R[n]]
  <2>1. n + 1 \in Nat /\ n + 1 # 0 /\ (n + 1) - 1 = n
    OBVIOUS
  <2>2. R[n + 1] = R[n] \cup ((UNION {graph.preds[b] : b \in R[n]}) \ {l.header})
    BY <1>5, <2>1
  <2> QED
    BY <1>7, <2>2
<1>8. Searched(l) = R[Cardinality(Ids)]
  BY DEF Searched, R
<1>9. IsIteration(Ids, a, step, R)
  BY <1>1, <1>6, <1>7 DEF IsIteration
<1> DEFINE Q == Searched(l)
<1>10. IsLeastFixpoint(Ids, a, step, Q)
  BY <1>8, <1>9, FiniteIds, Iterates
<1>11. \A c \in Q : graph.preds[c] \ {l.header} \subseteq Q
  BY <1>10 DEF IsLeastFixpoint
<1>12. ASSUME NEW C \in SUBSET Ids, a \subseteq C, \A c \in C : graph.preds[c] \ {l.header} \subseteq C
       PROVE  Q \subseteq C
  <2>1. ASSUME NEW P \in SUBSET Ids, P \subseteq C PROVE step[P] \subseteq C
    BY <1>12, <2>1
  <2> HIDE DEF step
  <2> QED
    BY <1>10, <1>12, <2>1 DEF IsLeastFixpoint
<1> QED
  BY <1>10, <1>11, <1>12 DEF IsLeastFixpoint

\* Enclosing has the loop, the one it is in, and so on, and nothing else.
LEMMA EnclosingLeast ==
  ASSUME LoopIds = 1 .. Len(loops_), Len(loops_) \in Nat,
         \A m \in LoopIds : loops_[m].outer_loop \in LoopIds \cup {None}, NEW l \in LoopIds
  PROVE  /\ Enclosing(l) \subseteq LoopIds /\ l \in Enclosing(l)
         /\ \A m \in Enclosing(l) : loops_[m].outer_loop # None
                                    => loops_[m].outer_loop \in Enclosing(l)
         /\ \A C \in SUBSET LoopIds :
              l \in C /\ (\A m \in C : loops_[m].outer_loop # None => loops_[m].outer_loop \in C)
              => Enclosing(l) \subseteq C
<1> DEFINE D == LoopIds
           R[n \in Nat] == IF n = 0 THEN {l}
                           ELSE LET P == R[n - 1] IN P \cup ({loops_[m].outer_loop : m \in P} \ {None})
           step == [P \in SUBSET D |-> P \cup ({loops_[m].outer_loop : m \in P} \ {None})]
           Rule(f) == f = [n \in Nat |-> IF n = 0 THEN {l}
                           ELSE LET P == f[n - 1] IN P \cup ({loops_[m].outer_loop : m \in P} \ {None})]
<1>1. step \in [SUBSET D -> SUBSET D] /\ {l} \in SUBSET D
  <2>1. \A P \in SUBSET D : {loops_[m].outer_loop : m \in P} \ {None} \subseteq D
    OBVIOUS
  <2> HIDE DEF D
  <2>2. \A P \in SUBSET D : P \cup ({loops_[m].outer_loop : m \in P} \ {None}) \in SUBSET D
    BY <2>1
  <2> QED
    BY <2>2 DEF D
<1>2. PICK f \in [Nat -> SUBSET D] : f[0] = {l} /\ \A n \in Nat : f[n + 1] = step[f[n]]
  <2> DEFINE S == SUBSET D
             a == {l}
  <2>1. a \in S /\ step \in [S -> S]
    BY <1>1
  <2> HIDE DEF step, S, a
  <2>2. \E f : IsRun(S, a, step, f)
    BY <2>1, RunExists
  <2> QED
    BY <2>2 DEF S, a, IsRun
<1>3. Rule(f)
  <2>1. ASSUME NEW n \in Nat, n # 0
        PROVE  f[n] = f[n - 1] \cup ({loops_[m].outer_loop : m \in f[n - 1]} \ {None})
    <3>1. n - 1 \in Nat /\ n = (n - 1) + 1
      BY <2>1
    <3>2. f[n] = step[f[n - 1]]
      BY <1>2, <3>1
    <3> QED
      BY <1>2, <3>1, <3>2
  <2> QED
    BY <1>2, <2>1
<1>4. R = CHOOSE x : Rule(x)
  OBVIOUS
<1>5. Rule(R)
  <2> HIDE DEF Rule
  <2> QED
    BY <1>3, <1>4
<1> HIDE DEF R
<1>6. R[0] = {l}
  BY <1>5
<1>7. ASSUME NEW n \in Nat, R[n] \in SUBSET D PROVE R[n + 1] = step[R[n]]
  <2>1. n + 1 \in Nat /\ n + 1 # 0 /\ (n + 1) - 1 = n
    OBVIOUS
  <2>2. R[n + 1] = R[n] \cup ({loops_[m].outer_loop : m \in R[n]} \ {None})
    BY <1>5, <2>1
  <2> QED
    BY <1>7, <2>2
<1>8. IsFiniteSet(D) /\ Cardinality(D) = Len(loops_)
  BY FS_Interval
<1>9. Enclosing(l) = R[Cardinality(D)]
  BY <1>8 DEF Enclosing, R
<1>10. IsIteration(D, {l}, step, R)
  <2>1. \A P \in SUBSET D : P \subseteq step[P]
    OBVIOUS
  <2> HIDE DEF step, D
  <2> QED
    BY <1>1, <1>6, <1>7, <2>1 DEF IsIteration
<1> DEFINE Q == Enclosing(l)
<1>11. IsLeastFixpoint(D, {l}, step, Q)
  <2> HIDE DEF step, D
  <2> QED
    BY <1>8, <1>9, <1>10, Iterates
<1>12. Q \in SUBSET D /\ {l} \subseteq Q /\ step[Q] = Q
  BY <1>11 DEF IsLeastFixpoint
<1> HIDE DEF Q
<1>13. \A m \in Q : loops_[m].outer_loop # None => loops_[m].outer_loop \in Q
  BY <1>12
<1>14. ASSUME NEW C \in SUBSET D, l \in C, \A m \in C : loops_[m].outer_loop # None => loops_[m].outer_loop \in C
       PROVE  Q \subseteq C
  <2>1. ASSUME NEW P \in SUBSET D, P \subseteq C PROVE step[P] \subseteq C
    BY <1>14, <2>1
  <2> HIDE DEF step
  <2> QED
    BY <1>11, <1>14, <2>1 DEF IsLeastFixpoint
<1> QED
  BY <1>12, <1>13, <1>14 DEF Q

\* From a back edge of a block that dominates it, of the blocks that can be reached
\* just those of the natural loop are come to, but for the header.
LEMMA SearchOfLoop ==
  ASSUME WF(graph), Start \in graph.blocks, NEW L, NEW h, NEW e, L.header = h, L.back_edges = <<e>>,
         LeadsBack(graph, h, e)
  PROVE  Searched(L) \subseteq Ids /\ Searched(L) \cap Reachable(graph) = LoopOf(graph, h, e) \ {h}
<1> DEFINE R == Reachable(graph)
           S == Searched(L)
<1>1. /\ graph \in Graphs /\ R \subseteq graph.blocks /\ graph.blocks \subseteq Ids
      /\ h \in R /\ e \in R /\ e # h
      /\ \A b \in R : SuccSet(graph, b) \subseteq R
  BY ReachableBlocks, ReachableFacts DEF LeadsBack
<1>2. \A b, c \in graph.blocks : b \in graph.preds[c] <=> c \in SuccSet(graph, b)
  BY DEF WF, Shape, Symmetric
<1>3. \A c \in graph.blocks : graph.preds[c] \subseteq graph.blocks
  BY DEF WF, Shape, NoDangling
<1>4. ToSet(L.back_edges) = {e}
  BY OneBackEdge
<1>5. /\ S \subseteq Ids /\ e \in S /\ \A c \in S : graph.preds[c] \ {h} \subseteq S
      /\ \A C \in SUBSET Ids : e \in C /\ (\A c \in C : graph.preds[c] \ {h} \subseteq C) => S \subseteq C
  BY <1>1, <1>4, SearchedLeast
<1> HIDE DEF S, R
<1>6. S \subseteq {b \in graph.blocks \ {h} : e \in ReachAvoiding(graph, b, {h})}
  <2> DEFINE W == {b \in graph.blocks \ {h} : e \in ReachAvoiding(graph, b, {h})}
  <2>1. W \in SUBSET Ids
    BY <1>1
  <2>2. e \in W
    BY <1>1, ReachCloses
  <2>3. ASSUME NEW c \in W, NEW b \in graph.preds[c] \ {h} PROVE b \in W
    <3>1. b \in graph.blocks /\ b \in Ids /\ c \in graph.blocks /\ c # h /\ c \in Ids
      BY <1>1, <1>3
    <3>2. c \in SuccSet(graph, b)
      BY <1>2, <3>1
    <3>3. b \in ReachAvoiding(graph, b, {h})
      BY <1>1, <2>3, <3>1, ReachCloses
    <3>4. c \in ReachAvoiding(graph, b, {h})
      BY <1>1, <3>1, <3>2, <3>3, ReachCloses
    <3>5. e \in ReachAvoiding(graph, b, {h})
      BY <1>1, <3>1, <3>4, ReachJoins
    <3> QED
      BY <2>3, <3>1, <3>5
  <2> HIDE DEF W
  <2>4. S \subseteq W
    BY <1>5, <2>1, <2>2, <2>3
  <2> QED
    BY <2>4 DEF W
<1>7. ASSUME NEW b \in R, b # h, e \in ReachAvoiding(graph, b, {h}), b \notin S PROVE FALSE
  <2> DEFINE Q == (R \ S) \ {h}
  <2>1. Q \in SUBSET Ids /\ b \in Q
    BY <1>1, <1>7
  <2>2. ASSUME NEW c \in Q, NEW d \in SuccSet(graph, c) \ {h} PROVE d \in Q
    <3>1. d \in R /\ c \in graph.blocks /\ d \in graph.blocks
      BY <1>1
    <3>2. c \in graph.preds[d]
      BY <1>2, <3>1
    <3>3. d \notin S
      BY <1>5, <3>2
    <3> QED
      BY <3>1, <3>3
  <2> HIDE DEF Q
  <2>3. b \in Ids /\ \A c \in Q : SuccSet(graph, c) \ {h} \subseteq Q
    BY <1>1, <2>1, <2>2
  <2>4. ReachAvoiding(graph, b, {h}) \subseteq Q
    BY <1>1, <2>1, <2>3, ReachInClosed
  <2> QED
    BY <1>5, <1>7, <2>4 DEF Q
<1>8. ASSUME NEW b \in R PROVE b \in S <=> b # h /\ e \in ReachAvoiding(graph, b, {h})
  BY <1>6, <1>7
<1>9. LoopOf(graph, h, e) = {b \in R : b = h \/ e \in ReachAvoiding(graph, b, {h})}
  BY DEF LoopOf, R
<1>10. S \cap R = LoopOf(graph, h, e) \ {h}
  BY <1>8, <1>9
<1> QED
  BY <1>5, <1>10 DEF R, S

\* The start block is in front of every block; it is come to from a block that is its
\* own back edge, and not in a natural loop.
LEMMA SearchOfBlock ==
  ASSUME WF(graph), Start \in graph.blocks, NEW L, NEW h \in Reachable(graph), h # Start,
         L.header = h, L.back_edges = <<h>>
  PROVE  Searched(L) \subseteq Ids /\ Start \in Searched(L)
<1> DEFINE R == Reachable(graph)
           S == Searched(L)
<1>1. /\ graph \in Graphs /\ R \subseteq graph.blocks /\ graph.blocks \subseteq Ids
      /\ Start \in R /\ \A b \in R : SuccSet(graph, b) \subseteq R
  BY ReachableBlocks, ReachableFacts
<1>2. \A b, c \in graph.blocks : b \in graph.preds[c] <=> c \in SuccSet(graph, b)
  BY DEF WF, Shape, Symmetric
<1>3. ToSet(L.back_edges) = {h}
  BY OneBackEdge
<1>4. S \subseteq Ids /\ h \in S /\ \A c \in S : graph.preds[c] \ {h} \subseteq S
  BY <1>1, <1>3, SearchedLeast
<1> HIDE DEF S
<1>5. ASSUME Start \notin S PROVE FALSE
  <2> DEFINE Q == R \ S
  <2>1. Q \in SUBSET Ids /\ Start \in Q
    BY <1>1, <1>5
  <2>2. ASSUME NEW c \in Q, NEW d \in SuccSet(graph, c) PROVE d \in Q
    <3>1. d \in R /\ c \in graph.blocks /\ d \in graph.blocks
      BY <1>1
    <3>2. c \in graph.preds[d]
      BY <1>2, <3>1
    <3>3. d \notin S
      BY <1>4, <3>2
    <3> QED
      BY <3>1, <3>3
  <2> HIDE DEF Q
  <2>3. R \subseteq Q
    BY <1>1, <2>1, <2>2, ReachableInClosed
  <2> QED
    BY <1>4, <2>3 DEF Q
<1> QED
  BY <1>4, <1>5 DEF S

-----------------------------------------------------------------------------
\* The loops as functions of their positions.
Hd == [l \in LoopIds |-> loops_[l].header]

Bl == [l \in LoopIds |-> loops_[l].blocks]

Ou == [l \in LoopIds |-> loops_[l].outer_loop]

NLs == [l \in Natural |-> NaturalLoop(l)]

\* What is known of the loops that are to be populated.
LoopsReady ==
  /\ loops_ \in Seq(LoopRecords) /\ Root \in LoopIds /\ loops_[Root].is_reducible
  /\ \A l \in LoopIds : loops_[l].outer_loop \in LoopIds \cup {None}
  /\ \A l \in LoopIds \ {Root} : loops_[l].header \in Reachable(graph) \ {Start}
  /\ \A l, m \in LoopIds \ {Root} : loops_[l].header = loops_[m].header => l = m
  /\ \A l \in LoopIds \ {Root} :
       loops_[l].is_reducible <=> \A x \in ToSet(loops_[l].back_edges) :
                                    Dominates(graph, loops_[l].header, x)
  /\ \A l \in Natural : \E e \in Reachable(graph) :
       loops_[l].back_edges = <<e>> /\ loops_[l].header \in SuccSet(graph, e)

\* A reducible loop is made by one edge back to a block that dominates.
LEMMA ReadyLoop ==
  ASSUME graph \in Graphs, LoopsReady, NEW l \in Natural
  PROVE  \E e : /\ loops_[l].back_edges = <<e>> /\ e \in Reachable(graph)
                /\ l \in SingleBlockLoops <=> e = loops_[l].header
                /\ l \notin SingleBlockLoops =>
                     /\ LeadsBack(graph, loops_[l].header, e)
                     /\ NaturalLoop(l) = LoopOf(graph, loops_[l].header, e)
                /\ l \in SingleBlockLoops => NaturalLoop(l) \subseteq {loops_[l].header}
<1>1. PICK h : h = loops_[l].header
  OBVIOUS
<1>2. PICK e \in Reachable(graph) : loops_[l].back_edges = <<e>> /\ h \in SuccSet(graph, e)
  BY <1>1 DEF LoopsReady
<1>3. ToSet(loops_[l].back_edges) = {e}
  BY <1>2, OneBackEdge
<1>4. l \in LoopIds \ {Root} /\ loops_[l].is_reducible
  BY DEF Natural
<1>5. Dominates(graph, h, e) /\ h \in Reachable(graph)
  BY <1>1, <1>3, <1>4 DEF LoopsReady
<1>6. l \in SingleBlockLoops <=> e = h
  BY <1>1, <1>3 DEF SingleBlockLoops
<1>7. NaturalLoop(l) = LoopOf(graph, h, e)
  BY <1>1, <1>3 DEF NaturalLoop, LoopOf
<1>8. e # h => LeadsBack(graph, h, e)
  BY <1>2, <1>5 DEF LeadsBack
<1>9. ASSUME e = h PROVE NaturalLoop(l) \subseteq {h}
  <2>1. ASSUME NEW b \in Reachable(graph) PROVE h \notin ReachAvoiding(graph, b, {h})
    <3>1. b \in Ids
      BY ReachableFacts
    <3>2. ReachAvoiding(graph, b, {h}) \cap {h} = {}
      BY <3>1, ReachStaysOut
    <3> QED
      BY <3>2
  <2> QED
    BY <1>7, <1>9, <2>1 DEF LoopOf
<1> QED
  BY <1>1, <1>2, <1>6, <1>7, <1>8, <1>9

\* Then the natural loops lie in one another or apart.
LEMMA ReadyNests ==
  ASSUME graph \in Graphs, LoopsReady, SingleBlockLoops = {}
  PROVE  /\ Nests(Reachable(graph), Hd, Natural, NLs)
         /\ \A l \in Natural : \A b \in NLs[l] : Dominates(graph, Hd[l], b)
<1> DEFINE R == Reachable(graph)
<1>1. /\ LoopIds = 1 .. Len(loops_) /\ Len(loops_) \in Nat
      /\ \A l \in LoopIds \ {Root} : Hd[l] \in R /\ Hd[l] = loops_[l].header
      /\ \A l, m \in LoopIds \ {Root} : Hd[l] = Hd[m] => l = m
  <2>1. loops_ \in Seq(LoopRecords)
    BY DEF LoopsReady
  <2>2. LoopIds = 1 .. Len(loops_) /\ Len(loops_) \in Nat
    BY <2>1 DEF LoopIds
  <2>3. \A l \in LoopIds : Hd[l] = loops_[l].header
    BY DEF Hd
  <2>4. /\ \A l \in LoopIds \ {Root} : loops_[l].header \in R
        /\ \A l, m \in LoopIds \ {Root} : loops_[l].header = loops_[m].header => l = m
    BY DEF LoopsReady
  <2> QED
    BY <2>2, <2>3, <2>4
<1>2. DOMAIN Hd = LoopIds /\ LoopIds \in SUBSET Nat /\ Natural \in SUBSET (LoopIds \ {Root})
  BY <1>1 DEF Hd, Natural
<1>3. ASSUME NEW l \in Natural PROVE \E e : LeadsBack(graph, Hd[l], e) /\ NLs[l] = LoopOf(graph, Hd[l], e)
  <2>1. Hd[l] = loops_[l].header /\ NLs[l] = NaturalLoop(l)
    BY <1>1, <1>2 DEF NLs
  <2>2. l \notin SingleBlockLoops
    OBVIOUS
  <2> QED
    BY <2>1, <2>2, ReadyLoop
<1>4. ASSUME NEW l \in Natural PROVE Hd[l] \in NLs[l] /\ NLs[l] \subseteq R
  BY <1>3 DEF LoopOf, LeadsBack
<1>5. ASSUME NEW l \in Natural, NEW b \in NLs[l] PROVE Dominates(graph, Hd[l], b)
  BY <1>3, HeaderDominates
<1> HIDE DEF Hd, NLs, R
<1>6. ASSUME NEW l \in Natural, NEW m \in Natural, Hd[l] \in NLs[m] PROVE NLs[l] \subseteq NLs[m]
  <2>1. CASE l = m
    BY <2>1
  <2>2. CASE l # m
    <3>1. Hd[l] # Hd[m]
      BY <1>1, <1>2, <2>2
    <3>2. PICK e : LeadsBack(graph, Hd[l], e) /\ NLs[l] = LoopOf(graph, Hd[l], e)
      BY <1>3
    <3>3. PICK f : LeadsBack(graph, Hd[m], f) /\ NLs[m] = LoopOf(graph, Hd[m], f)
      BY <1>3
    <3> QED
      BY <1>6, <3>1, <3>2, <3>3, LoopInside
  <2> QED
    BY <2>1, <2>2
<1>7. ASSUME NEW l \in Natural, NEW m \in Natural, l # m, Hd[l] \in NLs[m], Hd[m] \in NLs[l] PROVE FALSE
  <2>1. Dominates(graph, Hd[m], Hd[l]) /\ Dominates(graph, Hd[l], Hd[m])
    BY <1>5, <1>7
  <2>2. Hd[l] \in Reachable(graph) /\ Hd[m] \in Reachable(graph)
    BY <1>1, <1>2 DEF R
  <2>3. Hd[l] = Hd[m]
    BY <2>1, <2>2, DominanceOneWay
  <2> QED
    BY <1>1, <1>2, <1>7, <2>3
<1>8. ASSUME NEW l \in Natural, NEW m \in Natural, NEW b \in NLs[l] \cap NLs[m]
      PROVE  Hd[l] \in NLs[m] \/ Hd[m] \in NLs[l]
  <2>1. CASE l = m
    BY <1>4, <2>1
  <2>2. CASE l # m
    <3>1. Hd[l] # Hd[m]
      BY <1>1, <1>2, <2>2
    <3>2. PICK e : LeadsBack(graph, Hd[l], e) /\ NLs[l] = LoopOf(graph, Hd[l], e)
      BY <1>3
    <3>3. PICK f : LeadsBack(graph, Hd[m], f) /\ NLs[m] = LoopOf(graph, Hd[m], f)
      BY <1>3
    <3> QED
      BY <1>8, <3>1, <3>2, <3>3, LoopsNested
  <2> QED
    BY <2>1, <2>2
<1> HIDE DEF Natural, LoopIds
<1>9. Nests(R, Hd, Natural, NLs)
  BY <1>1, <1>2, <1>4, <1>6, <1>7, <1>8 DEF Nests
<1> QED
  BY <1>5, <1>9 DEF R

-----------------------------------------------------------------------------
\* The blocks that are marked as headers: those of the natural loops and, of the
\* others, those that are to come.
Marked(N, hd, lp, isH, T) ==
  LET M == {l \in DOMAIN hd \ {Root} : l \in N \/ hd[l] \in T}
  IN  /\ \A l \in M : lp[hd[l]] = l
      /\ isH = {hd[l] : l \in M}

\* The start block is in no loop but one of B, and in one once one of B has been come to.
StartIn(B, hd, lp, T) ==
  /\ lp[Start] \in B \cup {None}
  /\ \A l \in B : hd[l] \notin T => lp[Start] # None

\* What is known of the headers: each is the header of one loop.
OwnHeaders(hd, N) ==
  /\ DOMAIN hd \in SUBSET Nat /\ N \in SUBSET (DOMAIN hd \ {Root})
  /\ \A l \in DOMAIN hd \ {Root} : hd[l] \in Ids \ {Start}
  /\ \A l, m \in DOMAIN hd \ {Root} : hd[l] = hd[m] => l = m

\* A header that comes is that of the loop it is in.
LEMMA MarkedHeader ==
  ASSUME NEW hd, NEW N, NEW lp, NEW isH, NEW T, Marked(N, hd, lp, isH, T), NEW h \in isH
  PROVE  lp[h] \in DOMAIN hd \ {Root} /\ hd[lp[h]] = h
BY DEF Marked

\* Natural loop m takes in the free blocks of S.
LEMMA PopulateMarks ==
  ASSUME NEW hd, NEW N, OwnHeaders(hd, N), NEW lp, NEW isH, NEW T, Marked(N, hd, lp, isH, T),
         NEW m \in N, NEW S, NEW lp2,
         \A b \in Ids : lp2[b] = IF b \in {c \in S : lp[c] = None} THEN m ELSE lp[b],
         NEW B, B \subseteq N, StartIn(B, hd, lp, T), (m \in B /\ Start \in S) \/ (m \notin B /\ Start \notin S)
  PROVE  Marked(N, hd, lp2, isH, T \ {hd[m]}) /\ StartIn(B, hd, lp2, T \ {hd[m]})
<1> DEFINE M == {l \in DOMAIN hd \ {Root} : l \in N \/ hd[l] \in T}
           M2 == {l \in DOMAIN hd \ {Root} : l \in N \/ hd[l] \in T \ {hd[m]}}
<1>1. /\ N \in SUBSET (DOMAIN hd \ {Root}) /\ None \notin DOMAIN hd /\ Start \in Ids
      /\ \A l \in DOMAIN hd \ {Root} : hd[l] \in Ids \ {Start}
      /\ \A l, k \in DOMAIN hd \ {Root} : hd[l] = hd[k] => l = k
  BY NullLoopAssumption, FlowGraphAssumption DEF OwnHeaders
<1>2. (\A l \in M : lp[hd[l]] = l) /\ isH = {hd[l] : l \in M}
  BY DEF Marked
<1>3. M2 = M
  BY <1>1
<1>4. \A l \in M : lp2[hd[l]] = l
  BY <1>1, <1>2
<1>5. Marked(N, hd, lp2, isH, T \ {hd[m]})
  <2> HIDE DEF M
  <2> QED
    BY <1>2, <1>3, <1>4 DEF Marked
<1>6. (lp[Start] \in B \cup {None}) /\ \A l \in B : hd[l] \notin T => lp[Start] # None
  BY DEF StartIn
<1>7. lp2[Start] \in B \cup {None}
  BY <1>1, <1>6
<1>8. ASSUME NEW l \in B, hd[l] \notin T \ {hd[m]} PROVE lp2[Start] # None
  BY <1>1, <1>6, <1>8
<1> QED
  BY <1>5, <1>7, <1>8 DEF StartIn

\* The header h of a loop that is not natural is dropped.
LEMMA DropMarks ==
  ASSUME NEW hd, NEW N, OwnHeaders(hd, N), NEW lp, NEW isH, NEW T, Marked(N, hd, lp, isH, T),
         NEW l \in DOMAIN hd \ (N \cup {Root}), NEW lp2, \A b \in Ids \ {hd[l]} : lp2[b] = lp[b],
         NEW B, B \subseteq N, StartIn(B, hd, lp, T)
  PROVE  Marked(N, hd, lp2, isH \ {hd[l]}, T \ {hd[l]}) /\ StartIn(B, hd, lp2, T \ {hd[l]})
<1> DEFINE M == {k \in DOMAIN hd \ {Root} : k \in N \/ hd[k] \in T}
           M2 == {k \in DOMAIN hd \ {Root} : k \in N \/ hd[k] \in T \ {hd[l]}}
<1>1. /\ N \in SUBSET (DOMAIN hd \ {Root}) /\ Start \in Ids
      /\ \A k \in DOMAIN hd \ {Root} : hd[k] \in Ids \ {Start}
      /\ \A j, k \in DOMAIN hd \ {Root} : hd[j] = hd[k] => j = k
  BY FlowGraphAssumption DEF OwnHeaders
<1>2. (\A k \in M : lp[hd[k]] = k) /\ isH = {hd[k] : k \in M}
  BY DEF Marked
<1>3. M2 = M \ {l}
  BY <1>1
<1>4. \A k \in M2 : hd[k] # hd[l] /\ hd[k] \in Ids
  BY <1>1
<1>5. \A k \in M2 : lp2[hd[k]] = k
  BY <1>2, <1>3, <1>4
<1>6. isH \ {hd[l]} = {hd[k] : k \in M2}
  <2> HIDE DEF M, M2
  <2> QED
    BY <1>2, <1>3, <1>4
<1>7. Marked(N, hd, lp2, isH \ {hd[l]}, T \ {hd[l]})
  BY <1>5, <1>6 DEF Marked
<1>8. hd[l] # Start /\ \A k \in B : hd[k] # hd[l]
  BY <1>1
<1> QED
  BY <1>1, <1>7, <1>8 DEF StartIn

\* A block that is no header is passed.
LEMMA PassMarks ==
  ASSUME NEW hd, NEW N, OwnHeaders(hd, N), NEW lp, NEW isH, NEW T, Marked(N, hd, lp, isH, T),
         NEW h \in T \ isH, NEW B, B \subseteq N, StartIn(B, hd, lp, T)
  PROVE  /\ Marked(N, hd, lp, isH, T \ {h}) /\ StartIn(B, hd, lp, T \ {h})
         /\ \A l \in DOMAIN hd \ {Root} : hd[l] # h
<1> DEFINE M == {k \in DOMAIN hd \ {Root} : k \in N \/ hd[k] \in T}
           M2 == {k \in DOMAIN hd \ {Root} : k \in N \/ hd[k] \in T \ {h}}
<1>1. (\A k \in M : lp[hd[k]] = k) /\ isH = {hd[k] : k \in M}
  BY DEF Marked
<1>2. \A l \in DOMAIN hd \ {Root} : hd[l] # h
  BY <1>1
<1>3. M2 = M
  BY <1>2
<1>4. Marked(N, hd, lp, isH, T \ {h})
  <2> HIDE DEF M
  <2> QED
    BY <1>1, <1>3 DEF Marked
<1>5. \A l \in B : hd[l] # h
  BY <1>2 DEF OwnHeaders
<1> QED
  BY <1>2, <1>4, <1>5 DEF StartIn

-----------------------------------------------------------------------------
\* The steps of PopulateLoops change only the blocks of the loops and what they are in.
KeepsLoops ==
  /\ LoopIds' = LoopIds /\ graph' = graph /\ loops_' \in Seq(LoopRecords)
  /\ \A l \in LoopIds : /\ loops_'[l].header = loops_[l].header
                        /\ loops_'[l].back_edges = loops_[l].back_edges
                        /\ loops_'[l].is_reducible = loops_[l].is_reducible
                        /\ loops_'[l].outer_loop \in LoopIds \cup {None}

LEMMA KeptReady ==
  ASSUME LoopsReady, KeepsLoops
  PROVE  /\ LoopsReady' /\ Hd' = Hd /\ Natural' = Natural /\ NLs' = NLs
         /\ SingleBlockLoops' = SingleBlockLoops
<1>1. /\ LoopIds' = LoopIds /\ graph' = graph /\ loops_' \in Seq(LoopRecords)
      /\ \A l \in LoopIds : /\ loops_'[l].header = loops_[l].header
                            /\ loops_'[l].back_edges = loops_[l].back_edges
                            /\ loops_'[l].is_reducible = loops_[l].is_reducible
                            /\ loops_'[l].outer_loop \in LoopIds \cup {None}
  BY DEF KeepsLoops
<1>2. Hd' = Hd
  BY <1>1 DEF Hd
<1>3. Natural' = Natural
  BY <1>1 DEF Natural
<1>4. Natural \subseteq LoopIds \ {Root}
  BY DEF Natural
<1>5. ASSUME NEW l \in Natural PROVE NaturalLoop(l)' = NaturalLoop(l)
  BY <1>1, <1>4 DEF NaturalLoop
<1>6. NLs' = NLs
  BY <1>3, <1>5 DEF NLs
<1>7. SingleBlockLoops' = SingleBlockLoops
  BY <1>1, <1>3, <1>4 DEF SingleBlockLoops
<1>8. Reachable(graph)' = Reachable(graph)
  BY <1>1
<1>9. LoopsReady'
  <2>1. Root \in LoopIds' /\ loops_'[Root].is_reducible
    BY <1>1 DEF LoopsReady
  <2>2. \A l \in LoopIds' \ {Root} : loops_'[l].header \in Reachable(graph') \ {Start}
    BY <1>1 DEF LoopsReady
  <2>3. \A l, m \in LoopIds' \ {Root} : loops_'[l].header = loops_'[m].header => l = m
    BY <1>1 DEF LoopsReady
  <2>4. \A l \in LoopIds' \ {Root} :
          loops_'[l].is_reducible <=> \A x \in ToSet(loops_'[l].back_edges) :
                                        Dominates(graph', loops_'[l].header, x)
    BY <1>1 DEF LoopsReady
  <2>5. \A l \in Natural' : \E e \in Reachable(graph') :
          loops_'[l].back_edges = <<e>> /\ loops_'[l].header \in SuccSet(graph', e)
    BY <1>1, <1>3, <1>4 DEF LoopsReady
  <2>6. \A l \in LoopIds' : loops_'[l].outer_loop \in LoopIds' \cup {None}
    BY <1>1
  <2> QED
    BY <1>1, <2>1, <2>2, <2>3, <2>4, <2>5, <2>6 DEF LoopsReady
<1> QED
  BY <1>2, <1>3, <1>6, <1>7, <1>9

\* What is known of the loops as numbers, headers and natural loops.
LEMMA ReadyOwn ==
  ASSUME graph \in Graphs, LoopsReady
  PROVE  /\ OwnHeaders(Hd, Natural) /\ SingleBlockLoops \subseteq Natural
         /\ DOMAIN Hd = LoopIds /\ Root \in LoopIds
         /\ LoopIds = 1 .. Len(loops_) /\ Len(loops_) \in Nat
         /\ \A l \in LoopIds \ {Root} : Hd[l] \in Reachable(graph) \ {Start}
         /\ \A l \in LoopIds : /\ loops_[l] \in LoopRecords /\ Hd[l] = loops_[l].header
                               /\ Bl[l] = loops_[l].blocks /\ Ou[l] = loops_[l].outer_loop
<1>1. loops_ \in Seq(LoopRecords) /\ Root \in LoopIds
  BY DEF LoopsReady
<1>2. LoopIds = 1 .. Len(loops_) /\ Len(loops_) \in Nat /\ \A l \in LoopIds : loops_[l] \in LoopRecords
  BY <1>1 DEF LoopIds
<1>3. /\ DOMAIN Hd = LoopIds
      /\ \A l \in LoopIds : Hd[l] = loops_[l].header /\ Bl[l] = loops_[l].blocks /\ Ou[l] = loops_[l].outer_loop
  BY DEF Hd, Bl, Ou
<1>4. \A l \in LoopIds \ {Root} : Hd[l] \in Reachable(graph) \ {Start}
  BY <1>3 DEF LoopsReady
<1>5. \A l, m \in LoopIds \ {Root} : Hd[l] = Hd[m] => l = m
  BY <1>3 DEF LoopsReady
<1>6. Reachable(graph) \subseteq Ids
  BY ReachableFacts
<1>7. Natural \in SUBSET (LoopIds \ {Root}) /\ SingleBlockLoops \subseteq Natural
  BY DEF Natural, SingleBlockLoops
<1>8. LoopIds \in SUBSET Nat
  BY <1>2
<1> HIDE DEF LoopIds
<1>9. OwnHeaders(Hd, Natural)
  BY <1>3, <1>4, <1>5, <1>6, <1>7, <1>8 DEF OwnHeaders
<1> QED
  BY <1>1, <1>2, <1>3, <1>4, <1>7, <1>9

\* While the loops are populated: the headers are marked; if no loop is a single
\* block, what is in a loop lies in its natural loop; and if nothing is taken in that
\* cannot be reached either, each block and loop is in the innermost one around it
\* whose header has been come to.
Populating ==
  LET T == ToSet(todo)
  IN  /\ LoopsReady /\ ToCome(graph, todo) /\ loop_ \in [Ids -> Nat \cup {None}]
      /\ Marked(Natural, Hd, loop_, is_loop_header, T)
      /\ StartIn(SingleBlockLoops, Hd, loop_, T)
      /\ SingleBlockLoops = {} => FiledAs(Natural, Hd, Bl, Ou, loop_, T)
      /\ SingleBlockLoops = {} /\ Strays = {}
         => NestedAs(Reachable(graph), Natural, Hd, NLs, Ou, loop_, T)

\* The loop that comes is populated.
LEMMA PopulateLoopStep ==
  ASSUME WF(graph), Start \in graph.blocks, Populating, PopulateLoop
  PROVE  Populating'
<1>1. /\ LoopsReady /\ ToCome(graph, todo) /\ loop_ \in [Ids -> Nat \cup {None}]
      /\ Marked(Natural, Hd, loop_, is_loop_header, ToSet(todo))
      /\ StartIn(SingleBlockLoops, Hd, loop_, ToSet(todo))
      /\ SingleBlockLoops = {} => FiledAs(Natural, Hd, Bl, Ou, loop_, ToSet(todo))
      /\ SingleBlockLoops = {} /\ Strays = {}
         => NestedAs(Reachable(graph), Natural, Hd, NLs, Ou, loop_, ToSet(todo))
  BY DEF Populating
<1>2. /\ graph \in Graphs /\ Reachable(graph) \subseteq graph.blocks /\ graph.blocks \subseteq Ids
      /\ Reachable(graph) \in SUBSET Ids
  BY ReachableBlocks
<1>3. PICK h, m, S : h = Head(todo) /\ m = loop_[h] /\ S = Searched(loops_[m])
  OBVIOUS
<1>4. /\ todo # <<>> /\ todo' = Tail(todo) /\ h \in is_loop_header /\ loops_[m].is_reducible
      /\ UNCHANGED <<graph, is_loop_header>>
      /\ loops_' = [l \in LoopIds |->
                      CASE l = m -> [loops_[l] EXCEPT !.blocks = @ \cup {b \in S : loop_[b] = None}]
                        [] l \in {loop_[b] : b \in S} \ {None, m} /\ loops_[l].outer_loop = None ->
                             [loops_[l] EXCEPT !.outer_loop = m]
                        [] OTHER -> loops_[l]]
      /\ loop_' = [b \in Ids |-> IF b \in {c \in S : loop_[c] = None} THEN m ELSE loop_[b]]
  BY <1>3 DEF PopulateLoop
<1>5. /\ OwnHeaders(Hd, Natural) /\ SingleBlockLoops \subseteq Natural
      /\ DOMAIN Hd = LoopIds /\ Root \in LoopIds
      /\ LoopIds = 1 .. Len(loops_) /\ Len(loops_) \in Nat
      /\ \A l \in LoopIds \ {Root} : Hd[l] \in Reachable(graph) \ {Start}
      /\ \A l \in LoopIds : /\ loops_[l] \in LoopRecords /\ Hd[l] = loops_[l].header
                            /\ Bl[l] = loops_[l].blocks /\ Ou[l] = loops_[l].outer_loop
  BY <1>1, <1>2, ReadyOwn
<1>6. m \in LoopIds \ {Root} /\ Hd[m] = h /\ m \in Natural /\ m \in Nat
  <2>1. m \in DOMAIN Hd \ {Root} /\ Hd[m] = h
    BY <1>1, <1>3, <1>4, MarkedHeader
  <2> QED
    BY <1>4, <1>5, <2>1 DEF Natural
<1>7. /\ h \in ToSet(todo) /\ h \in Reachable(graph) /\ ToCome(graph, todo')
      /\ ToSet(todo') = ToSet(todo) \ {h}
      /\ \A b \in ToSet(todo) : Dominates(graph, h, b) => b = h
  BY <1>1, <1>2, <1>3, <1>4, NextToCome
<1>8. PICK e : /\ loops_[m].back_edges = <<e>> /\ e \in Reachable(graph)
               /\ m \in SingleBlockLoops <=> e = loops_[m].header
               /\ m \notin SingleBlockLoops =>
                    /\ LeadsBack(graph, loops_[m].header, e)
                    /\ NaturalLoop(m) = LoopOf(graph, loops_[m].header, e)
  BY <1>1, <1>2, <1>6, ReadyLoop
<1>9. loops_[m].header = h /\ h # Start
  BY <1>5, <1>6
<1>10. /\ S \subseteq Ids
       /\ m \in SingleBlockLoops => Start \in S
       /\ m \notin SingleBlockLoops => Start \notin S /\ S \cap Reachable(graph) = NaturalLoop(m) \ {h}
  <2>1. CASE m \in SingleBlockLoops
    BY <1>3, <1>7, <1>8, <1>9, <2>1, SearchOfBlock
  <2>2. CASE m \notin SingleBlockLoops
    <3>1. LeadsBack(graph, h, e) /\ NaturalLoop(m) = LoopOf(graph, h, e)
      BY <1>8, <1>9, <2>2
    <3>2. S \subseteq Ids /\ S \cap Reachable(graph) = NaturalLoop(m) \ {h}
      BY <1>3, <1>8, <1>9, <3>1, SearchOfLoop
    <3>3. Start \notin NaturalLoop(m) /\ Start \in Reachable(graph)
      BY <1>2, <1>9, <3>1, StartOutside, ReachableFacts
    <3> QED
      BY <2>2, <3>2, <3>3
  <2> QED
    BY <2>1, <2>2
<1>11. KeepsLoops
  <2>1. ASSUME NEW l \in LoopIds
        PROVE  /\ loops_'[l] \in LoopRecords /\ loops_'[l].header = loops_[l].header
               /\ loops_'[l].back_edges = loops_[l].back_edges
               /\ loops_'[l].is_reducible = loops_[l].is_reducible
               /\ loops_'[l].outer_loop \in LoopIds \cup {None}
    <3>1. /\ loops_[l] \in LoopRecords /\ S \subseteq Ids /\ m \in Nat
          /\ m \in LoopIds /\ loops_[l].outer_loop \in LoopIds \cup {None}
      BY <1>1, <1>5, <1>6, <1>10 DEF LoopsReady
    <3> QED
      BY <1>4, <3>1 DEF LoopRecords
  <2>2. loops_' \in Seq(LoopRecords)
    <3>1. loops_' \in [1 .. Len(loops_) -> LoopRecords]
      BY <1>4, <1>5, <2>1
    <3> QED
      BY <1>5, <3>1
  <2>3. LoopIds' = LoopIds
    BY <1>4 DEF LoopIds
  <2> QED
    BY <1>4, <2>1, <2>2, <2>3 DEF KeepsLoops
<1>12. /\ LoopsReady' /\ Hd' = Hd /\ Natural' = Natural /\ NLs' = NLs
       /\ SingleBlockLoops' = SingleBlockLoops
  BY <1>1, <1>11, KeptReady
<1>13. loop_' \in [Ids -> Nat \cup {None}]
  BY <1>1, <1>4, <1>6
<1>14. /\ Marked(Natural, Hd, loop_', is_loop_header, ToSet(todo) \ {h})
       /\ StartIn(SingleBlockLoops, Hd, loop_', ToSet(todo) \ {h})
  <2>1. PICK lp, lp2 : lp = loop_ /\ lp2 = loop_'
    OBVIOUS
  <2>2. \A b \in Ids : lp2[b] = IF b \in {c \in S : lp[c] = None} THEN m ELSE lp[b]
    BY <1>4, <2>1
  <2>3. (m \in SingleBlockLoops /\ Start \in S) \/ (m \notin SingleBlockLoops /\ Start \notin S)
    BY <1>10
  <2>4. /\ Marked(Natural, Hd, lp, is_loop_header, ToSet(todo))
        /\ StartIn(SingleBlockLoops, Hd, lp, ToSet(todo))
    BY <1>1, <2>1
  <2>5. /\ Marked(Natural, Hd, lp2, is_loop_header, ToSet(todo) \ {Hd[m]})
        /\ StartIn(SingleBlockLoops, Hd, lp2, ToSet(todo) \ {Hd[m]})
    BY <1>5, <1>6, <2>2, <2>3, <2>4, PopulateMarks
  <2> QED
    BY <1>6, <2>1, <2>5
<1>15. Populates(m, S, Hd, Bl, Ou, loop_, Bl', Ou', loop_')
  <2>1. \A b \in Ids : loop_'[b] = IF b \in {c \in S : loop_[c] = None} THEN m ELSE loop_[b]
    BY <1>4
  <2>2. ASSUME NEW l \in LoopIds
        PROVE  /\ Bl'[l] = IF l = m THEN Bl[l] \cup {b \in S : loop_[b] = None} ELSE Bl[l]
               /\ Ou'[l] = IF l \in {loop_[b] : b \in S} \ {None, m} /\ Ou[l] = None THEN m ELSE Ou[l]
    <3>1. l \in LoopIds' /\ loops_[l] \in LoopRecords /\ Bl[l] = loops_[l].blocks /\ Ou[l] = loops_[l].outer_loop
      BY <1>5, <1>11 DEF KeepsLoops
    <3>2. Bl'[l] = loops_'[l].blocks /\ Ou'[l] = loops_'[l].outer_loop
      BY <3>1 DEF Bl, Ou
    <3>3. /\ loops_'[l].blocks = IF l = m THEN loops_[l].blocks \cup {b \in S : loop_[b] = None}
                                 ELSE loops_[l].blocks
          /\ loops_'[l].outer_loop = IF l \in {loop_[b] : b \in S} \ {None, m} /\ loops_[l].outer_loop = None
                                     THEN m ELSE loops_[l].outer_loop
      BY <1>4, <3>1 DEF LoopRecords
    <3> QED
      BY <3>1, <3>2, <3>3
  <2> QED
    BY <1>5, <2>1, <2>2 DEF Populates
<1>16. ASSUME SingleBlockLoops = {}
       PROVE  /\ FiledAs(Natural, Hd, Bl', Ou', loop_', ToSet(todo) \ {h})
              /\ Strays' = {} => /\ Strays = {} 
                                 /\ NestedAs(Reachable(graph), Natural, Hd, NLs, Ou', loop_', ToSet(todo) \ {h})
  <2>1. /\ Nests(Reachable(graph), Hd, Natural, NLs)
        /\ \A l \in Natural : \A b \in NLs[l] : Dominates(graph, Hd[l], b)
    BY <1>1, <1>2, <1>16, ReadyNests
  <2>2. NLs[m] = NaturalLoop(m) /\ h \in NLs[m]
    BY <1>6, <2>1 DEF NLs, Nests
  <2>3. loop_[Hd[m]] = m /\ NLs[m] \cap ToSet(todo) = {Hd[m]} /\ ToSet(todo) \subseteq Reachable(graph)
    BY <1>1, <1>3, <1>6, <1>7, <2>1, <2>2 DEF ToCome
  <2>4. S \in SUBSET Ids /\ S \cap Reachable(graph) = NLs[m] \ {Hd[m]}
    BY <1>6, <1>10, <1>16, <2>2
  <2>5. FiledAs(Natural, Hd, Bl, Ou, loop_, ToSet(todo))
    BY <1>1, <1>16
  <2> DEFINE Rc == Reachable(graph)
             T  == ToSet(todo)
  <2>6. PICK bl, ou, lp, bl2, ou2, lp2 : /\ bl = Bl /\ ou = Ou /\ lp = loop_
                                        /\ bl2 = Bl' /\ ou2 = Ou' /\ lp2 = loop_'
    OBVIOUS
  <2>7. Populates(m, S, Hd, bl, ou, lp, bl2, ou2, lp2) /\ lp[Hd[m]] = m
    BY <1>15, <2>3, <2>6
  <2>8. FiledAs(Natural, Hd, bl, ou, lp, T)
    BY <2>5, <2>6
  <2> HIDE DEF Rc, T
  <2>9. FiledAs(Natural, Hd, bl2, ou2, lp2, T \ {Hd[m]})
    <3>1. S \cap Rc = NLs[m] \ {Hd[m]} /\ NLs[m] \cap T = {Hd[m]} /\ T \subseteq Rc /\ Nests(Rc, Hd, Natural, NLs)
      BY <2>1, <2>3, <2>4 DEF Rc, T
    <3> QED
      BY <1>6, <2>4, <2>7, <2>8, <3>1, PopulateFiles
  <2>10. ASSUME Strays' = {} PROVE Strays = {} /\ S = NLs[m] \ {Hd[m]}
    <3>1. \A b \in Ids \ Reachable(graph) : loop_'[b] = None
      BY <1>4, <2>10 DEF Strays
    <3>2. \A b \in Ids : loop_[b] # None => loop_'[b] # None
      BY <1>4
    <3>3. \A b \in S : loop_'[b] # None
      BY <1>4, <1>6, <1>10, NullLoopAssumption
    <3>4. S \subseteq Reachable(graph)
      BY <2>4, <3>1, <3>3
    <3> QED
      BY <2>4, <3>1, <3>2, <3>4 DEF Strays
  <2>11. ASSUME Strays' = {} PROVE NestedAs(Rc, Natural, Hd, NLs, ou2, lp2, T \ {Hd[m]})
    <3>1. NestedAs(Rc, Natural, Hd, NLs, ou, lp, T)
      BY <1>1, <1>16, <2>6, <2>10, <2>11 DEF Rc, T
    <3>2. \A k \in Natural : NLs[k] \cap T # {} => Hd[k] \in T
      <4>1. \A b \in ToSet(todo), d \in Reachable(graph) : Dominates(graph, d, b) => d \in ToSet(todo)
        BY <1>1 DEF ToCome
      <4>2. \A k \in Natural : Hd[k] \in Reachable(graph)
        BY <1>5 DEF Natural
      <4> QED
        BY <2>1, <4>1, <4>2 DEF T
    <3>3. NLs[m] \cap T = {Hd[m]} /\ Nests(Rc, Hd, Natural, NLs) /\ S = NLs[m] \ {Hd[m]} /\ Rc \in SUBSET Ids
      BY <1>2, <2>1, <2>3, <2>10, <2>11 DEF Rc, T
    <3> QED
      BY <1>6, <2>7, <2>8, <3>1, <3>2, <3>3, PopulateNests
  <2> QED
    BY <1>6, <2>6, <2>9, <2>10, <2>11 DEF Rc, T
<1>17. Strays' = {} /\ SingleBlockLoops = {}
       => NestedAs(Reachable(graph), Natural, Hd, NLs, Ou', loop_', ToSet(todo) \ {h})
  BY <1>16
<1>18. graph' = graph /\ is_loop_header' = is_loop_header /\ ToSet(todo)' = ToSet(todo) \ {h}
  BY <1>4, <1>7
<1> QED
  BY <1>7, <1>12, <1>13, <1>14, <1>16, <1>17, <1>18 DEF Populating

-----------------------------------------------------------------------------
\* A header that is not that of a natural loop goes, or a block that is no header.
LEMMA PassBlockStep ==
  ASSUME WF(graph), Start \in graph.blocks, Populating, DropIrreducible \/ PassNoHeader
  PROVE  Populating'
<1>1. /\ LoopsReady /\ ToCome(graph, todo) /\ loop_ \in [Ids -> Nat \cup {None}]
      /\ Marked(Natural, Hd, loop_, is_loop_header, ToSet(todo))
      /\ StartIn(SingleBlockLoops, Hd, loop_, ToSet(todo))
      /\ SingleBlockLoops = {} => FiledAs(Natural, Hd, Bl, Ou, loop_, ToSet(todo))
      /\ SingleBlockLoops = {} /\ Strays = {}
         => NestedAs(Reachable(graph), Natural, Hd, NLs, Ou, loop_, ToSet(todo))
  BY DEF Populating
<1>2. /\ graph \in Graphs /\ Reachable(graph) \subseteq graph.blocks /\ graph.blocks \subseteq Ids
      /\ Reachable(graph) \in SUBSET Ids
  BY ReachableBlocks
<1>3. PICK h : h = Head(todo)
  OBVIOUS
<1>4. todo # <<>> /\ todo' = Tail(todo) /\ UNCHANGED <<graph, loops_>>
  BY DEF DropIrreducible, PassNoHeader
<1>5. /\ OwnHeaders(Hd, Natural) /\ SingleBlockLoops \subseteq Natural
      /\ DOMAIN Hd = LoopIds /\ Root \in LoopIds
      /\ \A l \in LoopIds \ {Root} : Hd[l] \in Reachable(graph) \ {Start}
      /\ \A l \in LoopIds : /\ loops_[l] \in LoopRecords /\ Hd[l] = loops_[l].header
                            /\ Bl[l] = loops_[l].blocks /\ Ou[l] = loops_[l].outer_loop
  BY <1>1, <1>2, ReadyOwn
<1>6. /\ h \in ToSet(todo) /\ h \in Reachable(graph) /\ ToCome(graph, todo')
      /\ ToSet(todo') = ToSet(todo) \ {h}
  BY <1>1, <1>2, <1>3, <1>4, NextToCome
<1>7. h \in Ids
  BY <1>2, <1>6
<1>8. KeepsLoops /\ Bl' = Bl /\ Ou' = Ou
  <2>1. LoopIds' = LoopIds
    BY <1>4 DEF LoopIds
  <2>2. /\ loops_' \in Seq(LoopRecords)
        /\ \A l \in LoopIds : loops_'[l].outer_loop \in LoopIds \cup {None}
    BY <1>1, <1>4 DEF LoopsReady
  <2> QED
    BY <1>4, <2>1, <2>2 DEF KeepsLoops, Bl, Ou
<1>9. /\ LoopsReady' /\ Hd' = Hd /\ Natural' = Natural /\ NLs' = NLs
      /\ SingleBlockLoops' = SingleBlockLoops
  BY <1>1, <1>8, KeptReady
<1>10. /\ \A k \in Natural : Hd[k] # h
       /\ \A b \in Ids \ {h} : loop_'[b] = loop_[b]
       /\ \/ loop_'[h] = loop_[h] /\ \A k \in DOMAIN Hd \ {Root} : Hd[k] # h
          \/ \E l \in DOMAIN Hd \ {Root} : h = Hd[l] /\ loop_[h] = l /\ loop_'[h] = Ou[l]
       /\ loop_' \in [Ids -> Nat \cup {None}]
       /\ Marked(Natural, Hd, loop_', is_loop_header', ToSet(todo) \ {h})
       /\ StartIn(SingleBlockLoops, Hd, loop_', ToSet(todo) \ {h})
  <2>1. PICK lp, isH : lp = loop_ /\ isH = is_loop_header
    OBVIOUS
  <2>2. Marked(Natural, Hd, lp, isH, ToSet(todo)) /\ StartIn(SingleBlockLoops, Hd, lp, ToSet(todo))
    BY <1>1, <2>1
  <2>3. CASE DropIrreducible
    <3>1. PICK l : l = loop_[h]
      OBVIOUS
    <3>2. /\ h \in is_loop_header /\ ~loops_[l].is_reducible
          /\ loop_' = [loop_ EXCEPT ![h] = loops_[l].outer_loop] /\ is_loop_header' = is_loop_header \ {h}
      BY <1>3, <2>3, <3>1 DEF DropIrreducible
    <3>3. l \in DOMAIN Hd \ {Root} /\ Hd[l] = h
      BY <2>1, <2>2, <3>1, <3>2, MarkedHeader
    <3>4. l \notin Natural
      BY <3>2 DEF Natural
    <3>5. loops_[l].outer_loop \in Nat \cup {None} /\ Ou[l] = loops_[l].outer_loop
      BY <1>5, <3>3 DEF LoopRecords
    <3>6. (\A b \in Ids \ {h} : loop_'[b] = loop_[b]) /\ loop_'[h] = Ou[l] /\ loop_' \in [Ids -> Nat \cup {None}]
      BY <1>1, <1>7, <3>2, <3>5
    <3>7. \A k \in Natural : Hd[k] # h
      BY <1>5, <3>3, <3>4 DEF OwnHeaders
    <3>8. PICK lp2 : lp2 = loop_'
      OBVIOUS
    <3>9. /\ Marked(Natural, Hd, lp2, isH \ {Hd[l]}, ToSet(todo) \ {Hd[l]})
          /\ StartIn(SingleBlockLoops, Hd, lp2, ToSet(todo) \ {Hd[l]})
      <4>1. l \in DOMAIN Hd \ (Natural \cup {Root}) /\ \A b \in Ids \ {Hd[l]} : lp2[b] = lp[b]
        BY <2>1, <3>3, <3>4, <3>6, <3>8
      <4> QED
        BY <1>5, <2>2, <4>1, DropMarks
    <3>10. /\ Marked(Natural, Hd, loop_', is_loop_header', ToSet(todo) \ {h})
           /\ StartIn(SingleBlockLoops, Hd, loop_', ToSet(todo) \ {h})
      <4>1. is_loop_header' = isH \ {Hd[l]} /\ Hd[l] = h /\ loop_' = lp2
        BY <2>1, <3>2, <3>3, <3>8
      <4> QED
        BY <3>9, <4>1
    <3>11. \E k \in DOMAIN Hd \ {Root} : h = Hd[k] /\ loop_[h] = k /\ loop_'[h] = Ou[k]
      BY <3>1, <3>3, <3>6
    <3> QED
      BY <3>6, <3>7, <3>10, <3>11
  <2>4. CASE PassNoHeader
    <3>1. h \notin is_loop_header /\ loop_' = loop_ /\ is_loop_header' = is_loop_header
      BY <1>3, <2>4 DEF PassNoHeader, blockLoops
    <3>2. /\ Marked(Natural, Hd, lp, isH, ToSet(todo) \ {h})
          /\ StartIn(SingleBlockLoops, Hd, lp, ToSet(todo) \ {h})
          /\ \A l \in DOMAIN Hd \ {Root} : Hd[l] # h
      <4>1. h \in ToSet(todo) \ isH
        BY <1>6, <2>1, <3>1
      <4>2. PICK T, B : T = ToSet(todo) /\ B = SingleBlockLoops
        OBVIOUS
      <4>3. /\ OwnHeaders(Hd, Natural) /\ B \subseteq Natural /\ h \in T \ isH
            /\ Marked(Natural, Hd, lp, isH, T) /\ StartIn(B, Hd, lp, T)
        BY <1>5, <2>2, <4>1, <4>2
      <4>4. /\ Marked(Natural, Hd, lp, isH, T \ {h}) /\ StartIn(B, Hd, lp, T \ {h})
            /\ \A l \in DOMAIN Hd \ {Root} : Hd[l] # h
        BY <4>3, PassMarks
      <4> QED
        BY <4>2, <4>4
    <3>3. \A k \in Natural : Hd[k] # h
      BY <1>5, <3>2 DEF OwnHeaders
    <3> QED
      BY <1>1, <2>1, <3>1, <3>2, <3>3
  <2> QED
    BY <2>3, <2>4
<1>11. Strays' = Strays
  BY <1>4, <1>6, <1>10 DEF Strays
<1>12. ASSUME SingleBlockLoops = {}
       PROVE  /\ FiledAs(Natural, Hd, Bl, Ou, loop_', ToSet(todo) \ {h})
              /\ Strays = {} => NestedAs(Reachable(graph), Natural, Hd, NLs, Ou, loop_', ToSet(todo) \ {h})
  <2>1. Nests(Reachable(graph), Hd, Natural, NLs)
    BY <1>1, <1>2, <1>12, ReadyNests
  <2>2. PICK R, T, nl, bl, ou, lp, lp2 : /\ R = Reachable(graph) /\ T = ToSet(todo) /\ nl = NLs /\ bl = Bl
                                         /\ ou = Ou /\ lp = loop_ /\ lp2 = loop_'
    OBVIOUS
  <2>3. FiledAs(Natural, Hd, bl, ou, lp, T) /\ Nests(R, Hd, Natural, nl) /\ R \in SUBSET Ids /\ h \in R
    BY <1>1, <1>2, <1>6, <1>12, <2>1, <2>2
  <2>4. /\ \A k \in Natural : Hd[k] # h
        /\ \A b \in Ids \ {h} : lp2[b] = lp[b]
        /\ \/ lp2[h] = lp[h] /\ \A k \in DOMAIN Hd \ {Root} : Hd[k] # h
           \/ \E l \in DOMAIN Hd \ {Root} : h = Hd[l] /\ lp[h] = l /\ lp2[h] = ou[l]
    BY <1>10, <2>2
  <2>5. /\ FiledAs(Natural, Hd, bl, ou, lp2, T \ {h})
        /\ NestedAs(R, Natural, Hd, nl, ou, lp, T) => NestedAs(R, Natural, Hd, nl, ou, lp2, T \ {h})
    <3> HIDE DEF Hd, Natural
    <3> QED
      BY <2>3, <2>4, PassFiles
  <2>6. Strays = {} => NestedAs(R, Natural, Hd, nl, ou, lp, T)
    BY <1>1, <1>12, <2>2
  <2> QED
    BY <2>2, <2>5, <2>6
<1>13. graph' = graph /\ ToSet(todo)' = ToSet(todo) \ {h}
  BY <1>4, <1>6
<1>14. /\ SingleBlockLoops' = {} => FiledAs(Natural', Hd', Bl', Ou', loop_', ToSet(todo)')
       /\ SingleBlockLoops' = {} /\ Strays' = {}
          => NestedAs(Reachable(graph)', Natural', Hd', NLs', Ou', loop_', ToSet(todo)')
  BY <1>8, <1>9, <1>11, <1>12, <1>13
<1>15. /\ Marked(Natural', Hd', loop_', is_loop_header', ToSet(todo)')
       /\ StartIn(SingleBlockLoops', Hd', loop_', ToSet(todo)')
       /\ loop_' \in [Ids -> Nat \cup {None}] /\ ToCome(graph', todo')
  BY <1>6, <1>9, <1>10, <1>13
<1> QED
  BY <1>9, <1>14, <1>15 DEF Populating

-----------------------------------------------------------------------------
\* In the end: if no loop is a single block, every block that can be reached is listed
\* in one loop, and the loops form the tree of the natural loops unless a block that
\* cannot be reached was taken in; otherwise the start block is in such a loop.
Ordered ==
  /\ LoopsReady /\ loop_ \in [Ids -> Nat \cup {None}]
  /\ SingleBlockLoops = {} => ListedAs(Reachable(graph), Natural, Hd, Bl, Ou, loop_)
  /\ SingleBlockLoops = {} /\ Strays = {}
     => InTree(Reachable(graph), Natural, Hd, NLs, Ou, loop_)
  /\ SingleBlockLoops # {} => loop_[Start] \in SingleBlockLoops

\* What is left is put into the root.
LEMMA BuildStep ==
  ASSUME WF(graph), Start \in graph.blocks, Populating, BuildLoopTree
  PROVE  Ordered'
<1>0. todo = <<>> /\ graph' = graph
  BY DEF BuildLoopTree
<1>1. /\ LoopsReady /\ loop_ \in [Ids -> Nat \cup {None}]
      /\ Marked(Natural, Hd, loop_, is_loop_header, {})
      /\ StartIn(SingleBlockLoops, Hd, loop_, {})
      /\ SingleBlockLoops = {} => FiledAs(Natural, Hd, Bl, Ou, loop_, {})
      /\ SingleBlockLoops = {} /\ Strays = {}
         => NestedAs(Reachable(graph), Natural, Hd, NLs, Ou, loop_, {})
  <2>1. ToSet(todo) = {}
    BY <1>0 DEF ToSet
  <2> QED
    BY <2>1 DEF Populating
<1>2. /\ graph \in Graphs /\ Reachable(graph) \subseteq graph.blocks /\ graph.blocks \subseteq Ids
      /\ Reachable(graph) \in SUBSET Ids /\ Start \in Reachable(graph)
  BY ReachableBlocks, ReachableFacts
<1>3. PICK free : free = {b \in Reachable(graph) : loop_[b] = None}
  OBVIOUS
<1>4. /\ loop_' = [b \in Ids |-> IF b \in free THEN Root ELSE loop_[b]]
      /\ loops_' = [l \in LoopIds |->
                      IF l = Root THEN [loops_[l] EXCEPT !.blocks = @ \cup free]
                      ELSE IF loops_[l].outer_loop = None
                           THEN [loops_[l] EXCEPT !.outer_loop = Root]
                           ELSE loops_[l]]
  BY <1>3 DEF BuildLoopTree
<1>5. /\ OwnHeaders(Hd, Natural) /\ SingleBlockLoops \subseteq Natural
      /\ DOMAIN Hd = LoopIds /\ Root \in LoopIds
      /\ LoopIds = 1 .. Len(loops_) /\ Len(loops_) \in Nat
      /\ \A l \in LoopIds : /\ loops_[l] \in LoopRecords /\ Hd[l] = loops_[l].header
                            /\ Bl[l] = loops_[l].blocks /\ Ou[l] = loops_[l].outer_loop
  BY <1>1, <1>2, ReadyOwn
<1>6. Root \in Nat /\ free \subseteq Ids
  BY <1>2, <1>3 DEF Root
<1>7. ASSUME NEW l \in LoopIds
      PROVE  /\ loops_'[l] \in LoopRecords /\ loops_'[l].header = loops_[l].header
             /\ loops_'[l].back_edges = loops_[l].back_edges
             /\ loops_'[l].is_reducible = loops_[l].is_reducible
             /\ loops_'[l].blocks = IF l = Root THEN loops_[l].blocks \cup free ELSE loops_[l].blocks
             /\ loops_'[l].outer_loop = IF l # Root /\ loops_[l].outer_loop = None THEN Root
                                        ELSE loops_[l].outer_loop
  <2>1. loops_[l] \in LoopRecords
    BY <1>5
  <2> QED
    BY <1>4, <1>6, <2>1 DEF LoopRecords
<1>8. KeepsLoops
  <2>1. loops_' \in [1 .. Len(loops_) -> LoopRecords]
    BY <1>4, <1>5, <1>7
  <2>2. loops_' \in Seq(LoopRecords) /\ LoopIds' = LoopIds
    BY <1>4, <1>5, <2>1 DEF LoopIds
  <2>3. \A l \in LoopIds : loops_'[l].outer_loop \in LoopIds \cup {None}
    <3>1. \A l \in LoopIds : loops_[l].outer_loop \in LoopIds \cup {None}
      BY <1>1 DEF LoopsReady
    <3> QED
      BY <1>5, <1>7, <3>1
  <2> QED
    BY <1>0, <1>7, <2>2, <2>3 DEF KeepsLoops
<1>9. /\ LoopsReady' /\ Hd' = Hd /\ Natural' = Natural /\ NLs' = NLs
      /\ SingleBlockLoops' = SingleBlockLoops
  BY <1>1, <1>8, KeptReady
<1>10. loop_' \in [Ids -> Nat \cup {None}]
  BY <1>1, <1>4, <1>6
<1>11. Strays' = Strays
  BY <1>0, <1>3, <1>4 DEF Strays
<1>12. Builds(Reachable(graph), Hd, Bl, Ou, loop_, Bl', Ou', loop_')
  <2>1. ASSUME NEW l \in LoopIds
        PROVE  /\ Bl'[l] = IF l = Root THEN Bl[l] \cup free ELSE Bl[l]
               /\ Ou'[l] = IF l # Root /\ Ou[l] = None THEN Root ELSE Ou[l]
    <3>1. l \in LoopIds' /\ Bl[l] = loops_[l].blocks /\ Ou[l] = loops_[l].outer_loop
      BY <1>5, <1>8 DEF KeepsLoops
    <3>2. Bl'[l] = loops_'[l].blocks /\ Ou'[l] = loops_'[l].outer_loop
      BY <3>1 DEF Bl, Ou
    <3> QED
      BY <1>7, <3>1, <3>2
  <2>2. \A b \in Ids : loop_'[b] = IF b \in free THEN Root ELSE loop_[b]
    BY <1>4
  <2> QED
    BY <1>3, <1>5, <2>1, <2>2 DEF Builds
<1>13. ASSUME SingleBlockLoops = {}
       PROVE  /\ ListedAs(Reachable(graph), Natural, Hd, Bl', Ou', loop_')
              /\ Strays = {} => InTree(Reachable(graph), Natural, Hd, NLs, Ou', loop_')
  <2>1. Nests(Reachable(graph), Hd, Natural, NLs)
    BY <1>1, <1>2, <1>13, ReadyNests
  <2>2. PICK R, nl, bl, ou, lp, bl2, ou2, lp2 : /\ R = Reachable(graph) /\ nl = NLs /\ bl = Bl /\ ou = Ou
                                                /\ lp = loop_ /\ bl2 = Bl' /\ ou2 = Ou' /\ lp2 = loop_'
    OBVIOUS
  <2>3. \A m \in Natural : lp[Hd[m]] = m
    BY <1>1, <1>5, <2>2 DEF Marked, OwnHeaders
  <2>4. /\ FiledAs(Natural, Hd, bl, ou, lp, {}) /\ Nests(R, Hd, Natural, nl) /\ R \in SUBSET Ids
        /\ Root \in DOMAIN Hd /\ Builds(R, Hd, bl, ou, lp, bl2, ou2, lp2)
    BY <1>1, <1>2, <1>5, <1>12, <1>13, <2>1, <2>2
  <2>5. /\ ListedAs(R, Natural, Hd, bl2, ou2, lp2)
        /\ NestedAs(R, Natural, Hd, nl, ou, lp, {}) => InTree(R, Natural, Hd, nl, ou2, lp2)
    BY <2>3, <2>4, BuildsTree
  <2>6. Strays = {} => NestedAs(R, Natural, Hd, nl, ou, lp, {})
    BY <1>1, <1>13, <2>2
  <2> QED
    BY <2>2, <2>5, <2>6
<1>14. ASSUME SingleBlockLoops # {} PROVE loop_'[Start] \in SingleBlockLoops
  <2>1. loop_[Start] \in SingleBlockLoops \cup {None} /\ \A l \in SingleBlockLoops : loop_[Start] # None
    BY <1>1 DEF StartIn
  <2>2. loop_[Start] \in SingleBlockLoops /\ loop_[Start] # None
    BY <1>14, <2>1
  <2>3. Start \notin free /\ Start \in Ids
    BY <1>2, <1>3, <2>2
  <2> QED
    BY <1>4, <2>2, <2>3
<1>15. /\ SingleBlockLoops' = {} => ListedAs(Reachable(graph)', Natural', Hd', Bl', Ou', loop_')
       /\ SingleBlockLoops' = {} /\ Strays' = {}
          => InTree(Reachable(graph)', Natural', Hd', NLs', Ou', loop_')
       /\ SingleBlockLoops' # {} => loop_'[Start] \in SingleBlockLoops'
  BY <1>0, <1>9, <1>11, <1>13, <1>14
<1> QED
  BY <1>9, <1>10, <1>15 DEF Ordered

-----------------------------------------------------------------------------
\* What is known of the loops in the end if none is a single block.
LEMMA OrderedFacts ==
  ASSUME WF(graph), Start \in graph.blocks, Ordered, SingleBlockLoops = {}
  PROVE  /\ Reachable(graph) \in SUBSET Ids /\ Nests(Reachable(graph), Hd, Natural, NLs)
         /\ ListedAs(Reachable(graph), Natural, Hd, Bl, Ou, loop_)
         /\ DOMAIN Hd = LoopIds /\ LoopIds = 1 .. Len(loops_) /\ Len(loops_) \in Nat
         /\ Root \in LoopIds \ Natural /\ Natural \subseteq LoopIds
         /\ Natural \cup {Root} = {l \in LoopIds : loops_[l].is_reducible}
         /\ \A l \in LoopIds :
              /\ Hd[l] = loops_[l].header /\ Bl[l] = loops_[l].blocks
              /\ Ou[l] = loops_[l].outer_loop /\ Ou[l] \in LoopIds \cup {None}
              /\ l # Root => Ou[l] \in LoopIds
<1>1. LoopsReady /\ ListedAs(Reachable(graph), Natural, Hd, Bl, Ou, loop_)
  BY DEF Ordered
<1>2. graph \in Graphs /\ Reachable(graph) \in SUBSET Ids
  BY ReachableBlocks
<1>3. /\ DOMAIN Hd = LoopIds /\ Root \in LoopIds
      /\ LoopIds = 1 .. Len(loops_) /\ Len(loops_) \in Nat
      /\ \A l \in LoopIds : Hd[l] = loops_[l].header /\ Bl[l] = loops_[l].blocks
                            /\ Ou[l] = loops_[l].outer_loop
  BY <1>1, <1>2, ReadyOwn
<1>4. Nests(Reachable(graph), Hd, Natural, NLs)
  BY <1>1, <1>2, ReadyNests
<1>5. Root \notin Natural /\ Natural \subseteq LoopIds
      /\ Natural \cup {Root} = {l \in LoopIds : loops_[l].is_reducible}
  BY <1>1, <1>3 DEF Natural, LoopsReady
<1>6. ASSUME NEW l \in LoopIds PROVE Ou[l] \in LoopIds \cup {None} /\ (l # Root => Ou[l] \in LoopIds)
  <2>1. /\ Ou[Root] = None
        /\ \A k \in Natural : Ou[k] \in Natural \cup {Root}
        /\ \A k \in DOMAIN Hd \ (Natural \cup {Root}) : Ou[k] = Root
    BY <1>1 DEF ListedAs
  <2> QED
    BY <1>3, <1>5, <2>1
<1> QED
  BY <1>1, <1>2, <1>3, <1>4, <1>5, <1>6

\* Then the tree of the loops is the tree of the natural loops, unless a block that
\* cannot be reached was taken in.
LEMMA TreeFound ==
  ASSUME WF(graph), Start \in graph.blocks, Ordered, SingleBlockLoops = {}, Strays = {}
  PROVE  NestsAsInGraph
<1>1. /\ Reachable(graph) \in SUBSET Ids /\ Nests(Reachable(graph), Hd, Natural, NLs)
      /\ ListedAs(Reachable(graph), Natural, Hd, Bl, Ou, loop_)
      /\ DOMAIN Hd = LoopIds /\ LoopIds = 1 .. Len(loops_) /\ Len(loops_) \in Nat
      /\ Root \in LoopIds \ Natural /\ Natural \subseteq LoopIds
      /\ \A l \in LoopIds :
           /\ Hd[l] = loops_[l].header /\ Bl[l] = loops_[l].blocks
           /\ Ou[l] = loops_[l].outer_loop /\ Ou[l] \in LoopIds \cup {None}
           /\ l # Root => Ou[l] \in LoopIds
  BY OrderedFacts
<1>2. InTree(Reachable(graph), Natural, Hd, NLs, Ou, loop_)
  BY DEF Ordered
<1>3. PICK en : en = [l \in LoopIds |-> Enclosing(l)]
  OBVIOUS
<1>4. ASSUME NEW l \in LoopIds
      PROVE  /\ Enclosing(l) \subseteq LoopIds /\ l \in Enclosing(l)
             /\ \A m \in Enclosing(l) : Ou[m] # None => Ou[m] \in Enclosing(l)
             /\ \A C \in SUBSET LoopIds :
                  l \in C /\ (\A m \in C : Ou[m] # None => Ou[m] \in C) => Enclosing(l) \subseteq C
  <2>1. \A m \in LoopIds : loops_[m].outer_loop \in LoopIds \cup {None} /\ Ou[m] = loops_[m].outer_loop
    BY <1>1
  <2>2. /\ Enclosing(l) \subseteq LoopIds /\ l \in Enclosing(l)
        /\ \A m \in Enclosing(l) : loops_[m].outer_loop # None
                                   => loops_[m].outer_loop \in Enclosing(l)
        /\ \A C \in SUBSET LoopIds :
             l \in C /\ (\A m \in C : loops_[m].outer_loop # None => loops_[m].outer_loop \in C)
             => Enclosing(l) \subseteq C
    BY <1>1, <2>1, EnclosingLeast
  <2>3. \A m \in Enclosing(l) : Ou[m] # None => Ou[m] \in Enclosing(l)
    BY <2>1, <2>2
  <2>4. ASSUME NEW C \in SUBSET LoopIds, l \in C, \A m \in C : Ou[m] # None => Ou[m] \in C
        PROVE  Enclosing(l) \subseteq C
    <3>1. \A m \in C : loops_[m].outer_loop # None => loops_[m].outer_loop \in C
      BY <2>1, <2>4
    <3> QED
      BY <2>2, <2>4, <3>1
  <2> QED
    BY <2>2, <2>3, <2>4
<1>5. EnclosesAs(DOMAIN Hd, Ou, en)
  <2>1. ASSUME NEW l \in LoopIds
        PROVE  /\ en[l] \subseteq LoopIds /\ l \in en[l]
               /\ \A m \in en[l] : Ou[m] # None => Ou[m] \in en[l]
               /\ \A C \in SUBSET LoopIds :
                    l \in C /\ (\A m \in C : Ou[m] # None => Ou[m] \in C) => en[l] \subseteq C
    <3>1. en[l] = Enclosing(l)
      BY <1>3
    <3> QED
      BY <1>4, <3>1
  <2>2. EnclosesAs(LoopIds, Ou, en)
    BY <2>1 DEF EnclosesAs
  <2>3. DOMAIN Hd = LoopIds
    BY <1>1
  <2> QED
    BY <2>2, <2>3
<1>6. PICK R, hd, N, nl, bl, ou, lp :
        /\ R = Reachable(graph) /\ hd = Hd /\ N = Natural
        /\ nl = NLs /\ bl = Bl /\ ou = Ou /\ lp = loop_
  OBVIOUS
<1>7. /\ \A l \in LoopIds \ {Root} : Root \in en[l] /\ l \notin en[ou[l]]
      /\ \A l \in Natural, b \in R : l \in en[lp[b]] <=> b \in nl[l]
  <2>1. /\ R \in SUBSET Ids /\ Nests(R, hd, N, nl) /\ Root \in DOMAIN hd
        /\ ListedAs(R, N, hd, bl, ou, lp) /\ InTree(R, N, hd, nl, ou, lp)
        /\ EnclosesAs(DOMAIN hd, ou, en)
    BY <1>1, <1>2, <1>5, <1>6
  <2>2. /\ \A l \in DOMAIN hd \ {Root} : Root \in en[l] /\ l \notin en[ou[l]]
        /\ \A l \in N, b \in R : l \in en[lp[b]] <=> b \in nl[l]
    BY <2>1, TreeIsNest
  <2>3. DOMAIN hd = LoopIds
    BY <1>1, <1>6
  <2> QED
    BY <1>6, <2>2, <2>3
<1>8. \A l \in LoopIds \ {Root} : Root \in Enclosing(l) /\ l \notin Enclosing(loops_[l].outer_loop)
  <2>1. ASSUME NEW l \in LoopIds \ {Root} PROVE Root \in Enclosing(l) /\ l \notin Enclosing(loops_[l].outer_loop)
    <3>1. Ou[l] \in LoopIds /\ Ou[l] = loops_[l].outer_loop /\ ou[l] = Ou[l]
      BY <1>1, <1>6
    <3>2. en[l] = Enclosing(l) /\ en[ou[l]] = Enclosing(loops_[l].outer_loop)
      BY <1>3, <3>1
    <3>3. Root \in en[l] /\ l \notin en[ou[l]]
      BY <1>1, <1>7
    <3> QED
      BY <3>2, <3>3
  <2> QED
    BY <2>1
<1>9. ASSUME NEW l \in Natural PROVE {b \in Reachable(graph) : l \in Enclosing(loop_[b])} = NaturalLoop(l)
  <2>1. \A b \in Reachable(graph) : loop_[b] \in LoopIds
    BY <1>1 DEF ListedAs
  <2>2. \A b \in Reachable(graph) : en[lp[b]] = Enclosing(loop_[b])
    BY <1>3, <1>6, <2>1
  <2>3. nl[l] = NaturalLoop(l) /\ NaturalLoop(l) \subseteq Reachable(graph)
    BY <1>6 DEF NLs, NaturalLoop
  <2> QED
    BY <1>6, <1>7, <2>2, <2>3
<1>10. Natural = {l \in LoopIds \ {Root} : \A x \in ToSet(loops_[l].back_edges) :
                                             Dominates(graph, loops_[l].header, x)}
  BY DEF Natural, Ordered, LoopsReady
<1> QED
  BY <1>8, <1>9, <1>10 DEF NestsAsInGraph

\* If no loop is a single block, the ASSERTs of Check fail just for the blocks that
\* cannot be reached.
LEMMA ChecksCount ==
  ASSUME WF(graph), Start \in graph.blocks, Ordered, SingleBlockLoops = {}
  PROVE  ChecksHold <=> Strays = {}
<1> DEFINE reducible == {l \in LoopIds : loops_[l].is_reducible}
           headed == {l \in reducible : loops_[l].outer_loop # None}
           Listed(l) == loops_[l].blocks \cup (IF l \in headed THEN {loops_[l].header} ELSE {})
           InLoop == {b \in Ids : loop_[b] # None}
           R == Reachable(graph)
<1>1. /\ R \in SUBSET Ids /\ Nests(R, Hd, Natural, NLs)
      /\ ListedAs(R, Natural, Hd, Bl, Ou, loop_)
      /\ DOMAIN Hd = LoopIds /\ LoopIds = 1 .. Len(loops_) /\ Len(loops_) \in Nat
      /\ Root \in LoopIds \ Natural /\ Natural \subseteq LoopIds
      /\ Natural \cup {Root} = reducible
      /\ \A l \in LoopIds :
           Hd[l] = loops_[l].header /\ Bl[l] = loops_[l].blocks /\ Ou[l] = loops_[l].outer_loop
  BY OrderedFacts
<1>2. /\ \A b \in Ids : loop_[b] # None =>
           \/ loop_[b] = Root /\ b \in Bl[Root]
           \/ loop_[b] \in Natural /\ (b = Hd[loop_[b]] \/ b \in Bl[loop_[b]])
      /\ \A l \in LoopIds : \A b \in Bl[l] : b \in Ids /\ l \in Natural \cup {Root} /\ loop_[b] = l
      /\ \A l \in Natural : loop_[Hd[l]] = l /\ Hd[l] \notin Bl[l]
      /\ \A b \in R : loop_[b] \in Natural \cup {Root}
      /\ Ou[Root] = None
      /\ \A l \in Natural : Ou[l] \in Natural \cup {Root}
  BY <1>1 DEF ListedAs
<1>3. None \notin LoopIds
  BY <1>1, NullLoopAssumption
<1>4. headed = Natural
  BY <1>1, <1>2, <1>3
<1>5. \A l \in Natural : Hd[l] \in Ids
  BY <1>1 DEF Nests
<1>6. ASSUME NEW l \in reducible
      PROVE  Listed(l) = {b \in Ids : loop_[b] = l}
  <2>1. ASSUME NEW b \in Listed(l) PROVE b \in Ids /\ loop_[b] = l
    BY <1>1, <1>2, <1>4, <1>5
  <2>2. ASSUME NEW b \in Ids, loop_[b] = l PROVE b \in Listed(l)
    BY <1>1, <1>2, <1>3, <1>4, <2>2
  <2> QED
    BY <2>1, <2>2
<1>7. UNION {Listed(l) : l \in reducible} = InLoop
  <2>1. \A b \in InLoop : loop_[b] \in reducible
    BY <1>1, <1>2
  <2>2. None \notin reducible
    BY <1>3
  <2> HIDE DEF reducible, Listed
  <2> QED
    BY <1>6, <2>1, <2>2
<1>8. R \subseteq InLoop /\ (Strays = {} <=> R = InLoop)
  <2>1. R \subseteq InLoop
    BY <1>1, <1>2, <1>3
  <2>2. Strays = InLoop \ R
    BY DEF Strays
  <2> QED
    BY <2>1, <2>2
<1>9. IsFiniteSet(InLoop)
  BY FS_Subset, FiniteIds
<1>10. Cardinality(InLoop) = Cardinality(R) <=> R = InLoop
  <2> HIDE DEF InLoop, R
  <2> QED
    BY <1>8, <1>9, FS_Subset
<1>11. \A l \in headed : /\ loop_[loops_[l].header] = l /\ loops_[l].header \notin loops_[l].blocks
  BY <1>1, <1>2, <1>4
<1>12. \A l \in reducible : \A b \in loops_[l].blocks : loop_[b] = l
  BY <1>1, <1>2
<1>13. \A l, m \in reducible : l # m => Listed(l) \cap Listed(m) = {}
  <2> HIDE DEF reducible, Listed
  <2> QED
    BY <1>6
<1>14. \A b \in R : loop_[b] \in reducible
  BY <1>1, <1>2
<1> QED
  BY <1>7, <1>8, <1>10, <1>11, <1>12, <1>13, <1>14 DEF ChecksHold

\* Otherwise the loop the start block is in is larger than its natural loop.
LEMMA TreeMissed ==
  ASSUME WF(graph), Start \in graph.blocks, Ordered, SingleBlockLoops # {}
  PROVE  ~NestsAsInGraph
<1>1. LoopsReady /\ loop_[Start] \in SingleBlockLoops
  BY DEF Ordered
<1>2. graph \in Graphs /\ Start \in Reachable(graph)
  BY ReachableBlocks, ReachableFacts
<1>3. PICK s \in SingleBlockLoops : s = loop_[Start]
  BY <1>1
<1>4. s \in Natural /\ s \in LoopIds \ {Root}
  BY DEF SingleBlockLoops, Natural
<1>5. NaturalLoop(s) \subseteq {loops_[s].header}
  BY <1>1, <1>2, <1>4, ReadyLoop
<1>6. loops_[s].header # Start
  BY <1>1, <1>4 DEF LoopsReady
<1>7. s \in Enclosing(s)
  <2>1. loops_ \in Seq(LoopRecords) /\ \A m \in LoopIds : loops_[m].outer_loop \in LoopIds \cup {None}
    BY <1>1 DEF LoopsReady
  <2>2. LoopIds = 1 .. Len(loops_) /\ Len(loops_) \in Nat
    BY <2>1 DEF LoopIds
  <2> QED
    BY <1>4, <2>1, <2>2, EnclosingLeast
<1> QED
  BY <1>2, <1>3, <1>4, <1>5, <1>6, <1>7 DEF NestsAsInGraph

-----------------------------------------------------------------------------
\* What SplitBackEdge does takes no block out of reach.
LEMMA SplitReaches ==
  ASSUME WF(graph), Start \in graph.blocks, NEW l, NEW m, NEW heads, NEW edges, NEW G,
         IsSplit(l, m, heads, edges, G)
  PROVE  Reachable(graph) \subseteq Reachable(graph')
<1> DEFINE P == {n \in Nat : n <= m => Reachable(graph) \subseteq Reachable(G[n])}
<1>1. /\ m \in Nat \ {0} /\ TurnByTurn(G, heads, edges, m) /\ graph' = G[m]
      /\ \A i \in 1 .. m : heads[i + 1] \in Ids \ graph.blocks
  BY DEF IsSplit
<1>2. /\ \A n \in 0 .. m : WF(G[n]) /\ G[n].blocks = graph.blocks \cup {heads[i + 1] : i \in 1 .. m}
      /\ \A c \in graph.blocks : G[0].succs[c] = graph.succs[c]
      /\ \A i \in 1 .. m : Isolated(G[0], heads[i + 1])
      /\ \A n \in 0 .. m - 1 : IsTurn(G[n], G[n + 1], heads, edges, n)
  BY <1>1 DEF TurnByTurn
<1>3. 0 \in P
  <2>1. WF(G[0]) /\ G[0].blocks = graph.blocks \cup {heads[i + 1] : i \in 1 .. m}
    BY <1>1, <1>2
  <2>2. Extends(graph, G[0])
    BY <1>2, <2>1 DEF Extends
  <2>3. Reachable(G[0]) = Reachable(graph)
    BY <2>1, <2>2, ExtendKeepsReach DEF Reachable
  <2> QED
    BY <2>3
<1>4. ASSUME NEW n \in Nat, n \in P PROVE n + 1 \in P
  <2> SUFFICES ASSUME n + 1 <= m PROVE Reachable(graph) \subseteq Reachable(G[n + 1])
    OBVIOUS
  <2>1. PICK x, t, g, h : x = heads[n + 2] /\ t = heads[n + 1] /\ g = G[n] /\ h = G[n + 1]
    OBVIOUS
  <2>2. n \in 0 .. m - 1 /\ n \in 0 .. m /\ n + 1 \in 0 .. m /\ n + 1 \in 1 .. m /\ (n + 1) + 1 = n + 2
    BY <1>1
  <2>3. WF(g) /\ WF(h) /\ h.blocks = g.blocks /\ graph.blocks \subseteq g.blocks
    BY <1>2, <2>1, <2>2
  <2>4. /\ x \in g.blocks /\ Isolated(g, x) /\ t \in g.blocks /\ Detoured(g, h, x, t)
    BY <1>2, <2>1, <2>2 DEF IsTurn
  <2>5. x # Start /\ t # None /\ Start \in g.blocks
    <3>1. x \notin graph.blocks
      BY <1>1, <2>1, <2>2
    <3>2. t \in Ids
      BY <2>3, <2>4 DEF WF, Shape, Graphs
    <3> QED
      BY <2>3, <3>1, <3>2, FlowGraphAssumption
  <2>6. ReachAvoiding(h, Start, {}) \ {x} = ReachAvoiding(g, Start, {})
    BY <2>3, <2>4, <2>5, DetourKeepsReach
  <2>7. Reachable(graph) \subseteq Reachable(g)
    BY <1>1, <1>4, <2>1, <2>2
  <2> QED
    BY <2>1, <2>6, <2>7 DEF Reachable
<1>5. m \in P
  <2> HIDE DEF P
  <2> QED
    BY <1>1, <1>3, <1>4, SetInduction
<1> QED
  BY <1>1, <1>5

\* A pre-header takes no block out of reach and dominates none of those there were.
LEMMA PreHeaderReaches ==
  ASSUME WF(graph), Start \in graph.blocks, NEW L, NEW pre, PreHeaderAdded(L, pre), WF(graph'),
         L.header \in graph.blocks
  PROVE  /\ Reachable(graph) \subseteq Reachable(graph')
         /\ \A d, b \in graph.blocks : Dominates(graph', d, b) <=> Dominates(graph, d, b)
<1>1. PICK t, n, h : t = L.header /\ n = NewBlock(graph, pre, "none") /\ h = graph'
  OBVIOUS
<1>2. /\ pre \in Ids \ graph.blocks /\ h.blocks = graph.blocks \cup {pre}
      /\ WF(n) /\ Extends(graph, n) /\ n.blocks = h.blocks /\ Detoured(n, h, pre, t)
  BY <1>1 DEF PreHeaderAdded
<1>3. /\ WF(h) /\ pre \in n.blocks /\ pre # Start /\ Start \in n.blocks /\ Isolated(n, pre) /\ t # None
  <2>1. Isolated(n, pre) /\ pre \in n.blocks
    BY <1>2 DEF Extends
  <2>2. t \in Ids
    BY <1>1 DEF WF, Shape, Graphs
  <2> QED
    BY <1>1, <1>2, <2>1, <2>2, FlowGraphAssumption
<1>4. ASSUME NEW A, pre \notin A
      PROVE  ReachAvoiding(h, Start, A) \ {pre} = ReachAvoiding(graph, Start, A)
  <2>1. ReachAvoiding(n, Start, A) = ReachAvoiding(graph, Start, A)
    BY <1>2, ExtendKeepsReach
  <2>2. ReachAvoiding(h, Start, A) \ {pre} = ReachAvoiding(n, Start, A)
    <3>1. WF(n) /\ WF(h) /\ h.blocks = n.blocks /\ Detoured(n, h, pre, t)
      BY <1>2, <1>3
    <3> QED
      BY <1>3, <1>4, <3>1, DetourKeepsReach
  <2> QED
    BY <2>1, <2>2
<1>5. Reachable(graph) \subseteq Reachable(h)
  BY <1>4 DEF Reachable
<1>6. ASSUME NEW d \in graph.blocks, NEW b \in graph.blocks PROVE Dominates(h, d, b) <=> Dominates(graph, d, b)
  <2>1. pre \notin {d} /\ b # pre
    BY <1>2
  <2>2. ReachAvoiding(h, Start, {d}) \ {pre} = ReachAvoiding(graph, Start, {d})
    BY <1>4, <2>1
  <2> QED
    BY <2>1, <2>2 DEF Dominates
<1> QED
  BY <1>1, <1>5, <1>6

-----------------------------------------------------------------------------
\* DomTree notes just the dominators of the blocks that can be reached.
LEMMA DomTreeDominates ==
  ASSUME NEW g \in Graphs, NEW a \in Reachable(g), NEW b \in Reachable(g)
  PROVE  DominatesIn(DomTree(g), a, b) <=> Dominates(g, a, b)
<1>1. b \in Ids /\ Start \in Ids
  BY ReachableFacts, FlowGraphAssumption
<1>2. DomTree(g)[b] = {d \in Reachable(g) \ {b} : Dominates(g, d, b)}
  BY <1>1 DEF DomTree
<1>3. Dominates(g, b, b)
  BY <1>1, ReachStaysOut DEF Dominates
<1> QED
  BY <1>2, <1>3 DEF DominatesIn

\* What making a loop does to the blocks in it, the loop around it and the flag.
LEMMA LoopFlagFacts ==
  ASSUME NEW L \in LoopRecords, NEW b \in Ids, NEW doms
  PROVE  /\ AddBackEdge(L, b).blocks = L.blocks /\ AddBackEdge(L, b).outer_loop = L.outer_loop
         /\ AddBackEdge(L, b).is_reducible <=> L.is_reducible /\ DominatesIn(dominators, L.header, b)
         /\ CalculateReducibility(doms, L).blocks = L.blocks
         /\ CalculateReducibility(doms, L).outer_loop = L.outer_loop
         /\ L.header = None => CalculateReducibility(doms, L) = L
         /\ L.header # None /\ L.back_edges # <<>>
            => (CalculateReducibility(doms, L).is_reducible
                  <=> \A x \in ToSet(L.back_edges) : DominatesIn(doms, L.header, x))
<1>1. /\ AddBackEdge(L, b).blocks = L.blocks /\ AddBackEdge(L, b).outer_loop = L.outer_loop
      /\ AddBackEdge(L, b).is_reducible <=> L.is_reducible /\ DominatesIn(dominators, L.header, b)
  <2> DEFINE bs == Append(L.back_edges, b)
             v == L.is_reducible /\ DominatesIn(dominators, L.header, b)
  <2>1. AddBackEdge(L, b) = WithFields(L, bs, v)
    BY Zenon DEF AddBackEdge, WithFields
  <2>2. PICK w : w = v
    OBVIOUS
  <2> HIDE DEF bs, v
  <2>3. /\ WithFields(L, bs, w).blocks = L.blocks /\ WithFields(L, bs, w).outer_loop = L.outer_loop
        /\ WithFields(L, bs, w).is_reducible = w
    BY DEF WithFields, LoopRecords
  <2>4. AddBackEdge(L, b).is_reducible = v
    BY <2>1, <2>2, <2>3
  <2>5. AddBackEdge(L, b).is_reducible <=> v
    BY <2>4
  <2> QED
    BY <2>1, <2>2, <2>3, <2>5, Zenon DEF v
<1>2. L.header = None => CalculateReducibility(doms, L) = L
  BY DEF CalculateReducibility
<1>3. /\ CalculateReducibility(doms, L).blocks = L.blocks
      /\ CalculateReducibility(doms, L).outer_loop = L.outer_loop
      /\ L.header # None /\ L.back_edges # <<>>
         => (CalculateReducibility(doms, L).is_reducible
               <=> \A x \in ToSet(L.back_edges) : DominatesIn(doms, L.header, x))
  <2> DEFINE v == \A bck \in ToSet(L.back_edges) : DominatesIn(doms, L.header, bck)
  <2>1. CASE L.header = None \/ L.back_edges = <<>>
    BY <2>1 DEF CalculateReducibility
  <2>2. CASE ~(L.header = None \/ L.back_edges = <<>>)
    <3>1. CalculateReducibility(doms, L) = [L EXCEPT !.is_reducible = v]
      BY <2>2, Zenon DEF CalculateReducibility
    <3>2. PICK w : w = v
      OBVIOUS
    <3> HIDE DEF v
    <3>3. LET M == [L EXCEPT !.is_reducible = w]
          IN  M.blocks = L.blocks /\ M.outer_loop = L.outer_loop /\ M.is_reducible = w
      BY DEF LoopRecords
    <3>4. CalculateReducibility(doms, L).is_reducible = v
      BY <3>1, <3>2, <3>3
    <3>5. CalculateReducibility(doms, L).is_reducible <=> v
      BY <3>4
    <3> QED
      BY <3>1, <3>2, <3>3, <3>5, Zenon DEF v
  <2> QED
    BY <2>1, <2>2
<1> QED
  BY <1>1, <1>2, <1>3

\* A new loop has no blocks, is in no other, and reducible if its header dominates.
LEMMA NewLoopFlag ==
  ASSUME NEW h \in Ids, NEW b \in Ids
  PROVE  /\ NewLoop(h, b).blocks = {} /\ NewLoop(h, b).outer_loop = None
         /\ NewLoop(h, b).is_reducible <=> DominatesIn(dominators, h, b)
<1> DEFINE L == [NullLoop EXCEPT !.header = h]
           N == AddBackEdge(L, b)
<1>1. L \in LoopRecords /\ L.header = h /\ L.back_edges = <<>> /\ L.blocks = {} /\ L.outer_loop = None
  <2>1. NullLoop \in LoopRecords /\ NullLoop.back_edges = <<>>
    BY NullLoopFacts
  <2>2. NullLoop.blocks = {} /\ NullLoop.outer_loop = None
    BY DEF NullLoop
  <2> QED
    BY <2>1, <2>2 DEF LoopRecords
<1> HIDE DEF L
<1>2. /\ N \in LoopRecords /\ N.header = h /\ N.back_edges = <<b>> /\ N.blocks = {} /\ N.outer_loop = None
  <2>1. Append(<<>>, b) = <<b>>
    OBVIOUS
  <2> QED
    BY <1>1, <2>1, LoopFieldFacts, LoopFlagFacts
<1>3. NewLoop(h, b) = CalculateReducibility(dominators, N)
  BY DEF NewLoop, L
<1> HIDE DEF N
<1>4. h # None /\ <<b>> # <<>> /\ ToSet(<<b>>) = {b}
  BY OneBackEdge, FlowGraphAssumption
<1>5. /\ NewLoop(h, b).blocks = N.blocks /\ NewLoop(h, b).outer_loop = N.outer_loop
      /\ NewLoop(h, b).is_reducible <=> \A x \in ToSet(N.back_edges) : DominatesIn(dominators, N.header, x)
  <2>1. N.header # None /\ N.back_edges # <<>>
    BY <1>2, <1>4
  <2> QED
    BY <1>2, <1>3, <2>1, LoopFlagFacts
<1> QED
  BY <1>2, <1>4, <1>5

-----------------------------------------------------------------------------
\* Before the loops are populated: the headers are in their loops and marked, and no
\* other block is in a loop; the back edges leave blocks that can be reached.
Unpopulated ==
  /\ HeadersOnly /\ is_loop_header = {loops_[l].header : l \in LoopIds \ {Root}}
  /\ Start \notin Headers /\ loops_[Root].is_reducible
  /\ \A l \in LoopIds : loops_[l].blocks = {} /\ loops_[l].outer_loop = None
  /\ \A l \in LoopIds \ {Root} :
       loops_[l].back_edges # <<>> /\ ToSet(loops_[l].back_edges) \subseteq Reachable(graph)

\* A loop counts as reducible just if its header dominates its back edges.
FlagsRight ==
  \A l \in LoopIds \ {Root} :
    loops_[l].is_reducible <=> \A x \in ToSet(loops_[l].back_edges) :
                                 Dominates(graph, loops_[l].header, x)

\* A back edge from b to c is noted in the loop of c.
LEMMA NotedFlags ==
  ASSUME WF(graph), Start \in graph.blocks, LoopsKnown, Unpopulated, FlagsRight,
         dominators = DomTree(graph), NEW b \in Reachable(graph), NEW c \in Reachable(graph) \ {Start},
         graph' = graph, Noted(b, c), HeadersOnly',
         is_loop_header' = IF loop_[c] = None THEN is_loop_header \cup {c} ELSE is_loop_header
  PROVE  Unpopulated' /\ FlagsRight'
<1> DEFINE n == Len(loops_)
<1>1. LoopsTyped /\ HeadersOwn /\ BackEdgesLead
  BY DEF LoopsKnown
<1>2. graph \in Graphs /\ Reachable(graph) \subseteq Ids
  BY ReachableBlocks, ReachableFacts
<1>3. /\ loops_ \in Seq(LoopRecords) /\ LoopIds = 1 .. n /\ n \in Nat
      /\ \A k \in LoopIds : loops_[k] \in LoopRecords
      /\ c \in Ids /\ b \in Ids /\ c # None
  BY <1>1, <1>2, FlowGraphAssumption DEF LoopsTyped, LoopIds
<1>4. /\ HeadersOnly /\ is_loop_header = {loops_[l].header : l \in LoopIds \ {Root}}
      /\ Start \notin Headers /\ loops_[Root].is_reducible
      /\ \A l \in LoopIds : loops_[l].blocks = {} /\ loops_[l].outer_loop = None
      /\ \A l \in LoopIds \ {Root} :
           loops_[l].back_edges # <<>> /\ ToSet(loops_[l].back_edges) \subseteq Reachable(graph)
  BY DEF Unpopulated
<1>5. \A l \in LoopIds \ {Root} : Start # loops_[l].header
  BY <1>4 DEF Headers
<1>6. DominatesIn(dominators, c, b) <=> Dominates(graph, c, b)
  BY <1>2, DomTreeDominates
<1>7. Root \in LoopIds /\ loops_[Root].header = None
  BY <1>1 DEF HeadersOwn
<1>8. CASE loop_[c] = None
  <2> DEFINE N == NewLoop(c, b)
  <2>1. /\ N \in LoopRecords /\ N.header = c /\ N.back_edges = <<b>> /\ ToSet(<<b>>) = {b} /\ <<b>> # <<>>
        /\ N.blocks = {} /\ N.outer_loop = None
        /\ N.is_reducible <=> DominatesIn(dominators, c, b)
    BY <1>3, NewLoopFacts, NewLoopFlag, OneBackEdge
  <2>2. loops_' = Append(loops_, N)
    BY <1>8 DEF Noted
  <2> HIDE DEF N
  <2>3. /\ Len(loops_') = n + 1 /\ loops_'[n + 1] = N
        /\ \A k \in 1 .. n : loops_'[k] = loops_[k]
    <3>1. loops_' \in Seq(LoopRecords) /\ Len(loops_') = n + 1 /\ loops_'[n + 1] = N
      BY <1>3, <2>1, <2>2
    <3>2. \A k \in 1 .. n : loops_'[k] = loops_[k]
      BY <1>3, <2>1, <2>2
    <3> QED
      BY <3>1, <3>2
  <2> HIDE DEF n
  <2>4. LoopIds' = LoopIds \cup {n + 1} /\ n + 1 \notin LoopIds /\ n + 1 # Root /\ n + 1 \in Nat
    <3>1. Root \in LoopIds /\ Root = 1
      BY <1>7 DEF Root
    <3>2. LoopIds' = 1 .. n + 1
      <4>1. loops_' \in Seq(LoopRecords)
        BY <1>3, <2>1, <2>2
      <4> QED
        BY <2>3, <4>1 DEF LoopIds
    <3> QED
      BY <1>3, <3>1, <3>2
  <2>5. \A k \in LoopIds : loops_'[k] = loops_[k]
    BY <1>3, <2>3
  <2>6. is_loop_header' = {loops_'[l].header : l \in LoopIds' \ {Root}}
    <3>1. is_loop_header' = {loops_[l].header : l \in LoopIds \ {Root}} \cup {c}
      BY <1>4, <1>8
    <3>2. LoopIds' \ {Root} = (LoopIds \ {Root}) \cup {n + 1}
      BY <2>4
    <3> QED
      BY <2>1, <2>3, <2>5, <3>1, <3>2
  <2>7. Start \notin Headers' /\ loops_'[Root].is_reducible
    <3>1. \A l \in LoopIds' : loops_'[l].header # Start
      BY <1>3, <1>4, <2>1, <2>3, <2>4, <2>5 DEF Headers
    <3> QED
      BY <1>4, <1>7, <2>5, <3>1 DEF Headers
  <2>8. \A l \in LoopIds' : loops_'[l].blocks = {} /\ loops_'[l].outer_loop = None
    BY <1>4, <2>1, <2>3, <2>4, <2>5
  <2>9. \A l \in LoopIds' \ {Root} :
          loops_'[l].back_edges # <<>> /\ ToSet(loops_'[l].back_edges) \subseteq Reachable(graph')
    <3>1. ASSUME NEW l \in LoopIds \ {Root}
          PROVE  loops_'[l].back_edges # <<>> /\ ToSet(loops_'[l].back_edges) \subseteq Reachable(graph')
      BY <1>4, <2>5
    <3>2. loops_'[n + 1].back_edges # <<>> /\ ToSet(loops_'[n + 1].back_edges) \subseteq Reachable(graph')
      <4>1. loops_'[n + 1].back_edges = <<b>> /\ {b} \subseteq Reachable(graph')
        BY <2>1, <2>3
      <4> QED
        BY <2>1, <4>1
    <3> QED
      BY <2>4, <3>1, <3>2
  <2>10. FlagsRight'
    <3>1. ASSUME NEW l \in LoopIds \ {Root}
          PROVE  loops_'[l].is_reducible <=> \A x \in ToSet(loops_'[l].back_edges) :
                                               Dominates(graph', loops_'[l].header, x)
      BY <2>5 DEF FlagsRight
    <3>2. loops_'[n + 1].is_reducible <=> \A x \in ToSet(loops_'[n + 1].back_edges) :
                                            Dominates(graph', loops_'[n + 1].header, x)
      BY <1>6, <2>1, <2>3
    <3> QED
      BY <2>4, <3>1, <3>2 DEF FlagsRight
  <2> QED
    BY <2>6, <2>7, <2>8, <2>9, <2>10 DEF Unpopulated
<1>9. CASE loop_[c] # None
  <2>1. PICK j : j = loop_[c]
    OBVIOUS
  <2> DEFINE L == loops_[j]
             N == AddBackEdge(L, b)
  <2>2. j \in LoopIds \ {Root} /\ L.header = c /\ L \in LoopRecords
    BY <1>3, <1>4, <1>7, <1>9, <2>1 DEF HeadersOnly
  <2>3. /\ N.header = c /\ N.back_edges = Append(L.back_edges, b)
        /\ N.blocks = {} /\ N.outer_loop = None
        /\ N.is_reducible <=> L.is_reducible /\ DominatesIn(dominators, c, b)
    <3>1. L.blocks = {} /\ L.outer_loop = None
      BY <1>4, <2>2
    <3> QED
      BY <1>3, <2>2, <3>1, LoopFieldFacts, LoopFlagFacts
  <2>4. ToSet(N.back_edges) = ToSet(L.back_edges) \cup {b} /\ N.back_edges # <<>>
    <3>1. L.back_edges \in Seq(Ids)
      BY <2>2 DEF LoopRecords
    <3> HIDE DEF L, N
    <3>2. ToSet(N.back_edges) = ToSet(L.back_edges) \cup {b}
      BY <1>3, <2>3, <3>1, AppendFacts
    <3>3. Append(L.back_edges, b) # <<>>
      BY <1>3, <3>1
    <3> QED
      BY <2>3, <3>2, <3>3
  <2>5. loops_' = [loops_ EXCEPT ![j] = N]
    BY <1>9, <2>1 DEF Noted
  <2> HIDE DEF N
  <2>6. /\ LoopIds' = LoopIds /\ loops_'[j] = N /\ \A k \in LoopIds \ {j} : loops_'[k] = loops_[k]
        /\ \A k \in LoopIds : loops_'[k].header = loops_[k].header
    BY <2>2, <2>3, <2>5 DEF LoopIds
  <2>7. is_loop_header' = {loops_'[l].header : l \in LoopIds' \ {Root}}
    BY <1>4, <1>9, <2>6
  <2>8. Start \notin Headers' /\ loops_'[Root].is_reducible
    <3>1. Headers' = Headers
      BY <2>6 DEF Headers
    <3> QED
      BY <1>4, <1>7, <2>2, <2>6, <3>1
  <2>9. \A l \in LoopIds' : loops_'[l].blocks = {} /\ loops_'[l].outer_loop = None
    BY <1>4, <2>3, <2>6
  <2>10. \A l \in LoopIds' \ {Root} :
          loops_'[l].back_edges # <<>> /\ ToSet(loops_'[l].back_edges) \subseteq Reachable(graph')
    <3>1. ASSUME NEW l \in LoopIds \ {Root, j}
          PROVE  loops_'[l].back_edges # <<>> /\ ToSet(loops_'[l].back_edges) \subseteq Reachable(graph')
      BY <1>4, <2>6
    <3>2. loops_'[j].back_edges # <<>> /\ ToSet(loops_'[j].back_edges) \subseteq Reachable(graph')
      BY <1>4, <2>2, <2>4, <2>6
    <3> QED
      BY <2>6, <3>1, <3>2
  <2>11. FlagsRight'
    <3>1. ASSUME NEW l \in LoopIds \ {Root, j}
          PROVE  loops_'[l].is_reducible <=> \A x \in ToSet(loops_'[l].back_edges) :
                                               Dominates(graph', loops_'[l].header, x)
      BY <2>6 DEF FlagsRight
    <3>2. loops_'[j].is_reducible <=> \A x \in ToSet(loops_'[j].back_edges) :
                                        Dominates(graph', loops_'[j].header, x)
      <4>1. L.is_reducible <=> \A x \in ToSet(L.back_edges) : Dominates(graph, c, x)
        BY <2>2 DEF FlagsRight
      <4>2. N.is_reducible <=> \A x \in ToSet(N.back_edges) : Dominates(graph, c, x)
        BY <1>6, <2>3, <2>4, <4>1
      <4> QED
        BY <2>3, <2>6, <4>2
    <3> QED
      BY <2>6, <3>1, <3>2 DEF FlagsRight
  <2> QED
    BY <2>7, <2>8, <2>9, <2>10, <2>11 DEF Unpopulated
<1> QED
  BY <1>8, <1>9

-----------------------------------------------------------------------------
\* What is known besides while the back edges are collected: only blocks that can be
\* reached are come to, and the dominators are right.
CollectFlags ==
  /\ HasNoPredecessors(graph, Start) /\ black \subseteq Reachable(graph)
  /\ dominators = DomTree(graph) /\ dom_valid /\ Unpopulated /\ FlagsRight

\* A step that leaves the loops leaves what is known of them.
LEMMA SameFlags ==
  ASSUME UNCHANGED <<graph, loops_, blockLoops>>
  PROVE  (Unpopulated => Unpopulated') /\ (FlagsRight => FlagsRight')
<1>1. LoopIds' = LoopIds /\ UNCHANGED <<graph, loops_, loop_, is_loop_header>>
  BY DEF LoopIds, blockLoops
<1>2. (HeadersOnly => HeadersOnly') /\ Headers' = Headers
  BY <1>1 DEF HeadersOnly, Headers
<1>3. Unpopulated => Unpopulated'
  BY <1>1, <1>2 DEF Unpopulated
<1>4. FlagsRight => FlagsRight'
  BY <1>1 DEF FlagsRight
<1> QED
  BY <1>3, <1>4

\* What the call on top looks at can be reached, and is not the start block.
LEMMA SuccReached ==
  ASSUME WF(graph), Start \in graph.blocks, Calls, Awaited, AtSuccessor,
         HasNoPredecessors(graph, Start), black \subseteq Reachable(graph)
  PROVE  Top.bb \in Reachable(graph) /\ succ \in Reachable(graph) \ {Start}
<1> DEFINE n == Len(stack)
<1>1. /\ n \in Nat \ {0} /\ Top = stack[n] /\ stack[n].bb \in grey
      /\ ToSet(stack[n].todo) = {succ} \cup ToSet(Tail(stack[n].todo))
  BY TopFacts DEF AtSuccessor
<1>2. n \in 1 .. n
  BY <1>1
<1>3. succ \in SuccSet(graph, stack[n].bb)
  BY <1>1, <1>2 DEF Awaited
<1>4. stack[n].bb \in Reachable(graph)
  BY <1>1 DEF Calls
<1>5. graph \in Graphs /\ Reachable(graph) \subseteq graph.blocks
  BY ReachableBlocks
<1>6. succ \in Reachable(graph)
  BY <1>3, <1>4, <1>5, ReachableFacts
<1>7. stack[n].bb \in graph.preds[succ]
  <2>1. PICK b, c : b = stack[n].bb /\ c = succ
    OBVIOUS
  <2>2. b \in graph.blocks /\ c \in graph.blocks /\ c \in SuccSet(graph, b)
    BY <1>3, <1>4, <1>5, <1>6, <2>1
  <2>3. b \in graph.preds[c]
    BY <2>2 DEF WF, Shape, Symmetric, Graphs
  <2> QED
    BY <2>1, <2>3
<1>8. succ # Start
  BY <1>7 DEF HasNoPredecessors
<1> QED
  BY <1>1, <1>4, <1>6, <1>8

\* The steps of CollectBackEdges keep it.
LEMMA CollectFlagsStep ==
  ASSUME WF(graph), Start \in graph.blocks, LoopsKnown, Calls, Awaited, CollectFlags,
         BackEdge \/ SkipBlack \/ Visit \/ Leave, HeadersOnly'
  PROVE  CollectFlags'
<1>1. /\ HasNoPredecessors(graph, Start) /\ black \subseteq Reachable(graph)
      /\ dominators = DomTree(graph) /\ dom_valid /\ Unpopulated /\ FlagsRight
  BY DEF CollectFlags
<1>2. UNCHANGED <<graph, dominators, dom_valid>>
  BY DEF BackEdge, SkipBlack, Visit, Leave, domTree
<1>3. HasNoPredecessors(graph, Start)' /\ (dominators = DomTree(graph))' /\ dom_valid'
  BY <1>1, <1>2 DEF HasNoPredecessors
<1>4. CASE BackEdge
  <2>1. AtSuccessor /\ black' = black
    BY <1>4 DEF BackEdge
  <2>2. PICK b, c : b = Top.bb /\ c = succ
    OBVIOUS
  <2>3. b \in Reachable(graph) /\ c \in Reachable(graph) \ {Start}
    BY <1>1, <2>1, <2>2, SuccReached
  <2>4. /\ Noted(b, c)
        /\ is_loop_header' = IF loop_[c] = None THEN is_loop_header \cup {c} ELSE is_loop_header
    BY <1>4, <2>2 DEF BackEdge, Noted, blockLoops
  <2>5. Unpopulated' /\ FlagsRight'
    BY <1>1, <1>2, <2>3, <2>4, NotedFlags
  <2> QED
    BY <1>1, <1>2, <1>3, <2>1, <2>5 DEF CollectFlags
<1>5. CASE SkipBlack \/ Visit \/ Leave
  <2>1. UNCHANGED <<graph, loops_, blockLoops>>
    BY <1>5 DEF SkipBlack, Visit, Leave
  <2>2. Unpopulated' /\ FlagsRight'
    BY <1>1, <2>1, SameFlags
  <2>3. black' \subseteq Reachable(graph)
    <3>1. CASE Visit
      <4>1. AtSuccessor /\ black' = black \cup {succ}
        BY <3>1 DEF Visit
      <4> QED
        BY <1>1, <4>1, SuccReached
    <3>2. CASE SkipBlack \/ Leave
      BY <1>1, <3>2 DEF SkipBlack, Leave
    <3> QED
      BY <1>5, <3>1, <3>2
  <2> QED
    BY <1>2, <1>3, <2>2, <2>3 DEF CollectFlags
<1> QED
  BY <1>4, <1>5

\* Splitting a loop fills none, and its back edges stay within reach.
LEMMA SplitFlags ==
  ASSUME WF(graph), Start \in graph.blocks, LoopsTyped, HeadersOwn, Unpopulated,
         NEW l \in LoopIds, NEW m, NEW heads, NEW edges, NEW G, IsSplit(l, m, heads, edges, G)
  PROVE  Unpopulated'
<1> DEFINE n == Len(loops_)
           L == [loops_[l] EXCEPT !.back_edges = <<>>]
<1>1. /\ HeadersOnly /\ is_loop_header = {loops_[k].header : k \in LoopIds \ {Root}}
      /\ Start \notin Headers /\ loops_[Root].is_reducible
      /\ \A k \in LoopIds : loops_[k].blocks = {} /\ loops_[k].outer_loop = None
      /\ \A k \in LoopIds \ {Root} :
           loops_[k].back_edges # <<>> /\ ToSet(loops_[k].back_edges) \subseteq Reachable(graph)
  BY DEF Unpopulated
<1>2. /\ m \in Nat \ {0} /\ heads[1] = loops_[l].header
      /\ \A i \in 1 .. m : heads[i + 1] \in Ids \ graph.blocks
      /\ \A i \in 1 .. m + 1 : edges[i] \in Ids /\ edges[i] \in ToSet(loops_[l].back_edges)
      /\ LoopIds' = 1 .. n + m
      /\ \A k \in LoopIds \ {l} : loops_'[k] = loops_[k]
      /\ loops_'[l] = AddBackEdge(L, edges[1])
      /\ \A i \in 1 .. m : loops_'[n + i] = NewLoop(heads[i + 1], edges[i + 1])
      /\ \A b \in Ids : (\A i \in 1 .. m : b # heads[i + 1]) => loop_'[b] = loop_[b]
      /\ \A i \in 1 .. m : loop_'[heads[i + 1]] = n + i
      /\ is_loop_header' = is_loop_header \cup {heads[i + 1] : i \in 1 .. m}
  BY DEF IsSplit
<1>3. /\ n \in Nat /\ LoopIds = 1 .. n
      /\ \A k \in LoopIds : loops_'[k].header = loops_[k].header
      /\ \A k \in LoopIds \ {l} : loops_'[k].back_edges = loops_[k].back_edges
      /\ loops_'[l].back_edges = <<edges[1]>>
      /\ \A i \in 1 .. m : /\ loops_'[n + i].header = heads[i + 1]
                          /\ loops_'[n + i].back_edges = <<edges[i + 1]>>
      /\ Headers' = Headers \cup {heads[i + 1] : i \in 1 .. m}
  BY SplitLoops
<1>4. Root \in LoopIds /\ loops_[Root].back_edges = <<>>
  BY DEF HeadersOwn
<1>5. 1 \in 1 .. m + 1 /\ \A i \in 1 .. m : i + 1 \in 1 .. m + 1
  BY <1>2
<1>6. l # Root
  <2>1. ToSet(<<>>) = {}
    BY DEF ToSet
  <2>2. edges[1] \in ToSet(loops_[l].back_edges)
    BY <1>2, <1>5
  <2> QED
    BY <1>4, <2>1, <2>2
<1>7. L \in LoopRecords /\ L.blocks = {} /\ L.outer_loop = None
  <2>1. loops_[l] \in LoopRecords /\ <<>> \in Seq(Ids)
    BY DEF LoopsTyped, LoopIds
  <2>2. L \in LoopRecords /\ L.blocks = loops_[l].blocks /\ L.outer_loop = loops_[l].outer_loop
    BY <2>1 DEF LoopRecords
  <2> QED
    BY <1>1, <2>2
<1> HIDE DEF n, L
<1>8. LoopIds' = LoopIds \cup {n + i : i \in 1 .. m} /\ \A i \in 1 .. m : n + i \notin LoopIds
  <2>1. n \in Nat /\ m \in Nat /\ LoopIds = 1 .. n /\ LoopIds' = 1 .. n + m
    BY <1>2, <1>3
  <2>2. \A i \in 1 .. m : n + i \in 1 .. n + m /\ n + i \notin 1 .. n
    BY <2>1
  <2>3. \A k \in 1 .. n + m : k \in 1 .. n \/ (k - n \in 1 .. m /\ k = n + (k - n))
    BY <2>1
  <2>4. 1 .. n \subseteq 1 .. n + m
    BY <2>1
  <2> QED
    BY <2>1, <2>2, <2>3, <2>4
<1>9. \A i \in 1 .. m : n + i # Root
  BY <1>4, <1>8
<1>10. \A k \in LoopIds' : loops_'[k].blocks = {} /\ loops_'[k].outer_loop = None
  <2>1. loops_'[l].blocks = {} /\ loops_'[l].outer_loop = None
    <3>1. edges[1] \in Ids
      BY <1>2, <1>5
    <3>2. PICK e, x : e = edges[1] /\ x = L
      OBVIOUS
    <3>3. AddBackEdge(x, e).blocks = {} /\ AddBackEdge(x, e).outer_loop = None
      BY <1>7, <3>1, <3>2, LoopFlagFacts
    <3>4. loops_'[l] = AddBackEdge(x, e)
      BY <1>2, <3>2
    <3> QED
      BY <3>3, <3>4
  <2>2. ASSUME NEW i \in 1 .. m PROVE loops_'[n + i].blocks = {} /\ loops_'[n + i].outer_loop = None
    <3>1. edges[i + 1] \in Ids /\ heads[i + 1] \in Ids /\ loops_'[n + i] = NewLoop(heads[i + 1], edges[i + 1])
      BY <1>2, <1>5
    <3> QED
      BY <3>1, NewLoopFlag
  <2>3. \A k \in LoopIds \ {l} : loops_'[k].blocks = {} /\ loops_'[k].outer_loop = None
    BY <1>1, <1>2
  <2> QED
    BY <1>8, <2>1, <2>2, <2>3
<1>11. \A k \in LoopIds' \ {Root} :
         loops_'[k].back_edges # <<>> /\ ToSet(loops_'[k].back_edges) \subseteq Reachable(graph')
  <2>1. Reachable(graph) \subseteq Reachable(graph')
    BY SplitReaches
  <2>2. ASSUME NEW i \in 1 .. m + 1 PROVE <<edges[i]>> # <<>> /\ ToSet(<<edges[i]>>) \subseteq Reachable(graph')
    <3>1. edges[i] \in Reachable(graph')
      BY <1>1, <1>2, <1>6, <2>1
    <3> QED
      BY <3>1, OneBackEdge
  <2>3. loops_'[l].back_edges # <<>> /\ ToSet(loops_'[l].back_edges) \subseteq Reachable(graph')
    BY <1>3, <1>5, <2>2
  <2>4. ASSUME NEW i \in 1 .. m
        PROVE  loops_'[n + i].back_edges # <<>> /\ ToSet(loops_'[n + i].back_edges) \subseteq Reachable(graph')
    BY <1>3, <1>5, <2>2
  <2>5. ASSUME NEW k \in LoopIds \ {l, Root}
        PROVE  loops_'[k].back_edges # <<>> /\ ToSet(loops_'[k].back_edges) \subseteq Reachable(graph')
    BY <1>1, <1>3, <2>1
  <2> QED
    BY <1>8, <2>3, <2>4, <2>5
<1>12. HeadersOnly'
  <2> SUFFICES ASSUME NEW b \in Ids, loop_'[b] # None
               PROVE  loop_'[b] \in LoopIds' /\ loops_'[loop_'[b]].header = b
    BY DEF HeadersOnly
  <2>1. CASE \E i \in 1 .. m : b = heads[i + 1]
    BY <1>2, <1>3, <1>8, <2>1
  <2>2. CASE \A i \in 1 .. m : b # heads[i + 1]
    <3>1. loop_'[b] = loop_[b]
      BY <1>2, <2>2
    <3>2. loop_[b] \in LoopIds /\ loops_[loop_[b]].header = b
      BY <1>1, <3>1 DEF HeadersOnly
    <3> QED
      BY <1>3, <1>8, <3>1, <3>2
  <2> QED
    BY <2>1, <2>2
<1>13. is_loop_header' = {loops_'[k].header : k \in LoopIds' \ {Root}}
  <2>1. ASSUME NEW b \in is_loop_header' PROVE \E k \in LoopIds' \ {Root} : b = loops_'[k].header
    <3>1. CASE b \in is_loop_header
      BY <1>1, <1>3, <1>8, <3>1
    <3>2. CASE \E i \in 1 .. m : b = heads[i + 1]
      BY <1>3, <1>8, <1>9, <3>2
    <3> QED
      BY <1>2, <2>1, <3>1, <3>2
  <2>2. ASSUME NEW k \in LoopIds' \ {Root} PROVE loops_'[k].header \in is_loop_header'
    <3>1. CASE k \in LoopIds
      <4>1. loops_[k].header \in is_loop_header
        BY <1>1, <2>2, <3>1
      <4> QED
        BY <1>2, <1>3, <3>1, <4>1
    <3>2. CASE \E i \in 1 .. m : k = n + i
      <4>1. PICK i \in 1 .. m : k = n + i
        BY <3>2
      <4>2. loops_'[k].header = heads[i + 1]
        BY <1>3, <4>1
      <4>3. heads[i + 1] \in is_loop_header'
        BY <1>2
      <4> QED
        BY <4>2, <4>3
    <3> QED
      BY <1>8, <3>1, <3>2
  <2> QED
    BY <2>1, <2>2
<1>14. Start \notin Headers' /\ loops_'[Root].is_reducible
  BY <1>1, <1>2, <1>3, <1>4, <1>6
<1> QED
  BY <1>10, <1>11, <1>12, <1>13, <1>14 DEF Unpopulated

LEMMA SplitFlagsStep ==
  ASSUME WF(graph), Start \in graph.blocks, LoopsKnown, Unpopulated, todo \in Seq(LoopIds), SplitBackEdge
  PROVE  Unpopulated' /\ ~dom_valid'
<1>1. PICK l : l = Head(todo)
  OBVIOUS
<1>2. LoopsTyped /\ HeadersOwn
  BY DEF LoopsKnown
<1>3. l \in LoopIds
  <2>1. todo # <<>>
    BY DEF SplitBackEdge
  <2> QED
    BY <1>1, <2>1, HeadTailFacts
<1>4. PICK m, heads, edges, G : IsSplit(l, m, heads, edges, G)
  BY <1>1, <1>2, <1>3, SplitBackEdgeFacts
<1>5. Unpopulated'
  BY <1>2, <1>3, <1>4, SplitFlags
<1> QED
  BY <1>5 DEF SplitBackEdge

\* The headers can be reached, since the back edges lead to them.
LEMMA HeadersReached ==
  ASSUME WF(graph), Start \in graph.blocks, LoopsKnown, Unpopulated, NEW l \in LoopIds \ {Root}
  PROVE  /\ loops_[l].header \in Reachable(graph) \ {Start}
         /\ \A x \in ToSet(loops_[l].back_edges) :
              x \in Reachable(graph) /\ loops_[l].header \in SuccSet(graph, x)
<1>1. PICK h, L : h = loops_[l].header /\ L = loops_[l].back_edges
  OBVIOUS
<1>2. L \in Seq(Ids) /\ L # <<>> /\ ToSet(L) \subseteq Reachable(graph) /\ h # Start
  <2>1. loops_[l] \in LoopRecords
    BY LoopIdsFacts
  <2>2. L \in Seq(Ids)
    BY <1>1, <2>1 DEF LoopRecords
  <2>3. L # <<>> /\ ToSet(L) \subseteq Reachable(graph)
    BY <1>1 DEF Unpopulated
  <2>4. h # Start
    BY <1>1 DEF Unpopulated, Headers
  <2> QED
    BY <2>2, <2>3, <2>4
<1>3. h \in graph.blocks /\ \A x \in ToSet(L) : x \in graph.preds[h]
  BY <1>1 DEF LoopsKnown, HeadersOwn, BackEdgesLead
<1>4. graph \in Graphs /\ Reachable(graph) \subseteq graph.blocks
  BY ReachableBlocks
<1>5. ASSUME NEW x \in ToSet(L) PROVE x \in Reachable(graph) /\ h \in SuccSet(graph, x)
  <2>1. x \in Reachable(graph) /\ x \in graph.blocks
    BY <1>2, <1>4, <1>5
  <2>2. h \in SuccSet(graph, x)
    BY <1>3, <2>1 DEF WF, Shape, Symmetric, Graphs
  <2> QED
    BY <2>1, <2>2
<1>6. Head(L) \in ToSet(L)
  BY <1>2, HeadTailFacts
<1>7. h \in Reachable(graph)
  BY <1>4, <1>5, <1>6, ReachableFacts
<1> QED
  BY <1>1, <1>2, <1>5, <1>7

\* The flags are right once the dominators have been computed again.
LEMMA RecalculatedFlags ==
  ASSUME WF(graph), Start \in graph.blocks, LoopsKnown, Unpopulated, dom_valid => FlagsRight,
         RecalculateLoopsReducibility
  PROVE  Unpopulated' /\ FlagsRight'
<1>1. UNCHANGED <<graph, loop_, is_loop_header>>
  BY DEF RecalculateLoopsReducibility, blockLoops
<1>2. CASE dom_valid
  <2>1. UNCHANGED <<graph, loops_, blockLoops>>
    BY <1>2 DEF RecalculateLoopsReducibility
  <2> QED
    BY <1>2, <2>1, SameFlags
<1>3. CASE ~dom_valid
  <2>1. PICK doms : doms = DomTree(graph)
    OBVIOUS
  <2>2. loops_' = [l \in LoopIds |-> CalculateReducibility(doms, loops_[l])]
    BY <1>3, <2>1 DEF RecalculateLoopsReducibility, Recalculated, LoopIds
  <2>3. LoopIds' = LoopIds /\ \A l \in LoopIds : loops_'[l] = CalculateReducibility(doms, loops_[l])
    BY <2>2 DEF LoopIds
  <2>4. \A l \in LoopIds : loops_[l] \in LoopRecords
    BY LoopIdsFacts
  <2>5. Start \in Ids /\ graph \in Graphs /\ Reachable(graph) \subseteq Ids
    BY ReachableBlocks, ReachableFacts
  <2>6. Root \in LoopIds /\ loops_[Root].header = None
    BY DEF LoopsKnown, HeadersOwn
  <2>7. ASSUME NEW l \in LoopIds
        PROVE  /\ loops_'[l].header = loops_[l].header /\ loops_'[l].back_edges = loops_[l].back_edges
               /\ loops_'[l].blocks = loops_[l].blocks /\ loops_'[l].outer_loop = loops_[l].outer_loop
               /\ loops_[l].header = None => loops_'[l] = loops_[l]
               /\ loops_[l].header # None /\ loops_[l].back_edges # <<>>
                  => (loops_'[l].is_reducible
                        <=> \A x \in ToSet(loops_[l].back_edges) : DominatesIn(doms, loops_[l].header, x))
    <3>1. PICK L : L = loops_[l]
      OBVIOUS
    <3>2. L \in LoopRecords
      BY <2>4, <3>1
    <3>3. /\ CalculateReducibility(doms, L).header = L.header
          /\ CalculateReducibility(doms, L).back_edges = L.back_edges
      BY <2>5, <3>2, LoopFieldFacts
    <3>4. /\ CalculateReducibility(doms, L).blocks = L.blocks
          /\ CalculateReducibility(doms, L).outer_loop = L.outer_loop
          /\ L.header = None => CalculateReducibility(doms, L) = L
          /\ L.header # None /\ L.back_edges # <<>>
             => (CalculateReducibility(doms, L).is_reducible
                   <=> \A x \in ToSet(L.back_edges) : DominatesIn(doms, L.header, x))
      BY <2>5, <3>2, LoopFlagFacts
    <3>5. loops_'[l] = CalculateReducibility(doms, L)
      BY <2>3, <3>1
    <3> QED
      BY <3>1, <3>3, <3>4, <3>5
  <2>8. Headers' = Headers
    BY <2>3, <2>7 DEF Headers
  <2>9. HeadersOnly'
    <3>1. HeadersOnly
      BY DEF Unpopulated
    <3> QED
      BY <1>1, <2>3, <2>7, <3>1 DEF HeadersOnly
  <2>10. is_loop_header' = {loops_'[l].header : l \in LoopIds' \ {Root}}
    <3>1. is_loop_header = {loops_[l].header : l \in LoopIds \ {Root}}
      BY DEF Unpopulated
    <3> QED
      BY <1>1, <2>3, <2>7, <3>1
  <2>11. Start \notin Headers' /\ loops_'[Root].is_reducible
    <3>1. Start \notin Headers /\ loops_[Root].is_reducible
      BY DEF Unpopulated
    <3> QED
      BY <2>6, <2>7, <2>8, <3>1
  <2>12. \A l \in LoopIds' : loops_'[l].blocks = {} /\ loops_'[l].outer_loop = None
    <3>1. \A l \in LoopIds : loops_[l].blocks = {} /\ loops_[l].outer_loop = None
      BY DEF Unpopulated
    <3> QED
      BY <2>3, <2>7, <3>1
  <2>13. \A l \in LoopIds \ {Root} :
           loops_[l].back_edges # <<>> /\ ToSet(loops_[l].back_edges) \subseteq Reachable(graph)
    BY DEF Unpopulated
  <2>14. \A l \in LoopIds' \ {Root} :
           loops_'[l].back_edges # <<>> /\ ToSet(loops_'[l].back_edges) \subseteq Reachable(graph')
    BY <1>1, <2>3, <2>7, <2>13
  <2>15. Unpopulated'
    BY <2>9, <2>10, <2>11, <2>12, <2>14 DEF Unpopulated
  <2>16. FlagsRight'
    <3>1. ASSUME NEW l \in LoopIds \ {Root}
          PROVE  loops_'[l].is_reducible <=> \A x \in ToSet(loops_'[l].back_edges) :
                                               Dominates(graph, loops_'[l].header, x)
      <4>1. PICK h, L : h = loops_[l].header /\ L = loops_[l].back_edges
        OBVIOUS
      <4>2. h \in Reachable(graph) /\ \A x \in ToSet(L) : x \in Reachable(graph)
        BY <4>1, HeadersReached
      <4>3. h # None /\ L # <<>>
        BY <2>5, <2>13, <4>1, <4>2, FlowGraphAssumption
      <4>4. \A x \in ToSet(L) : DominatesIn(doms, h, x) <=> Dominates(graph, h, x)
        BY <2>1, <2>5, <4>2, DomTreeDominates
      <4>5. loops_'[l].is_reducible <=> \A x \in ToSet(L) : DominatesIn(doms, h, x)
        BY <2>7, <4>1, <4>3
      <4> QED
        BY <2>7, <4>1, <4>4, <4>5
    <3> QED
      BY <1>1, <2>3, <3>1 DEF FlagsRight
  <2> QED
    BY <2>15, <2>16
<1> QED
  BY <1>2, <1>3

\* A pre-header changes nothing of that.
LEMMA PreHeaderFlags ==
  ASSUME WF(graph), WF(graph'), Start \in graph.blocks, LoopsKnown, Unpopulated, FlagsRight,
         todo \in Seq(LoopIds \ {Root}), AddPreHeader
  PROVE  Unpopulated' /\ FlagsRight'
<1>1. PICK l : l = Head(todo)
  OBVIOUS
<1>2. l \in LoopIds \ {Root}
  <2>1. todo # <<>>
    BY DEF AddPreHeader
  <2> QED
    BY <1>1, <2>1, HeadTailFacts
<1>3. UNCHANGED <<loop_, is_loop_header>>
  BY DEF AddPreHeader, blockLoops
<1>4. \A k \in LoopIds \ {Root} : loops_[k].header \in graph.blocks
  BY DEF LoopsKnown, HeadersOwn
<1>5. PICK pre : PreHeaderAdded(loops_[l], pre) /\ loops_' = [loops_ EXCEPT ![l].pre_header = pre]
  BY <1>1, <1>2, <1>4, AddPreHeaderDetours
<1>6. /\ Reachable(graph) \subseteq Reachable(graph')
      /\ \A d, b \in graph.blocks : Dominates(graph', d, b) <=> Dominates(graph, d, b)
  BY <1>2, <1>4, <1>5, PreHeaderReaches
<1>7. LoopIds' = LoopIds
  BY <1>5 DEF LoopIds
<1>8. \A k \in LoopIds : loops_[k] \in LoopRecords
  BY LoopIdsFacts
<1>9. ASSUME NEW k \in LoopIds
      PROVE  /\ loops_'[k].header = loops_[k].header /\ loops_'[k].back_edges = loops_[k].back_edges
             /\ loops_'[k].blocks = loops_[k].blocks /\ loops_'[k].outer_loop = loops_[k].outer_loop
             /\ loops_'[k].is_reducible = loops_[k].is_reducible
  <2>1. PICK L : L = loops_[k]
    OBVIOUS
  <2>2. loops_'[k] = L \/ loops_'[k] = [L EXCEPT !.pre_header = pre]
    BY <1>5, <2>1 DEF LoopIds
  <2>3. L \in LoopRecords
    BY <1>8, <2>1
  <2>4. /\ [L EXCEPT !.pre_header = pre].header = L.header
        /\ [L EXCEPT !.pre_header = pre].back_edges = L.back_edges
        /\ [L EXCEPT !.pre_header = pre].blocks = L.blocks
        /\ [L EXCEPT !.pre_header = pre].outer_loop = L.outer_loop
        /\ [L EXCEPT !.pre_header = pre].is_reducible = L.is_reducible
    BY <2>3 DEF LoopRecords
  <2> QED
    BY <2>1, <2>2, <2>4
<1>10. Headers' = Headers
  BY <1>7, <1>9 DEF Headers
<1>11. /\ HeadersOnly /\ is_loop_header = {loops_[k].header : k \in LoopIds \ {Root}}
       /\ Start \notin Headers /\ loops_[Root].is_reducible
       /\ \A k \in LoopIds : loops_[k].blocks = {} /\ loops_[k].outer_loop = None
       /\ \A k \in LoopIds \ {Root} :
            loops_[k].back_edges # <<>> /\ ToSet(loops_[k].back_edges) \subseteq Reachable(graph)
  BY DEF Unpopulated
<1>12. HeadersOnly'
  BY <1>3, <1>7, <1>9, <1>11 DEF HeadersOnly
<1>13. is_loop_header' = {loops_'[k].header : k \in LoopIds' \ {Root}}
  BY <1>3, <1>7, <1>9, <1>11
<1>14. Start \notin Headers' /\ loops_'[Root].is_reducible
  <2>1. Root \in LoopIds
    BY DEF LoopsKnown, HeadersOwn
  <2> QED
    BY <1>9, <1>10, <1>11, <2>1
<1>15. \A k \in LoopIds' : loops_'[k].blocks = {} /\ loops_'[k].outer_loop = None
  BY <1>7, <1>9, <1>11
<1>16. \A k \in LoopIds' \ {Root} :
         loops_'[k].back_edges # <<>> /\ ToSet(loops_'[k].back_edges) \subseteq Reachable(graph')
  <2> SUFFICES ASSUME NEW k \in LoopIds \ {Root}
               PROVE  loops_'[k].back_edges # <<>> /\ ToSet(loops_'[k].back_edges) \subseteq Reachable(graph')
    BY <1>7
  <2>1. loops_[k].back_edges # <<>> /\ ToSet(loops_[k].back_edges) \subseteq Reachable(graph)
    BY <1>11
  <2>2. loops_'[k].back_edges = loops_[k].back_edges
    BY <1>9
  <2> QED
    BY <1>6, <2>1, <2>2
<1>17. Unpopulated'
  BY <1>12, <1>13, <1>14, <1>15, <1>16 DEF Unpopulated
<1>18. FlagsRight'
  <2>1. ASSUME NEW k \in LoopIds \ {Root}
        PROVE  loops_'[k].is_reducible <=> \A x \in ToSet(loops_'[k].back_edges) :
                                             Dominates(graph', loops_'[k].header, x)
    <3>1. PICK h, L : h = loops_[k].header /\ L = loops_[k].back_edges
      OBVIOUS
    <3>2. loops_[k].is_reducible <=> \A x \in ToSet(L) : Dominates(graph, h, x)
      BY <3>1 DEF FlagsRight
    <3>3. h \in graph.blocks /\ \A x \in ToSet(L) : x \in graph.blocks
      <4>1. ToSet(L) \subseteq Reachable(graph)
        BY <1>11, <3>1
      <4> QED
        BY <1>4, <3>1, <4>1, ReachableBlocks
    <3>4. \A x \in ToSet(L) : Dominates(graph', h, x) <=> Dominates(graph, h, x)
      BY <1>6, <3>3
    <3> QED
      BY <1>9, <3>1, <3>2, <3>4
  <2> QED
    BY <1>7, <2>1 DEF FlagsRight
<1> QED
  BY <1>17, <1>18

\* The loops are ready to be populated once the pre-headers are there.
LEMMA ReadyAtLast ==
  ASSUME WF(graph), Start \in graph.blocks, LoopsKnown, Unpopulated, FlagsRight, EnteredBut(<<>>)
  PROVE  LoopsReady
<1>1. /\ LoopIds = 1 .. Len(loops_) /\ Len(loops_) \in Nat /\ \A l \in LoopIds : loops_[l] \in LoopRecords
  BY LoopIdsFacts
<1>2. loops_ \in Seq(LoopRecords) /\ Root \in LoopIds
  BY DEF LoopsKnown, LoopsTyped, HeadersOwn
<1>3. loops_[Root].is_reducible /\ \A l \in LoopIds : loops_[l].outer_loop \in LoopIds \cup {None}
  BY DEF Unpopulated
<1>4. \A l \in LoopIds \ {Root} : loops_[l].header \in Reachable(graph) \ {Start}
  BY HeadersReached
<1>5. \A l, m \in LoopIds \ {Root} : loops_[l].header = loops_[m].header => l = m
  <2>1. \A l \in LoopIds \ {Root} : loop_[loops_[l].header] = l
    BY DEF LoopsKnown, HeadersOwn
  <2> QED
    BY <2>1
<1>6. ASSUME NEW l \in Natural
      PROVE  \E e \in Reachable(graph) :
               loops_[l].back_edges = <<e>> /\ loops_[l].header \in SuccSet(graph, e)
  <2>1. l \in LoopIds \ {Root}
    BY <1>6 DEF Natural
  <2>2. Entered(l)
    <3>1. ToSet(<<>>) = {}
      BY DEF ToSet
    <3> QED
      BY <1>6, <3>1 DEF EnteredBut
  <2>3. PICK e : loops_[l].back_edges = <<e>>
    BY <2>2 DEF Entered
  <2>4. e \in ToSet(loops_[l].back_edges)
    BY <2>3, OneBackEdge
  <2>5. e \in Reachable(graph) /\ loops_[l].header \in SuccSet(graph, e)
    BY <2>1, <2>4, HeadersReached
  <2> QED
    BY <2>3, <2>5
<1>7. \A l \in LoopIds \ {Root} :
        loops_[l].is_reducible <=> \A x \in ToSet(loops_[l].back_edges) :
                                     Dominates(graph, loops_[l].header, x)
  BY DEF FlagsRight
<1> QED
  BY <1>2, <1>3, <1>4, <1>5, <1>6, <1>7, Zenon DEF LoopsReady

LEMMA PopulatingAtFirst ==
  ASSUME WF(graph), Start \in graph.blocks, LoopsKnown, Unpopulated, FlagsRight, EnteredBut(<<>>),
         PreHeadersDone
  PROVE  Populating'
<1>1. UNCHANGED <<graph, loops_, loop_, is_loop_header>> /\ todo' = Postorder(graph)
  BY DEF PreHeadersDone, blockLoops
<1>2. LoopsReady
  BY ReadyAtLast
<1>3. graph \in Graphs /\ Start \in Ids /\ Reachable(graph) \subseteq Ids
  BY ReachableBlocks, ReachableFacts
<1>4. LoopsReady' /\ Hd' = Hd /\ Natural' = Natural /\ NLs' = NLs /\ SingleBlockLoops' = SingleBlockLoops
  <2>1. KeepsLoops
    <3>1. loops_ \in Seq(LoopRecords) /\ \A l \in LoopIds : loops_[l].outer_loop \in LoopIds \cup {None}
      BY <1>2 DEF LoopsReady
    <3> QED
      BY <1>1, <3>1 DEF KeepsLoops, LoopIds
  <2> QED
    BY <1>2, <2>1, KeptReady
<1>5. Bl' = Bl /\ Ou' = Ou
  BY <1>1 DEF Bl, Ou, LoopIds
<1>6. PICK T : T = Reachable(graph)
  OBVIOUS
<1>7. ToCome(graph, todo') /\ ToSet(todo') = T
  BY <1>1, <1>3, <1>6, PostorderToCome
<1>8. /\ OwnHeaders(Hd, Natural) /\ SingleBlockLoops \subseteq Natural
      /\ DOMAIN Hd = LoopIds /\ Root \in LoopIds
      /\ \A l \in LoopIds \ {Root} : Hd[l] \in T \ {Start}
      /\ \A l \in LoopIds : /\ Hd[l] = loops_[l].header
                            /\ Bl[l] = loops_[l].blocks /\ Ou[l] = loops_[l].outer_loop
  BY <1>2, <1>3, <1>6, ReadyOwn
<1>9. /\ HeadersOnly /\ is_loop_header = {loops_[l].header : l \in LoopIds \ {Root}}
      /\ Start \notin Headers
      /\ \A l \in LoopIds : loops_[l].blocks = {} /\ loops_[l].outer_loop = None
  BY DEF Unpopulated
<1>10. \A l \in LoopIds \ {Root} : loop_[loops_[l].header] = l
  BY DEF LoopsKnown, HeadersOwn
<1>11. loop_ \in [Ids -> Nat \cup {None}]
  BY DEF LoopsKnown, LoopsTyped
<1>12. Marked(Natural, Hd, loop_, is_loop_header, T)
  <2>1. {l \in DOMAIN Hd \ {Root} : l \in Natural \/ Hd[l] \in T} = LoopIds \ {Root}
    BY <1>8
  <2>2. \A l \in LoopIds \ {Root} : loop_[Hd[l]] = l
    BY <1>8, <1>10
  <2>3. is_loop_header = {Hd[l] : l \in LoopIds \ {Root}}
    BY <1>8, <1>9
  <2> QED
    BY <2>1, <2>2, <2>3 DEF Marked
<1>13. StartIn(SingleBlockLoops, Hd, loop_, T)
  <2>1. loop_[Start] = None
    BY <1>3, <1>9 DEF HeadersOnly, Headers
  <2>2. \A l \in SingleBlockLoops : Hd[l] \in T
    BY <1>8 DEF SingleBlockLoops, Natural
  <2> QED
    BY <2>1, <2>2 DEF StartIn
<1>14. ASSUME SingleBlockLoops = {}
       PROVE  /\ FiledAs(Natural, Hd, Bl, Ou, loop_, T)
              /\ NestedAs(T, Natural, Hd, NLs, Ou, loop_, T)
  <2>1. Nests(T, Hd, Natural, NLs) /\ T \in SUBSET Ids
    BY <1>2, <1>3, <1>6, <1>14, ReadyNests
  <2>2. \A l \in DOMAIN Hd : Bl[l] = {} /\ Ou[l] = None
    BY <1>8, <1>9
  <2>3. \A b \in Ids : loop_[b] # None => loop_[b] \in DOMAIN Hd \ {Root} /\ b = Hd[loop_[b]]
    <3> SUFFICES ASSUME NEW b \in Ids, loop_[b] # None
                 PROVE  loop_[b] \in DOMAIN Hd \ {Root} /\ b = Hd[loop_[b]]
      OBVIOUS
    <3>1. loop_[b] \in LoopIds /\ loops_[loop_[b]].header = b
      BY <1>9 DEF HeadersOnly
    <3>2. loop_[b] # Root
      <4>1. loops_[Root].header = None /\ b # None
        BY FlowGraphAssumption DEF LoopsKnown, HeadersOwn
      <4> QED
        BY <3>1, <4>1
    <3> QED
      BY <1>8, <3>1, <3>2
  <2>4. PICK bl, ou, lp, hd, N, nl : bl = Bl /\ ou = Ou /\ lp = loop_ /\ hd = Hd /\ N = Natural /\ nl = NLs
    OBVIOUS
  <2>5. /\ Nests(T, hd, N, nl) /\ (\A l \in DOMAIN hd : bl[l] = {} /\ ou[l] = None)
        /\ \A b \in Ids : lp[b] # None => lp[b] \in DOMAIN hd \ {Root} /\ b = hd[lp[b]]
    BY <2>1, <2>2, <2>3, <2>4
  <2>6. FiledAs(N, hd, bl, ou, lp, T) /\ NestedAs(T, N, hd, nl, ou, lp, T)
    BY <2>1, <2>5, FiledAtFirst
  <2> QED
    BY <2>4, <2>6
<1>15. (Strays' = {}) <=> (Strays = {})
  BY <1>1 DEF Strays
<1>16. SingleBlockLoops' = {} => FiledAs(Natural', Hd', Bl', Ou', loop_', ToSet(todo'))
  BY <1>1, <1>4, <1>5, <1>7, <1>14
<1>17. SingleBlockLoops' = {} /\ Strays' = {}
       => NestedAs(Reachable(graph'), Natural', Hd', NLs', Ou', loop_', ToSet(todo'))
  BY <1>1, <1>4, <1>5, <1>6, <1>7, <1>14
<1>18. Marked(Natural', Hd', loop_', is_loop_header', ToSet(todo'))
  BY <1>1, <1>4, <1>7, <1>12
<1>19. StartIn(SingleBlockLoops', Hd', loop_', ToSet(todo'))
  BY <1>1, <1>4, <1>7, <1>13
<1>20. ToCome(graph', todo') /\ loop_' \in [Ids -> Nat \cup {None}]
  BY <1>1, <1>7, <1>11
<1> QED
  BY <1>4, <1>16, <1>17, <1>18, <1>19, <1>20 DEF Populating

-----------------------------------------------------------------------------
\* The invariant: what is known of the loops in each phase.
NestIInv ==
  /\ phase = "CollectBackEdges" => CollectFlags
  /\ phase = "SplitBackEdges" => Unpopulated /\ (dom_valid => FlagsRight)
  /\ phase = "AddPreHeaders" => Unpopulated /\ FlagsRight
  /\ phase = "PopulateLoops" => Populating
  /\ phase = "Check" => Ordered
  /\ phase = "done" => Ordered /\ (SingleBlockLoops = {} => Strays = {})
  /\ phase = "aborted" => SingleBlockLoops # {} \/ Strays # {}

\* What is known in the end is about the graph and the loops only.
LEMMA SameOrdered ==
  ASSUME UNCHANGED <<graph, loops_, blockLoops>>
  PROVE  /\ SingleBlockLoops' = SingleBlockLoops /\ Strays' = Strays
         /\ Ordered => Ordered'
         /\ Populating /\ todo' = todo => Populating'
<1>1. LoopIds' = LoopIds /\ UNCHANGED <<graph, loops_, loop_, is_loop_header>>
  BY DEF LoopIds, blockLoops
<1>2. Natural' = Natural
  BY <1>1 DEF Natural
<1>3. SingleBlockLoops' = SingleBlockLoops /\ Strays' = Strays
  BY <1>1, <1>2 DEF SingleBlockLoops, Strays
<1>4. Bl' = Bl /\ Ou' = Ou /\ Hd' = Hd
  BY <1>1 DEF Bl, Ou, Hd
<1>5. NLs' = NLs
  BY <1>1, <1>2 DEF NLs, NaturalLoop
<1>6. LoopsReady => LoopsReady'
  BY <1>1, <1>2 DEF LoopsReady
<1>7. Ordered => Ordered'
  BY <1>1, <1>2, <1>3, <1>4, <1>5, <1>6 DEF Ordered
<1>8. Populating /\ todo' = todo => Populating'
  BY <1>1, <1>2, <1>3, <1>4, <1>5, <1>6 DEF Populating
<1> QED
  BY <1>3, <1>7, <1>8

LEMMA SameNests == ASSUME NestIInv, UNCHANGED vars PROVE NestIInv'
<1>1. /\ UNCHANGED <<graph, phase, loops_, blockLoops, todo, dominators, dom_valid, black>>
  BY DEF vars, collecting, domTree
<1>2. /\ SingleBlockLoops' = SingleBlockLoops /\ Strays' = Strays
      /\ Ordered => Ordered'
      /\ Populating => Populating'
  BY <1>1, SameOrdered
<1>3. (Unpopulated => Unpopulated') /\ (FlagsRight => FlagsRight')
  BY <1>1, SameFlags
<1>4. CollectFlags => CollectFlags'
  BY <1>1, <1>3 DEF CollectFlags
<1> QED
  BY <1>1, <1>2, <1>3, <1>4 DEF NestIInv

\* Every step of the analysis keeps the invariant.
LEMMA NestStep ==
  ASSUME WF(graph), Start \in graph.blocks, WF(graph'), LoopsIInv, NestIInv, Next,
         phase # "layout"
  PROVE  NestIInv'
<1>1. /\ phase \in {"CollectBackEdges", "SplitBackEdges", "AddPreHeaders"} => LoopsKnown
      /\ phase = "CollectBackEdges" => Collecting
      /\ phase = "SplitBackEdges" => todo \in Seq(LoopIds)
      /\ phase = "AddPreHeaders" => todo \in Seq(LoopIds \ {Root}) /\ EnteredBut(todo)
  BY DEF LoopsIInv
<1>2. /\ phase = "CollectBackEdges" => CollectFlags
      /\ phase = "SplitBackEdges" => Unpopulated /\ (dom_valid => FlagsRight)
      /\ phase = "AddPreHeaders" => Unpopulated /\ FlagsRight
      /\ phase = "PopulateLoops" => Populating
      /\ phase = "Check" => Ordered
  BY DEF NestIInv
<1>3. CASE BackEdge \/ SkipBlack \/ Visit \/ Leave
  <2>1. phase = "CollectBackEdges" /\ phase' \in {"CollectBackEdges", "SplitBackEdges"}
    BY <1>3 DEF BackEdge, SkipBlack, Visit, Leave, AtSuccessor
  <2>2. HeadersOnly'
    <3>1. CASE BackEdge
      BY <1>1, <2>1, <3>1, BackEdgeStep DEF Collecting
    <3>2. CASE SkipBlack \/ Visit \/ Leave
      <4>1. UNCHANGED <<graph, loops_, loop_, given>>
        BY <3>2 DEF SkipBlack, Visit, Leave, blockLoops
      <4>2. HeadersOnly
        BY <1>1, <2>1 DEF Collecting
      <4> QED
        BY <4>1, <4>2, SameLoops
    <3> QED
      BY <1>3, <3>1, <3>2
  <2>3. Calls /\ Awaited
    BY <1>1, <2>1 DEF Collecting
  <2>4. CollectFlags'
    BY <1>1, <1>2, <1>3, <2>1, <2>2, <2>3, CollectFlagsStep
  <2>5. Unpopulated' /\ FlagsRight'
    BY <2>4 DEF CollectFlags
  <2> QED
    BY <2>1, <2>4, <2>5 DEF NestIInv
<1>4. CASE SplitBackEdge
  <2>1. phase = "SplitBackEdges" /\ phase' = phase
    BY <1>4 DEF SplitBackEdge
  <2>2. Unpopulated' /\ ~dom_valid'
    BY <1>1, <1>2, <1>4, <2>1, SplitFlagsStep
  <2> QED
    BY <2>1, <2>2 DEF NestIInv
<1>5. CASE KeepBackEdges \/ NoPreHeader
  <2>1. /\ phase \in {"SplitBackEdges", "AddPreHeaders"} /\ phase' = phase
        /\ UNCHANGED <<graph, loops_, blockLoops, dom_valid>>
    BY <1>5 DEF KeepBackEdges, NoPreHeader, domTree
  <2>2. (Unpopulated => Unpopulated') /\ (FlagsRight => FlagsRight')
    BY <2>1, SameFlags
  <2> QED
    BY <1>2, <2>1, <2>2 DEF NestIInv
<1>6. CASE ReadMoved
  BY <1>6 DEF ReadMoved, NestIInv
<1>7. CASE RecalculateLoopsReducibility
  <2>1. phase = "SplitBackEdges" /\ phase' = "AddPreHeaders"
    BY <1>7 DEF RecalculateLoopsReducibility
  <2>2. Unpopulated' /\ FlagsRight'
    BY <1>1, <1>2, <1>7, <2>1, RecalculatedFlags
  <2> QED
    BY <2>1, <2>2 DEF NestIInv
<1>8. CASE AddPreHeader
  <2>1. phase = "AddPreHeaders" /\ phase' = phase
    BY <1>8 DEF AddPreHeader
  <2>2. Unpopulated' /\ FlagsRight'
    BY <1>1, <1>2, <1>8, <2>1, PreHeaderFlags
  <2> QED
    BY <2>1, <2>2 DEF NestIInv
<1>9. CASE PreHeadersDone
  <2>1. phase = "AddPreHeaders" /\ phase' = "PopulateLoops" /\ todo = <<>>
    BY <1>9 DEF PreHeadersDone
  <2>2. Populating'
    BY <1>1, <1>2, <1>9, <2>1, PopulatingAtFirst
  <2> QED
    BY <2>1, <2>2 DEF NestIInv
<1>10. CASE PopulateLoop \/ DropIrreducible \/ PassNoHeader
  <2>1. phase = "PopulateLoops" /\ phase' = phase
    BY <1>10 DEF PopulateLoop, DropIrreducible, PassNoHeader
  <2>2. Populating'
    <3>1. CASE PopulateLoop
      BY <1>2, <2>1, <3>1, PopulateLoopStep
    <3>2. CASE DropIrreducible \/ PassNoHeader
      BY <1>2, <2>1, <3>2, PassBlockStep
    <3> QED
      BY <1>10, <3>1, <3>2
  <2> QED
    BY <2>1, <2>2 DEF NestIInv
<1>11. CASE BuildLoopTree
  <2>1. phase = "PopulateLoops" /\ phase' = "Check"
    BY <1>11 DEF BuildLoopTree
  <2>2. Ordered'
    BY <1>2, <1>11, <2>1, BuildStep
  <2> QED
    BY <2>1, <2>2 DEF NestIInv
<1>12. CASE Check
  <2>1. /\ phase = "Check" /\ phase' = IF ChecksHold THEN "done" ELSE "aborted"
        /\ UNCHANGED <<graph, loops_, blockLoops>>
    BY <1>12 DEF Check
  <2>2. Ordered /\ SingleBlockLoops' = SingleBlockLoops /\ Strays' = Strays /\ Ordered'
    BY <1>2, <2>1, SameOrdered
  <2>3. SingleBlockLoops = {} => (ChecksHold <=> Strays = {})
    BY <2>2, ChecksCount
  <2> QED
    BY <2>1, <2>2, <2>3 DEF NestIInv
<1>13. CASE Terminated
  BY <1>13, SameNests DEF Terminated
<1> QED
  BY <1>3, <1>4, <1>5, <1>6, <1>7, <1>8, <1>9, <1>10, <1>11, <1>12, <1>13 DEF Next

\* When the analysis starts, there is only the root.
LEMMA NestsInit ==
  ASSUME Init, WF(graph), Start \in graph.blocks, HasNoPredecessors(graph, Start)
  PROVE  NestIInv
<1>1. /\ phase = "CollectBackEdges" /\ black = {Start}
      /\ loops_ = <<NullLoop>> /\ loop_ = [b \in Ids |-> None] /\ is_loop_header = {}
      /\ dominators = DomTree(graph) /\ dom_valid
  BY DEF Init
<1>2. black \subseteq Reachable(graph)
  BY <1>1, ReachableBlocks, ReachableFacts
<1>3. LoopIds = {Root} /\ loops_[Root] = NullLoop
  <2>1. 1 .. 1 = {1}
    OBVIOUS
  <2>2. LoopIds = 1 .. 1 /\ loops_[1] = NullLoop
    BY <1>1 DEF LoopIds
  <2> QED
    BY <2>1, <2>2 DEF Root
<1>4. NullLoop.header = None /\ NullLoop.is_reducible /\ NullLoop.blocks = {} /\ NullLoop.outer_loop = None
  BY DEF NullLoop
<1>5. Headers = {None} /\ Start # None
  <2>1. graph \in Graphs /\ Start \in Ids
    BY ReachableBlocks DEF WF, Shape, Graphs
  <2> QED
    BY <1>3, <1>4, <2>1, FlowGraphAssumption DEF Headers
<1>6. Unpopulated /\ FlagsRight
  <2>1. HeadersOnly
    BY <1>1 DEF HeadersOnly
  <2>2. is_loop_header = {loops_[l].header : l \in LoopIds \ {Root}}
    BY <1>1, <1>3
  <2> QED
    BY <1>3, <1>4, <1>5, <2>1, <2>2 DEF Unpopulated, FlagsRight
<1>7. CollectFlags
  BY <1>1, <1>2, <1>6 DEF CollectFlags
<1> QED
  BY <1>1, <1>7 DEF NestIInv

\* What is done with the graph after the analysis keeps the invariant too.
LEMMA NestLayoutStep ==
  ASSUME LayoutIInv, LoopsIInv, NestIInv, [LayoutNext]_allVars
  PROVE  NestIInv'
<1>1. CASE AnalyseLoops
  <2>1. Next
    BY <1>1 DEF AnalyseLoops
  <2>2. phase # "layout"
    BY <2>1 DEF Next, BackEdge, SkipBlack, Visit, AtSuccessor, Leave, SplitBackEdge, KeepBackEdges,
          ReadMoved, RecalculateLoopsReducibility, AddPreHeader, NoPreHeader, PreHeadersDone,
          PopulateLoop, DropIrreducible, PassNoHeader, BuildLoopTree, Check, Terminated
  <2>3. WF(graph) /\ Start \in graph.blocks
    BY <2>2 DEF LayoutIInv, Analysing
  <2>4. WF(graph')
    BY <2>1, <2>2, <2>3, AnalysisKeepsWF
  <2> QED
    BY <2>1, <2>2, <2>3, <2>4, NestStep
<1>2. CASE BeginLinearizeBlocks \/ EndLinearizeBlocks \/ BeginLayout
  <2>1. phase' \in {"LinearizeBlocks", "pastEnd", "linearized", "unordered", "layout"}
    BY <1>2 DEF BeginLinearizeBlocks, EndLinearizeBlocks, BeginLayout, Enter
  <2> QED
    BY <2>1 DEF NestIInv
<1>3. CASE PlaceBlock
  <2>1. phase' = "endless" \/ UNCHANGED vars
    BY <1>3 DEF PlaceBlock, Enter
  <2>2. CASE phase' = "endless"
    BY <2>2 DEF NestIInv
  <2> QED
    BY <2>1, <2>2, SameNests
<1>4. CASE LayOut
  <2>1. phase = "layout" /\ phase' = phase
    BY <1>4 DEF LayOut
  <2> QED
    BY <2>1 DEF NestIInv
<1>5. CASE Ended \/ UNCHANGED allVars
  <2>1. UNCHANGED vars
    BY <1>5 DEF Ended, allVars
  <2> QED
    BY <2>1, SameNests
<1> QED
  BY <1>1, <1>2, <1>3, <1>4, <1>5 DEF LayoutNext

THEOREM NestsKeepIInv == LayoutSpec => []NestIInv
<1>1. LayoutInit => NestIInv
  <2> SUFFICES ASSUME LayoutInit PROVE NestIInv
    OBVIOUS
  <2>1. Init /\ graph \in Inputs
    BY DEF LayoutInit, Init
  <2>2. WF(graph) /\ Start \in graph.blocks /\ HasNoPredecessors(graph, Start)
    BY <2>1, InputsAssumption DEF WF, Shape
  <2> QED
    BY <2>1, <2>2, NestsInit
<1>2. LayoutIInv /\ LoopsIInv /\ NestIInv /\ [LayoutNext]_allVars => NestIInv'
  BY NestLayoutStep
<1> QED
  BY <1>1, <1>2, LayoutKeepsIInv, LoopsKeepIInv, PTL DEF LayoutSpec

LEMMA NestsFollow == LayoutIInv /\ NestIInv => LoopsNestAsInGraph
<1> SUFFICES ASSUME LayoutIInv, NestIInv PROVE LoopsNestAsInGraph
  OBVIOUS
<1>1. phase = "aborted" => SingleBlockLoops # {} \/ Strays # {}
  BY DEF NestIInv
<1>2. ASSUME phase = "done" PROVE NestsAsInGraph <=> SingleBlockLoops = {}
  <2>1. WF(graph) /\ Start \in graph.blocks
    BY <1>2 DEF LayoutIInv, Analysing
  <2>2. Ordered /\ (SingleBlockLoops = {} => Strays = {})
    BY <1>2 DEF NestIInv
  <2>3. CASE SingleBlockLoops = {}
    BY <2>1, <2>2, <2>3, TreeFound
  <2>4. CASE SingleBlockLoops # {}
    BY <2>1, <2>2, <2>4, TreeMissed
  <2> QED
    BY <2>3, <2>4
<1> QED
  BY <1>1, <1>2 DEF LoopsNestAsInGraph

\* Whatever the graph, the loops end up nested as the natural loops of the graph are,
\* unless one of them is a single block, and then they do not; and the ASSERTs of Check
\* fail only where a loop is a single block, or where a block that cannot be reached
\* leads into a loop.
THEOREM LoopsNestAlways == LayoutSpec => []LoopsNestAsInGraph
  BY LayoutKeepsIInv, NestsKeepIInv, NestsFollow, PTL
=============================================================================
