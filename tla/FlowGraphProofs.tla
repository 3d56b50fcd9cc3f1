-------------------------- MODULE FlowGraphProofs --------------------------
(***************************************************************************)
(* Every editing operation of FlowGraph keeps a graph well formed, for any *)
(* number of blocks.                                                       *)
(*                                                                         *)
(* What ReachedFrom and ReachAvoiding compute: they add the successors of  *)
(* what they have as often as there are ids, and that is often enough. The *)
(* result is the least set that holds the blocks it starts from and is     *)
(* closed under taking successors.  And what Preorder computes: its walk   *)
(* ends with just the blocks that can be reached, each listed once, and,   *)
(* but for the first, behind one that leads to it.  The walk of Postorder  *)
(* lists them too, but a block behind all those it dominates.              *)
(*                                                                         *)
(* What dominance is an order of, how natural loops nest, and what a block *)
(* put on an edge leaves of reachability, of paths and of cut cycles.      *)
(***************************************************************************)
EXTENDS CfgShapes, WellFoundedInduction, FiniteSetTheorems, SequenceTheorems, TLAPS

Shape(g) == g \in Graphs /\ Symmetric(g) /\ NoDangling(g) /\ NoParallel(g)

WF(g) == Shape(g) /\ NoHiddenSlots(g)

\* A block that nothing is connected to.
Isolated(g, b) == g.preds[b] = {} /\ g.succs[b] = NoSuccs

\* From a block of B, h leads to where g leads, sometimes by way of n.
Detours(g, h, n, B) ==
  \A b \in B : SuccSet(g, b) = (SuccSet(h, b) \ {n})
                              \cup (IF n \in SuccSet(h, b) THEN SuccSet(h, n) ELSE {})

LEMMA SlotFacts == Slots = {0, 1} /\ 0 \in Slots /\ 1 \in Slots
  BY DEF Slots, FALLTHROUGH, BRANCH_TRUE

LEMMA NumSuccessorsFacts ==
  ASSUME NEW g \in Graphs, NEW b \in Ids
  PROVE  /\ GetNumSuccessors(g, b) \in 0 .. 2
         /\ g.term[b] \in Terms
  BY DEF Graphs, GetNumSuccessors, Terms

\* A block is a successor if one of the two slots holds it.
LEMMA SuccSetFacts ==
  ASSUME NEW g, NEW b, NEW c \in Ids
  PROVE  c \in SuccSet(g, b) <=> (g.succs[b][0] = c \/ g.succs[b][1] = c)
  BY SlotFacts, FlowGraphAssumption DEF SuccSet

\* The slots of a block whose slot with b_old is overwritten with b_new.
LEMMA ReplacedFacts ==
  ASSUME NEW g, Shape(g), NEW b \in g.blocks, NEW b_old \in Ids,
         NEW b_new \in Ids \cup {None}, HasSuccessor(g, b, b_old)
  PROVE  /\ ReplacedSuccs(g, b, b_old, b_new) \in [Slots -> Ids \cup {None}]
         /\ \E s, t \in Slots :
              /\ s # t
              /\ s < GetNumSuccessors(g, b)
              /\ g.succs[b][s] = b_old
              /\ g.succs[b][t] # b_old
              /\ ReplacedSuccs(g, b, b_old, b_new)[s] = b_new
              /\ ReplacedSuccs(g, b, b_old, b_new)[t] = g.succs[b][t]
<1>1. b \in Ids /\ g.succs[b] \in [Slots -> Ids \cup {None}]
  BY DEF WF, Shape, Graphs
<1>2. ReplacedSuccs(g, b, b_old, b_new) \in [Slots -> Ids \cup {None}]
  BY <1>1 DEF ReplacedSuccs
<1>3. PICK s \in Slots : IsSlotOf(g, b, b_old, s)
  BY DEF HasSuccessor
<1>4. PICK t \in Slots : s # t
  BY SlotFacts
<1>5. g.succs[b][s] = b_old /\ s < GetNumSuccessors(g, b)
  BY <1>3 DEF IsSlotOf
<1>6. g.succs[b][t] # b_old
  BY <1>4, <1>5, SlotFacts, FlowGraphAssumption
  DEF WF, Shape, NoParallel, FALLTHROUGH, BRANCH_TRUE
<1>7. ~IsSlotOf(g, b, b_old, t)
  BY <1>6 DEF IsSlotOf
<1> QED
  BY <1>1, <1>2, <1>3, <1>4, <1>5, <1>6, <1>7 DEF ReplacedSuccs

LEMMA EmptyGraphWF == ASSUME NEW t \in Terms PROVE WF([EmptyGraph EXCEPT !.term[Start] = t])
<1> DEFINE h == [EmptyGraph EXCEPT !.term[Start] = t]
<1>1. /\ h.blocks = {Start}
      /\ h.succs = [b \in Ids |-> NoSuccs]
      /\ h.preds = [b \in Ids |-> {}]
      /\ h.term = [[b \in Ids |-> "none"] EXCEPT ![Start] = t]
  BY DEF EmptyGraph
<1>2. h \in Graphs
  BY FlowGraphAssumption DEF EmptyGraph, Graphs, NoSuccs, Terms
<1>3. \A b \in Ids, s \in Slots : h.succs[b][s] = None
  BY <1>1 DEF NoSuccs
<1>4. \A b \in Ids : SuccSet(h, b) = {} /\ h.preds[b] = {}
  BY <1>1, <1>3 DEF SuccSet
<1> HIDE DEF h
<1>5. Symmetric(h) /\ NoDangling(h) /\ NoHiddenSlots(h) /\ NoParallel(h)
  BY <1>1, <1>3, <1>4, FlowGraphAssumption, SlotFacts
  DEF Symmetric, NoDangling, NoHiddenSlots, NoParallel, FALLTHROUGH, BRANCH_TRUE
<1> QED
  BY <1>2, <1>5 DEF WF, Shape, h

LEMMA NewBlockShape ==
  ASSUME NEW g, Shape(g), NEW b \in Ids, CanNewBlock(g, b), NEW t \in Terms
  PROVE  LET h == NewBlock(g, b, t)
         IN  /\ Shape(h) /\ Isolated(h, b)
             /\ h.blocks = g.blocks \cup {b}
             /\ h.succs = [g.succs EXCEPT ![b] = NoSuccs]
             /\ h.term = [g.term EXCEPT ![b] = t]
<1> DEFINE h == NewBlock(g, b, t)
<1>1. /\ h.blocks = g.blocks \cup {b}
      /\ h.succs = [g.succs EXCEPT ![b] = NoSuccs]
      /\ h.preds = [g.preds EXCEPT ![b] = {}]
      /\ h.term = [g.term EXCEPT ![b] = t]
  BY DEF NewBlock, Shape, Graphs
<1>2. h \in Graphs
  BY DEF NewBlock, Shape, Graphs, NoSuccs
<1> HIDE DEF h
<1>3. \A c \in g.blocks : /\ c # b /\ c \in Ids
                          /\ h.succs[c] = g.succs[c] /\ h.preds[c] = g.preds[c]
  BY <1>1 DEF CanNewBlock, Shape, Graphs
<1>4. h.succs[b] = NoSuccs /\ h.preds[b] = {}
  BY <1>1 DEF Shape, Graphs
<1>5. SuccSet(h, b) = {} /\ \A c \in g.blocks : SuccSet(h, c) = SuccSet(g, c)
  BY <1>3, <1>4 DEF SuccSet, NoSuccs
<1>6. NoDangling(h)
  BY <1>1, <1>3, <1>4, <1>5 DEF Shape, NoDangling
<1>7. Symmetric(h)
  BY <1>1, <1>3, <1>4, <1>5 DEF Shape, Symmetric, NoDangling, CanNewBlock
<1>8. NoParallel(h)
  BY <1>1, <1>3, <1>4, SlotFacts DEF Shape, NoParallel, NoSuccs, FALLTHROUGH, BRANCH_TRUE
<1> QED
  BY <1>1, <1>2, <1>4, <1>6, <1>7, <1>8 DEF Shape, Isolated, h

LEMMA NewBlockWF ==
  ASSUME NEW g, WF(g), NEW b \in Ids, CanNewBlock(g, b), NEW t \in Terms
  PROVE  WF(NewBlock(g, b, t))
<1> DEFINE h == NewBlock(g, b, t)
<1>1. /\ Shape(h) /\ Isolated(h, b)
      /\ h.blocks = g.blocks \cup {b}
      /\ h.succs = [g.succs EXCEPT ![b] = NoSuccs]
      /\ h.term = [g.term EXCEPT ![b] = t]
  BY NewBlockShape DEF WF
<1> HIDE DEF h
<1>2. \A c \in g.blocks : c # b /\ h.succs[c] = g.succs[c] /\ h.term[c] = g.term[c]
  BY <1>1 DEF CanNewBlock, WF, Shape, Graphs
<1>3. NoHiddenSlots(h)
  BY <1>1, <1>2 DEF WF, NoHiddenSlots, GetNumSuccessors, Isolated, NoSuccs
<1> QED
  BY <1>1, <1>3 DEF WF, h

LEMMA AddEdgeWF ==
  ASSUME NEW g, WF(g), NEW from \in Ids, NEW to \in Ids, NEW s \in Slots,
         CanAddEdge(g, from, to, s), g.succs[from][s] = None
  PROVE  WF(AddEdgeTo(g, from, to, s))
<1> DEFINE h == AddEdgeTo(g, from, to, s)
<1>1. /\ h.blocks = g.blocks /\ h.term = g.term
      /\ h.succs = [g.succs EXCEPT ![from][s] = to]
      /\ h.preds = [g.preds EXCEPT ![to] = @ \cup {from}]
  BY DEF AddEdgeTo, WF, Shape, Graphs
<1>2. h \in Graphs
  BY DEF AddEdgeTo, WF, Shape, Graphs
<1> HIDE DEF h
<1>3. from \in g.blocks /\ to \in g.blocks /\ from \notin g.preds[to] /\ g.blocks \subseteq Ids
  BY DEF CanAddEdge, WF, Shape, Graphs
<1>4. \A c \in Ids, t \in Slots :
        h.succs[c][t] = IF c = from /\ t = s THEN to ELSE g.succs[c][t]
  BY <1>1 DEF WF, Shape, Graphs
<1>5. \A c \in Ids : h.preds[c] = IF c = to THEN g.preds[c] \cup {from} ELSE g.preds[c]
  BY <1>1 DEF WF, Shape, Graphs
<1>6. \A c, d \in Ids : d \in SuccSet(h, c) <=> d \in SuccSet(g, c) \/ (c = from /\ d = to)
  BY <1>4, SuccSetFacts, SlotFacts, FlowGraphAssumption
<1>7. \A c \in Ids : GetNumSuccessors(h, c) = GetNumSuccessors(g, c)
  BY <1>1 DEF GetNumSuccessors
<1>8. Symmetric(h)
  BY <1>1, <1>3, <1>5, <1>6 DEF WF, Shape, Symmetric
<1>9. NoDangling(h)
  <2>1. \A c \in g.blocks : SuccSet(h, c) \subseteq g.blocks
    BY <1>1, <1>2, <1>3, <1>6 DEF WF, Shape, NoDangling, SuccSet, Graphs
  <2> QED
    BY <1>1, <1>3, <1>5, <2>1 DEF WF, Shape, NoDangling
<1>10. NoHiddenSlots(h)
  BY <1>1, <1>3, <1>4, <1>7, SlotFacts, NumSuccessorsFacts DEF WF, Shape, NoHiddenSlots, CanAddEdge
<1>11. NoParallel(h)
  <2>1. to \notin SuccSet(g, from)
    BY <1>3 DEF WF, Shape, Symmetric
  <2> QED
    BY <1>1, <1>3, <1>4, <2>1, SuccSetFacts, SlotFacts, FlowGraphAssumption
    DEF WF, Shape, NoParallel, FALLTHROUGH, BRANCH_TRUE
<1> QED
  BY <1>2, <1>8, <1>9, <1>10, <1>11 DEF WF, Shape, h

LEMMA InsertBlockWF ==
  ASSUME NEW g, WF(g), NEW b \in Ids, NEW from \in Ids, NEW to \in Ids,
         CanInsertBlock(g, b, from, to), Isolated(g, b)
  PROVE  /\ WF(InsertBlock(g, b, from, to))
         /\ Detours(g, InsertBlock(g, b, from, to), b, g.blocks \ {b})
<1> DEFINE h == InsertBlock(g, b, from, to)
<1> DEFINE r == ReplacedSuccs(g, from, to, b)
<1> DEFINE S == [c \in Ids |-> CASE c = from -> r
                                 [] c = b    -> [g.succs[b] EXCEPT ![FALLTHROUGH] = to]
                                 [] OTHER    -> g.succs[c]]
<1> DEFINE P == [c \in Ids |-> CASE c = b  -> g.preds[b] \cup {from}
                                 [] c = to -> (g.preds[to] \ {from}) \cup {b}
                                 [] OTHER  -> g.preds[c]]
<1>0. {b, from, to} \subseteq g.blocks /\ g.blocks \subseteq Ids /\ from \in g.preds[to]
  BY DEF CanInsertBlock, WF, Shape, Graphs
<1>1. b # from /\ b # to
  BY <1>0, SlotFacts, FlowGraphAssumption DEF CanInsertBlock, Isolated, HasSuccessor, IsSlotOf, NoSuccs
<1>2. r \in [Slots -> Ids \cup {None}]
  BY <1>0, ReplacedFacts DEF CanInsertBlock, WF
<1>3. PICK s, t \in Slots :
         /\ s # t /\ s < GetNumSuccessors(g, from)
         /\ g.succs[from][s] = to /\ g.succs[from][t] # to
         /\ r[s] = b /\ r[t] = g.succs[from][t]
  BY <1>0, ReplacedFacts DEF CanInsertBlock, WF
<1>4. h = [g EXCEPT !.succs = S, !.preds = P]
  BY DEF InsertBlock
<1> HIDE DEF h, r
<1>t. /\ r \in [Slots -> Ids \cup {None}]
      /\ [g.succs[b] EXCEPT ![FALLTHROUGH] = to] \in [Slots -> Ids \cup {None}]
      /\ \A c \in Ids : g.succs[c] \in [Slots -> Ids \cup {None}] /\ g.preds[c] \in SUBSET Ids
  BY <1>0, <1>2 DEF WF, Shape, Graphs
<1>s. S \in [Ids -> [Slots -> Ids \cup {None}]]
  BY <1>t
<1>p. P \in [Ids -> SUBSET Ids]
  BY <1>0, <1>t
<1>5. /\ h \in Graphs
      /\ h.blocks = g.blocks /\ h.term = g.term /\ h.succs = S /\ h.preds = P
  <2>1. g \in Graphs
    BY DEF WF, Shape
  <2> HIDE DEF S, P
  <2> QED
    BY <1>4, <1>s, <1>p, <2>1 DEF Graphs
<1>6. /\ h.succs[from] = r
      /\ h.succs[b][0] = to /\ h.succs[b][1] = None
      /\ \A c \in Ids \ {from, b} : h.succs[c] = g.succs[c]
  BY <1>0, <1>1, <1>5, SlotFacts DEF WF, Shape, Graphs, Isolated, NoSuccs, FALLTHROUGH
<1>7. /\ h.preds[b] = {from}
      /\ h.preds[to] = (g.preds[to] \ {from}) \cup {b}
      /\ \A c \in Ids \ {to, b} : h.preds[c] = g.preds[c]
  BY <1>0, <1>1, <1>5 DEF WF, Shape, Graphs, Isolated
<1>8. \A c \in g.blocks : b \notin SuccSet(g, c) /\ c \notin SuccSet(g, b)
  BY <1>0, SuccSetFacts, SlotFacts, FlowGraphAssumption DEF WF, Shape, Symmetric, Isolated, NoSuccs
<1>9. \A d \in g.blocks :
        /\ d \in SuccSet(h, b) <=> d = to
        /\ d \in SuccSet(h, from) <=> d = b \/ (d \in SuccSet(g, from) /\ d # to)
        /\ \A c \in g.blocks \ {from, b} : d \in SuccSet(h, c) <=> d \in SuccSet(g, c)
  BY <1>0, <1>1, <1>3, <1>6, SuccSetFacts, SlotFacts, FlowGraphAssumption
<1>10. Symmetric(h)
  <2> SUFFICES ASSUME NEW c \in g.blocks, NEW d \in g.blocks
               PROVE  c \in h.preds[d] <=> d \in SuccSet(h, c)
    BY <1>5 DEF Symmetric
  <2>0. c \in g.preds[d] <=> d \in SuccSet(g, c)
    BY DEF WF, Shape, Symmetric
  <2>1. CASE d = b
    BY <1>0, <1>1, <1>7, <1>8, <1>9, <2>1
  <2>2. CASE d # b /\ c = b
    BY <1>0, <1>1, <1>7, <1>8, <1>9, <2>0, <2>2
  <2>3. CASE d # b /\ c # b
    BY <1>0, <1>1, <1>7, <1>8, <1>9, <2>0, <2>3
  <2> QED
    BY <2>1, <2>2, <2>3
<1>11. NoDangling(h)
  <2>1. SuccSet(h, b) \subseteq g.blocks /\ SuccSet(h, from) \subseteq g.blocks
    BY <1>0, <1>3, <1>6, SlotFacts DEF SuccSet, WF, Shape, NoDangling
  <2>2. \A c \in g.blocks \ {from, b} : SuccSet(h, c) = SuccSet(g, c)
    BY <1>0, <1>6 DEF SuccSet
  <2> QED
    BY <1>0, <1>5, <1>7, <2>1, <2>2 DEF WF, Shape, NoDangling
<1>12. NoHiddenSlots(h)
  BY <1>0, <1>1, <1>3, <1>5, <1>6, SlotFacts
  DEF WF, Shape, NoHiddenSlots, GetNumSuccessors, CanInsertBlock
<1>13. NoParallel(h)
  <2>1. r[0] = r[1] => r[0] = None
    BY <1>0, <1>3, <1>8, SuccSetFacts, SlotFacts
  <2> QED
    BY <1>0, <1>1, <1>5, <1>6, <2>1, FlowGraphAssumption DEF WF, Shape, NoParallel, FALLTHROUGH, BRANCH_TRUE
<1>14. Detours(g, h, b, g.blocks \ {b})
  <2> SUFFICES ASSUME NEW c \in g.blocks \ {b}
               PROVE  SuccSet(g, c) = (SuccSet(h, c) \ {b})
                                      \cup (IF b \in SuccSet(h, c) THEN SuccSet(h, b) ELSE {})
    BY DEF Detours
  <2>1. SuccSet(g, c) \subseteq g.blocks /\ SuccSet(h, c) \subseteq g.blocks /\ SuccSet(h, b) \subseteq g.blocks
    BY <1>0, <1>5, <1>11 DEF WF, Shape, NoDangling
  <2>2. SuccSet(h, b) = {to}
    BY <1>0, <1>9, <2>1
  <2>3. to \in SuccSet(g, from)
    BY <1>0, <1>3, SlotFacts, SuccSetFacts
  <2>4. CASE c = from
    BY <1>0, <1>1, <1>8, <1>9, <2>1, <2>2, <2>3, <2>4
  <2>5. CASE c # from
    BY <1>0, <1>8, <1>9, <2>1, <2>5
  <2> QED
    BY <2>4, <2>5
<1> QED
  BY <1>5, <1>10, <1>11, <1>12, <1>13, <1>14 DEF WF, Shape, h

\* InsertBasicBlockBefore does not depend on what hides the other slots: it is
\* also used on a graph of which one block has lost its branch for a moment.
LEMMA InsertBeforeShape ==
  ASSUME NEW g, Shape(g), NEW b \in Ids, NEW before \in Ids,
         CanInsertBefore(g, b, before), Isolated(g, b)
  PROVE  LET h == InsertBlockBefore(g, b, before)
         IN  /\ Shape(h)
             /\ h.blocks = g.blocks /\ h.term = g.term
             /\ h.succs[b][1] = None
             /\ \A c \in g.blocks \ {b}, s \in Slots :
                  g.succs[c][s] = None => h.succs[c][s] = None
             /\ Detours(g, h, b, g.blocks \ {b})
<1> DEFINE h == InsertBlockBefore(g, b, before)
<1> DEFINE R(c) == ReplacedSuccs(g, c, before, b)
<1> DEFINE Q == g.preds[before]
<1> DEFINE N == [g.succs[b] EXCEPT ![FALLTHROUGH] = before]
<1> DEFINE S == [c \in Ids |-> CASE c = b -> N [] c \in Q -> R(c) [] OTHER -> g.succs[c]]
<1> DEFINE P == [c \in Ids |-> CASE c = b      -> g.preds[b] \cup Q
                                 [] c = before -> {b}
                                 [] OTHER      -> g.preds[c]]
<1>0. /\ b \in g.blocks /\ before \in g.blocks /\ g.blocks \subseteq Ids /\ Q # {}
      /\ Q \subseteq g.blocks
  BY DEF CanInsertBefore, Shape, NoDangling, Graphs, HasNoPredecessors
<1>1. b # before /\ b \notin Q
  <2>1. b # before
    BY <1>0 DEF Isolated
  <2>2. before \notin SuccSet(g, b)
    BY SuccSetFacts, SlotFacts, FlowGraphAssumption DEF Isolated, NoSuccs
  <2> QED
    BY <1>0, <2>1, <2>2 DEF Shape, Symmetric
<1>2. \A c \in Q : /\ R(c) \in [Slots -> Ids \cup {None}]
                   /\ \E s, t \in Slots :
                        /\ s # t /\ g.succs[c][s] = before /\ g.succs[c][t] # before
                        /\ R(c)[s] = b /\ R(c)[t] = g.succs[c][t]
  BY <1>0, ReplacedFacts DEF CanInsertBefore
<1>3. N \in [Slots -> Ids \cup {None}] /\ N[0] = before /\ N[1] = None
  BY <1>0, SlotFacts DEF Shape, Graphs, Isolated, NoSuccs, FALLTHROUGH
<1>4. h = [g EXCEPT !.succs = S, !.preds = P]
  BY DEF InsertBlockBefore
<1> HIDE DEF h, R, N
<1>s. S \in [Ids -> [Slots -> Ids \cup {None}]]
  BY <1>2, <1>3 DEF Shape, Graphs
<1>p. P \in [Ids -> SUBSET Ids]
  BY <1>0 DEF Shape, Graphs
<1>5. /\ h \in Graphs
      /\ h.blocks = g.blocks /\ h.term = g.term /\ h.succs = S /\ h.preds = P
  <2>1. g \in Graphs
    BY DEF Shape
  <2> HIDE DEF S, P
  <2> QED
    BY <1>4, <1>s, <1>p, <2>1 DEF Graphs
<1>6. /\ h.succs[b] = N
      /\ \A c \in Q : h.succs[c] = R(c)
      /\ \A c \in Ids \ (Q \cup {b}) : h.succs[c] = g.succs[c]
  BY <1>0, <1>1, <1>5
<1>7. /\ h.preds[b] = Q /\ h.preds[before] = {b}
      /\ \A c \in Ids \ {before, b} : h.preds[c] = g.preds[c]
  BY <1>0, <1>1, <1>5 DEF Isolated
<1> HIDE DEF S, P
<1>8. \A c \in g.blocks : b \notin SuccSet(g, c) /\ c \notin SuccSet(g, b)
  BY <1>0, SuccSetFacts, SlotFacts, FlowGraphAssumption DEF Shape, Symmetric, Isolated, NoSuccs
<1>9. \A d \in g.blocks :
        /\ d \in SuccSet(h, b) <=> d = before
        /\ \A c \in Q : d \in SuccSet(h, c) <=> d = b \/ (d \in SuccSet(g, c) /\ d # before)
        /\ \A c \in g.blocks \ (Q \cup {b}) : d \in SuccSet(h, c) <=> d \in SuccSet(g, c)
  BY <1>0, <1>1, <1>2, <1>3, <1>6, SuccSetFacts, SlotFacts, FlowGraphAssumption
<1>10. Symmetric(h)
  <2> SUFFICES ASSUME NEW c \in g.blocks, NEW d \in g.blocks
               PROVE  c \in h.preds[d] <=> d \in SuccSet(h, c)
    BY <1>5 DEF Symmetric
  <2>0. c \in g.preds[d] <=> d \in SuccSet(g, c)
    BY DEF Shape, Symmetric
  <2>1. CASE c = b
    BY <1>0, <1>1, <1>7, <1>8, <1>9, <2>0, <2>1
  <2>2. CASE c \in Q
    BY <1>0, <1>1, <1>7, <1>8, <1>9, <2>0, <2>2
  <2>3. CASE c # b /\ c \notin Q
    BY <1>0, <1>1, <1>7, <1>8, <1>9, <2>0, <2>3
  <2> QED
    BY <2>1, <2>2, <2>3
<1>11. NoDangling(h)
  <2>1. SuccSet(h, b) \subseteq g.blocks
    BY <1>0, <1>3, <1>6, SlotFacts DEF SuccSet
  <2>2. \A c \in Q : SuccSet(h, c) \subseteq g.blocks
    <3> SUFFICES ASSUME NEW c \in Q PROVE SuccSet(h, c) \subseteq g.blocks
      OBVIOUS
    <3>1. SuccSet(g, c) \subseteq g.blocks
      BY <1>0 DEF Shape, NoDangling
    <3> QED
      BY <1>0, <1>2, <1>6, <3>1, SlotFacts DEF SuccSet
  <2>3. \A c \in g.blocks \ (Q \cup {b}) : SuccSet(h, c) = SuccSet(g, c)
    BY <1>0, <1>6 DEF SuccSet
  <2> QED
    BY <1>0, <1>5, <1>7, <2>1, <2>2, <2>3 DEF Shape, NoDangling
<1>12. NoParallel(h)
  <2>1. \A c \in Q : h.succs[c][0] # h.succs[c][1]
    BY <1>0, <1>2, <1>6, <1>8, SuccSetFacts, SlotFacts
  <2> QED
    BY <1>0, <1>1, <1>3, <1>5, <1>6, <2>1, FlowGraphAssumption
    DEF Shape, NoParallel, FALLTHROUGH, BRANCH_TRUE
<1>13. \A c \in g.blocks \ {b}, s \in Slots : g.succs[c][s] = None => h.succs[c][s] = None
  BY <1>0, <1>2, <1>6, SlotFacts, FlowGraphAssumption
<1>14. Detours(g, h, b, g.blocks \ {b})
  <2> SUFFICES ASSUME NEW c \in g.blocks \ {b}
               PROVE  SuccSet(g, c) = (SuccSet(h, c) \ {b})
                                      \cup (IF b \in SuccSet(h, c) THEN SuccSet(h, b) ELSE {})
    BY DEF Detours
  <2>1. SuccSet(g, c) \subseteq g.blocks /\ SuccSet(h, c) \subseteq g.blocks /\ SuccSet(h, b) \subseteq g.blocks
    BY <1>0, <1>5, <1>11 DEF Shape, NoDangling
  <2>2. SuccSet(h, b) = {before}
    BY <1>0, <1>9, <2>1
  <2>3. c \in Q => before \in SuccSet(g, c)
    BY <1>0 DEF Shape, Symmetric
  <2>4. CASE c \in Q
    BY <1>0, <1>1, <1>8, <1>9, <2>1, <2>2, <2>3, <2>4
  <2>5. CASE c \notin Q
    BY <1>0, <1>8, <1>9, <2>1, <2>5
  <2> QED
    BY <2>4, <2>5
<1> QED
  BY <1>3, <1>5, <1>6, <1>10, <1>11, <1>12, <1>13, <1>14 DEF Shape, h

LEMMA InsertBeforeWF ==
  ASSUME NEW g, WF(g), NEW b \in Ids, NEW before \in Ids, g.term[b] = "none",
         CanInsertBefore(g, b, before), Isolated(g, b)
  PROVE  /\ WF(InsertBlockBefore(g, b, before))
         /\ Detours(g, InsertBlockBefore(g, b, before), b, g.blocks \ {b})
<1> DEFINE h == InsertBlockBefore(g, b, before)
<1>1. /\ Shape(h)
      /\ h.blocks = g.blocks /\ h.term = g.term
      /\ h.succs[b][1] = None
      /\ \A c \in g.blocks \ {b}, s \in Slots : g.succs[c][s] = None => h.succs[c][s] = None
      /\ Detours(g, h, b, g.blocks \ {b})
  BY InsertBeforeShape DEF WF
<1> HIDE DEF h
<1>2. \A c \in Ids : GetNumSuccessors(h, c) = GetNumSuccessors(g, c)
  BY <1>1 DEF GetNumSuccessors
<1>3. GetNumSuccessors(h, b) = 1
  BY <1>1 DEF GetNumSuccessors
<1>4. NoHiddenSlots(h)
  BY <1>1, <1>2, <1>3, SlotFacts DEF WF, Shape, Graphs, NoHiddenSlots
<1> QED
  BY <1>1, <1>4 DEF WF, h

\* What it leaves of the slots and of the predecessors.
LEMMA ReplaceSuccessorFacts ==
  ASSUME NEW g, WF(g), NEW b \in Ids, NEW old \in Ids, NEW new \in g.blocks \cup {None},
         CanReplaceSuccessor(g, b, old, new)
  PROVE  LET h == ReplaceSuccessor(g, b, old, new)
         IN  /\ h \in Graphs /\ h.blocks = g.blocks /\ h.term = g.term
             /\ \E s, t \in Slots :
                  /\ s # t /\ s < GetNumSuccessors(g, b)
                  /\ g.succs[b][s] = old /\ g.succs[b][t] # old
                  /\ h.succs[b][s] = new /\ h.succs[b][t] = g.succs[b][t]
             /\ \A c \in Ids \ {b} : h.succs[c] = g.succs[c]
             /\ \A c \in Ids :
                  /\ c = new => h.preds[c] = g.preds[c] \cup {b}
                  /\ c # new /\ c = old => h.preds[c] = g.preds[c] \ {b}
                  /\ c # new /\ c # old => h.preds[c] = g.preds[c]
<1> DEFINE h == ReplaceSuccessor(g, b, old, new)
<1> DEFINE r == ReplacedSuccs(g, b, old, new)
<1> DEFINE S == [g.succs EXCEPT ![b] = r]
<1> DEFINE P == [c \in Ids |-> IF c = new THEN g.preds[c] \cup {b}
                               ELSE IF c = old THEN g.preds[c] \ {b}
                               ELSE g.preds[c]]
<1>0. /\ b \in g.blocks /\ old \in g.blocks /\ g.blocks \subseteq Ids
      /\ new \in Ids \cup {None} /\ b \in g.preds[old]
      /\ new = None \/ new = old \/ b \notin g.preds[new]
  BY DEF CanReplaceSuccessor, WF, Shape, Graphs
<1>2. r \in [Slots -> Ids \cup {None}]
  BY <1>0, ReplacedFacts DEF CanReplaceSuccessor, WF
<1>3. PICK s, t \in Slots :
         /\ s # t /\ s < GetNumSuccessors(g, b)
         /\ g.succs[b][s] = old /\ g.succs[b][t] # old
         /\ r[s] = new /\ r[t] = g.succs[b][t]
  BY <1>0, ReplacedFacts DEF CanReplaceSuccessor, WF
<1>4. h = [g EXCEPT !.succs = S, !.preds = P]
  BY DEF ReplaceSuccessor
<1> HIDE DEF h, r
<1>s. S \in [Ids -> [Slots -> Ids \cup {None}]]
  BY <1>2 DEF WF, Shape, Graphs
<1>p. P \in [Ids -> SUBSET Ids]
  BY <1>0 DEF WF, Shape, Graphs
<1>5. /\ h \in Graphs
      /\ h.blocks = g.blocks /\ h.term = g.term /\ h.succs = S /\ h.preds = P
  <2>1. g \in Graphs
    BY DEF WF, Shape
  <2> HIDE DEF S, P
  <2> QED
    BY <1>4, <1>s, <1>p, <2>1 DEF Graphs
<1>6. h.succs[b] = r /\ \A c \in Ids \ {b} : h.succs[c] = g.succs[c]
  BY <1>5 DEF WF, Shape, Graphs
<1>7. \A c \in Ids :
         /\ c = new => h.preds[c] = g.preds[c] \cup {b}
         /\ c # new /\ c = old => h.preds[c] = g.preds[c] \ {b}
         /\ c # new /\ c # old => h.preds[c] = g.preds[c]
  BY <1>5
<1> HIDE DEF S, P
<1> QED
  BY <1>3, <1>5, <1>6, <1>7 DEF h

LEMMA ReplaceSuccessorWF ==
  ASSUME NEW g, WF(g), NEW b \in Ids, NEW old \in Ids, NEW new \in g.blocks \cup {None},
         CanReplaceSuccessor(g, b, old, new)
  PROVE  WF(ReplaceSuccessor(g, b, old, new))
<1> DEFINE h == ReplaceSuccessor(g, b, old, new)
           r == h.succs[b]
<1>0. /\ b \in g.blocks /\ old \in g.blocks /\ g.blocks \subseteq Ids
      /\ new \in Ids \cup {None} /\ b \in g.preds[old]
      /\ new = None \/ new = old \/ b \notin g.preds[new]
  BY DEF CanReplaceSuccessor, WF, Shape, Graphs
<1>5. h \in Graphs /\ h.blocks = g.blocks /\ h.term = g.term
  BY <1>0, ReplaceSuccessorFacts
<1>3. \E s, t \in Slots :
         /\ s # t /\ s < GetNumSuccessors(g, b)
         /\ g.succs[b][s] = old /\ g.succs[b][t] # old
         /\ r[s] = new /\ r[t] = g.succs[b][t]
  BY <1>0, ReplaceSuccessorFacts
<1>6. h.succs[b] = r /\ \A c \in Ids \ {b} : h.succs[c] = g.succs[c]
  BY <1>0, ReplaceSuccessorFacts
<1>7. \A c \in Ids :
         /\ c = new => h.preds[c] = g.preds[c] \cup {b}
         /\ c # new /\ c = old => h.preds[c] = g.preds[c] \ {b}
         /\ c # new /\ c # old => h.preds[c] = g.preds[c]
  BY <1>0, ReplaceSuccessorFacts
<1> HIDE DEF h, r
<1>8. \A d \in g.blocks :
        /\ d \in SuccSet(h, b) <=> d = new \/ (d \in SuccSet(g, b) /\ d # old)
        /\ \A c \in g.blocks \ {b} : d \in SuccSet(h, c) <=> d \in SuccSet(g, c)
  BY <1>0, <1>3, <1>6, SuccSetFacts, SlotFacts, FlowGraphAssumption
<1>9. Symmetric(h)
  <2> SUFFICES ASSUME NEW c \in g.blocks, NEW d \in g.blocks
               PROVE  c \in h.preds[d] <=> d \in SuccSet(h, c)
    BY <1>5 DEF Symmetric
  <2>0. c \in g.preds[d] <=> d \in SuccSet(g, c)
    BY DEF WF, Shape, Symmetric
  <2>1. CASE d = new
    <3>1. h.preds[d] = g.preds[d] \cup {b}
      BY <1>0, <1>7, <2>1
    <3>2. d \in SuccSet(h, b) /\ (c # b => (d \in SuccSet(h, c) <=> d \in SuccSet(g, c)))
      BY <1>8, <2>1
    <3> QED
      BY <2>0, <3>1, <3>2
  <2>2. CASE d # new /\ d = old
    BY <1>0, <1>7, <1>8, <2>0, <2>2
  <2>3. CASE d # new /\ d # old
    BY <1>0, <1>7, <1>8, <2>0, <2>3
  <2> QED
    BY <2>1, <2>2, <2>3
<1>10. NoDangling(h)
  <2>1. SuccSet(h, b) \subseteq g.blocks
    <3>1. SuccSet(g, b) \subseteq g.blocks
      BY <1>0 DEF WF, Shape, NoDangling
    <3> QED
      BY <1>0, <1>3, <1>6, <3>1, SlotFacts DEF SuccSet
  <2>2. \A c \in g.blocks \ {b} : SuccSet(h, c) = SuccSet(g, c)
    BY <1>0, <1>6 DEF SuccSet
  <2> QED
    BY <1>0, <1>5, <1>7, <2>1, <2>2 DEF WF, Shape, NoDangling
<1>11. NoParallel(h)
  <2>1. r[0] = r[1] => r[0] = None
    <3>1. new # None /\ new # old => new \notin SuccSet(g, b)
      BY <1>0 DEF WF, Shape, Symmetric
    <3> QED
      BY <1>0, <1>3, <3>1, SuccSetFacts, SlotFacts, FlowGraphAssumption
  <2> QED
    BY <1>0, <1>5, <1>6, <2>1 DEF WF, Shape, NoParallel, FALLTHROUGH, BRANCH_TRUE
<1>12. NoHiddenSlots(h)
  <2>1. \A c \in Ids : GetNumSuccessors(h, c) = GetNumSuccessors(g, c)
    BY <1>5 DEF GetNumSuccessors
  <2>2. \A u \in Slots : u >= GetNumSuccessors(g, b) => r[u] = None
    BY <1>0, <1>3, SlotFacts, NumSuccessorsFacts DEF WF, Shape, NoHiddenSlots
  <2> QED
    BY <1>0, <1>5, <1>6, <2>1, <2>2 DEF WF, NoHiddenSlots
<1> QED
  BY <1>5, <1>9, <1>10, <1>11, <1>12 DEF WF, Shape, h

LEMMA NewBlocksWF ==
  ASSUME NEW g, WF(g), NEW B \in SUBSET Ids, B \cap g.blocks = {}
  PROVE  LET h == NewBlocks(g, B)
         IN  /\ WF(h) /\ h.blocks = g.blocks \cup B
             /\ \A b \in B : Isolated(h, b) /\ h.term[b] = "none"
             /\ \A c \in g.blocks : h.succs[c] = g.succs[c]
<1> DEFINE h == NewBlocks(g, B)
<1>1. /\ h.blocks = g.blocks \cup B
      /\ h.succs = [c \in Ids |-> IF c \in B THEN NoSuccs ELSE g.succs[c]]
      /\ h.preds = [c \in Ids |-> IF c \in B THEN {} ELSE g.preds[c]]
      /\ h.term = [c \in Ids |-> IF c \in B THEN "none" ELSE g.term[c]]
  BY DEF NewBlocks, WF, Shape, Graphs
<1>2. h \in Graphs
  BY DEF NewBlocks, WF, Shape, Graphs, NoSuccs, Terms
<1> HIDE DEF h
<1>3. \A c \in g.blocks : /\ c \notin B /\ c \in Ids /\ h.term[c] = g.term[c]
                          /\ h.succs[c] = g.succs[c] /\ h.preds[c] = g.preds[c]
  BY <1>1 DEF WF, Shape, Graphs
<1>4. \A b \in B : h.succs[b] = NoSuccs /\ h.preds[b] = {} /\ h.term[b] = "none"
  BY <1>1
<1>5. /\ \A b \in B : SuccSet(h, b) = {}
      /\ \A c \in g.blocks : SuccSet(h, c) = SuccSet(g, c)
  BY <1>3, <1>4 DEF SuccSet, NoSuccs
<1>6. NoDangling(h)
  BY <1>1, <1>3, <1>4, <1>5 DEF WF, Shape, NoDangling
<1>7. Symmetric(h)
  BY <1>1, <1>3, <1>4, <1>5 DEF WF, Shape, Symmetric, NoDangling
<1>8. NoParallel(h)
  BY <1>1, <1>3, <1>4, SlotFacts DEF WF, Shape, NoParallel, NoSuccs, FALLTHROUGH, BRANCH_TRUE
<1>9. NoHiddenSlots(h)
  BY <1>1, <1>3, <1>4 DEF WF, NoHiddenSlots, GetNumSuccessors, NoSuccs
<1> QED
  BY <1>1, <1>2, <1>3, <1>4, <1>6, <1>7, <1>8, <1>9 DEF WF, Shape, Isolated, h

CanReplaceSuccessors(g, P, old, new) ==
  P # {} /\ old # new /\ \A p \in P : CanReplaceSuccessor(g, p, old, new)

\* Every block of P gets new for old, which none had before.
LEMMA ReplaceSuccessorsWF ==
  ASSUME NEW g, WF(g), NEW P, NEW old \in Ids, NEW new \in g.blocks,
         CanReplaceSuccessors(g, P, old, new)
  PROVE  WF(ReplaceSuccessors(g, P, old, new))
<1> DEFINE h == ReplaceSuccessors(g, P, old, new)
           R(c) == ReplacedSuccs(g, c, old, new)
           S == [c \in Ids |-> IF c \in P THEN R(c) ELSE g.succs[c]]
           D == [c \in Ids |-> CASE c = new -> g.preds[c] \cup P
                                 [] c = old -> g.preds[c] \ P
                                 [] OTHER   -> g.preds[c]]
<1>0. /\ P \subseteq g.blocks /\ P \subseteq g.preds[old] /\ P \cap g.preds[new] = {}
      /\ old \in g.blocks /\ g.blocks \subseteq Ids /\ new \in Ids /\ new # None /\ old # None
      /\ new # old /\ \A p \in P : CanReplaceSuccessor(g, p, old, new)
  BY FlowGraphAssumption DEF CanReplaceSuccessors, CanReplaceSuccessor, WF, Shape, Graphs
<1>2. ASSUME NEW p \in P
      PROVE  /\ R(p) \in [Slots -> Ids \cup {None}]
             /\ \E s, t \in Slots :
                  /\ s # t /\ s < GetNumSuccessors(g, p)
                  /\ g.succs[p][s] = old /\ g.succs[p][t] # old
                  /\ R(p)[s] = new /\ R(p)[t] = g.succs[p][t]
  BY <1>0, ReplacedFacts DEF CanReplaceSuccessor, WF
<1> HIDE DEF R
<1>3. h = [g EXCEPT !.succs = S, !.preds = D]
  BY DEF ReplaceSuccessors, R
<1> HIDE DEF h
<1>s. S \in [Ids -> [Slots -> Ids \cup {None}]]
  BY <1>2 DEF WF, Shape, Graphs
<1>p. D \in [Ids -> SUBSET Ids]
  BY <1>0 DEF WF, Shape, Graphs
<1>5. /\ h \in Graphs
      /\ h.blocks = g.blocks /\ h.term = g.term /\ h.succs = S /\ h.preds = D
  <2>1. g \in Graphs
    BY DEF WF, Shape
  <2> HIDE DEF S, D
  <2> QED
    BY <1>3, <1>s, <1>p, <2>1 DEF Graphs
<1>6. /\ \A c \in P : h.succs[c] = R(c)
      /\ \A c \in Ids \ P : h.succs[c] = g.succs[c]
  BY <1>0, <1>5
<1>7. /\ h.preds[new] = g.preds[new] \cup P
      /\ h.preds[old] = g.preds[old] \ P
      /\ \A c \in Ids \ {old, new} : h.preds[c] = g.preds[c]
  BY <1>0, <1>5
<1> HIDE DEF S, D
<1>8. \A d \in g.blocks :
        /\ \A c \in P : d \in SuccSet(h, c) <=> d = new \/ (d \in SuccSet(g, c) /\ d # old)
        /\ \A c \in g.blocks \ P : d \in SuccSet(h, c) <=> d \in SuccSet(g, c)
  <2> SUFFICES ASSUME NEW d \in g.blocks
               PROVE  /\ \A c \in P : d \in SuccSet(h, c) <=> d = new \/ (d \in SuccSet(g, c) /\ d # old)
                      /\ \A c \in g.blocks \ P : d \in SuccSet(h, c) <=> d \in SuccSet(g, c)
    OBVIOUS
  <2>1. ASSUME NEW c \in P PROVE d \in SuccSet(h, c) <=> d = new \/ (d \in SuccSet(g, c) /\ d # old)
    <3>1. PICK s, t \in Slots : /\ s # t
                                /\ g.succs[c][s] = old /\ g.succs[c][t] # old
                                /\ h.succs[c][s] = new /\ h.succs[c][t] = g.succs[c][t]
      BY <1>2, <1>6
    <3>2. Slots = {s, t} /\ d \in Ids /\ d # None
      BY <1>0, <3>1, SlotFacts, FlowGraphAssumption
    <3> QED
      BY <3>1, <3>2 DEF SuccSet
  <2>2. ASSUME NEW c \in g.blocks \ P PROVE d \in SuccSet(h, c) <=> d \in SuccSet(g, c)
    BY <1>0, <1>6 DEF SuccSet
  <2> QED
    BY <2>1, <2>2
<1>9. Symmetric(h)
  <2> SUFFICES ASSUME NEW c \in g.blocks, NEW d \in g.blocks
               PROVE  c \in h.preds[d] <=> d \in SuccSet(h, c)
    BY <1>5 DEF Symmetric
  <2>0. c \in g.preds[d] <=> d \in SuccSet(g, c)
    BY DEF WF, Shape, Symmetric
  <2>1. CASE d = new
    BY <1>0, <1>7, <1>8, <2>0, <2>1
  <2>2. CASE d = old
    BY <1>0, <1>7, <1>8, <2>0, <2>2
  <2>3. CASE d \notin {old, new}
    <3>1. h.preds[d] = g.preds[d]
      BY <1>0, <1>7, <2>3
    <3> QED
      BY <1>8, <2>0, <2>3, <3>1
  <2> QED
    BY <2>1, <2>2, <2>3
<1>10. NoDangling(h)
  <2>1. \A c \in P : SuccSet(h, c) \subseteq g.blocks
    <3> SUFFICES ASSUME NEW c \in P PROVE SuccSet(h, c) \subseteq g.blocks
      OBVIOUS
    <3>1. SuccSet(g, c) \subseteq g.blocks
      BY <1>0 DEF WF, Shape, NoDangling
    <3>2. PICK s, t \in Slots : s # t /\ h.succs[c][s] = new /\ h.succs[c][t] = g.succs[c][t]
      BY <1>2, <1>6
    <3>3. Slots = {s, t}
      BY <3>2, SlotFacts
    <3> QED
      BY <3>1, <3>2, <3>3 DEF SuccSet
  <2>2. \A c \in g.blocks \ P : SuccSet(h, c) = SuccSet(g, c)
    BY <1>0, <1>6 DEF SuccSet
  <2>3. \A c \in g.blocks : SuccSet(h, c) \subseteq g.blocks
    BY <2>1, <2>2 DEF WF, Shape, NoDangling
  <2>4. \A c \in g.blocks : h.preds[c] \subseteq g.blocks
    BY <1>0, <1>7 DEF WF, Shape, NoDangling
  <2> QED
    BY <1>5, <2>3, <2>4 DEF NoDangling
<1>11. NoParallel(h)
  <2>1. ASSUME NEW c \in P PROVE h.succs[c][0] # h.succs[c][1]
    <3>1. PICK s, t \in Slots : /\ s # t
                                /\ h.succs[c][s] = new /\ h.succs[c][t] = g.succs[c][t]
      BY <1>2, <1>6
    <3>2. new \notin SuccSet(g, c)
      BY <1>0 DEF WF, Shape, Symmetric
    <3>3. g.succs[c][t] # new
      BY <1>0, <3>2 DEF SuccSet
    <3> QED
      BY <3>1, <3>3, SlotFacts
  <2>2. \A c \in g.blocks \ P : h.succs[c] = g.succs[c]
    BY <1>0, <1>6
  <2> QED
    BY <1>5, <2>1, <2>2 DEF WF, Shape, NoParallel, FALLTHROUGH, BRANCH_TRUE
<1>12. NoHiddenSlots(h)
  <2>1. \A c \in Ids : GetNumSuccessors(h, c) = GetNumSuccessors(g, c)
    BY <1>5 DEF GetNumSuccessors
  <2>2. ASSUME NEW c \in P, NEW u \in Slots, u >= GetNumSuccessors(g, c) PROVE h.succs[c][u] = None
    <3>1. PICK s, t \in Slots : /\ s # t /\ s < GetNumSuccessors(g, c)
                                /\ h.succs[c][s] = new /\ h.succs[c][t] = g.succs[c][t]
      BY <1>2, <1>6
    <3>2. GetNumSuccessors(g, c) \in 0 .. 2
      BY <1>0, NumSuccessorsFacts DEF WF, Shape
    <3>3. u = t
      BY <2>2, <3>1, <3>2, SlotFacts
    <3>4. g.succs[c][u] = None
      BY <1>0, <2>2 DEF WF, NoHiddenSlots
    <3> QED
      BY <3>1, <3>3, <3>4
  <2>3. \A c \in g.blocks \ P : h.succs[c] = g.succs[c]
    BY <1>0, <1>6
  <2> QED
    BY <1>0, <1>5, <2>1, <2>2, <2>3 DEF WF, NoHiddenSlots
<1> QED
  BY <1>5, <1>6, <1>7, <1>9, <1>10, <1>11, <1>12 DEF WF, Shape, h

LEMMA SwapSuccessorsWF ==
  ASSUME NEW g, WF(g), NEW b \in Ids, CanSwapSuccessors(g, b)
  PROVE  WF(SwapTwoSuccessors(g, b))
<1> DEFINE h == SwapTwoSuccessors(g, b)
<1>1. /\ h.blocks = g.blocks /\ h.term = g.term /\ h.preds = g.preds
      /\ h.succs = [g.succs EXCEPT ![b] = [s \in Slots |-> g.succs[b][1 - s]]]
  BY DEF SwapTwoSuccessors, WF, Shape, Graphs
<1>2. [s \in Slots |-> g.succs[b][1 - s]] \in [Slots -> Ids \cup {None}]
  BY SlotFacts DEF WF, Shape, Graphs
<1>3. h \in Graphs
  BY <1>2 DEF SwapTwoSuccessors, WF, Shape, Graphs
<1> HIDE DEF h
<1>4. /\ b \in g.blocks /\ g.blocks \subseteq Ids
      /\ h.succs[b][0] = g.succs[b][1] /\ h.succs[b][1] = g.succs[b][0]
      /\ \A c \in Ids \ {b} : h.succs[c] = g.succs[c]
  BY <1>1, SlotFacts DEF CanSwapSuccessors, WF, Shape, Graphs
<1>5. \A c \in g.blocks : SuccSet(h, c) = SuccSet(g, c)
  BY <1>4, SlotFacts DEF SuccSet
<1>6. Symmetric(h) /\ NoDangling(h)
  BY <1>1, <1>5 DEF WF, Shape, Symmetric, NoDangling
<1>7. NoParallel(h)
  BY <1>1, <1>4 DEF WF, Shape, NoParallel, FALLTHROUGH, BRANCH_TRUE
<1>8. NoHiddenSlots(h)
  <2>1. \A c \in Ids : GetNumSuccessors(h, c) = GetNumSuccessors(g, c)
    BY <1>1 DEF GetNumSuccessors
  <2>2. \A s \in Slots : ~ s >= GetNumSuccessors(g, b)
    BY SlotFacts DEF CanSwapSuccessors
  <2> QED
    BY <1>1, <1>4, <2>1, <2>2 DEF WF, NoHiddenSlots
<1> QED
  BY <1>3, <1>6, <1>7, <1>8 DEF WF, Shape, h

LEMMA DestroyBlockWF ==
  ASSUME NEW g, WF(g), NEW b \in Ids, CanDestroy(g, b)
  PROVE  WF(DestroyBlock(g, b))
<1> DEFINE h == DestroyBlock(g, b)
<1>1. /\ h.blocks = g.blocks \ {b} /\ h.term = g.term /\ h.preds = g.preds /\ h.succs = g.succs
      /\ h \in Graphs
  BY DEF DestroyBlock, WF, Shape, Graphs
<1> HIDE DEF h
<1>2. \A c \in Ids : SuccSet(h, c) = SuccSet(g, c)
  BY <1>1 DEF SuccSet
<1>3. b \in g.blocks /\ g.preds[b] = {}
  BY DEF CanDestroy, HasNoPredecessors
<1>4. \A s \in Slots : g.succs[b][s] = None
  BY <1>3, SlotFacts, NumSuccessorsFacts
  DEF CanDestroy, HasNoSuccessors, WF, Shape, NoHiddenSlots, Graphs
<1>5. SuccSet(g, b) = {}
  BY <1>4 DEF SuccSet
<1>6. \A c \in g.blocks : b \notin SuccSet(g, c) /\ b \notin g.preds[c]
  BY <1>3, <1>5 DEF WF, Shape, Symmetric
<1>7. Symmetric(h) /\ NoDangling(h) /\ NoParallel(h)
  <2>1. g.blocks \subseteq Ids
    BY DEF WF, Shape, Graphs
  <2>2. Symmetric(h)
    BY <1>1, <1>2, <2>1 DEF WF, Shape, Symmetric
  <2>3. NoDangling(h)
    BY <1>1, <1>2, <1>6, <2>1 DEF WF, Shape, NoDangling
  <2>4. NoParallel(h)
    BY <1>1 DEF WF, Shape, NoParallel
  <2> QED
    BY <2>2, <2>3, <2>4
<1>8. NoHiddenSlots(h)
  BY <1>1 DEF WF, NoHiddenSlots, GetNumSuccessors
<1> QED
  BY <1>1, <1>7, <1>8 DEF WF, Shape, h

LEMMA SplitBlockWF ==
  ASSUME NEW g, WF(g), NEW b \in Ids, NEW n \in Ids \ g.blocks, CanSplit(g, b, n)
  PROVE  WF(SplitBlock(g, b, n)) /\ Detours(g, SplitBlock(g, b, n), n, g.blocks)
<1> DEFINE e == Emptied(g, b)
<1> DEFINE k == NewBlock(e, n, "none")
<1> DEFINE i == InsertBlockBefore(k, n, b)
<1> DEFINE h == SplitBlock(g, b, n)
<1>1. b \in g.blocks /\ g.blocks \subseteq Ids /\ b # n
  BY DEF CanSplit, WF, Shape, Graphs
<1>2. /\ e \in Graphs /\ e.blocks = g.blocks /\ e.succs = g.succs /\ e.preds = g.preds
      /\ e.term = [g.term EXCEPT ![b] = "none"]
  BY DEF Emptied, WF, Shape, Graphs, Terms
<1> HIDE DEF e
<1>3. Shape(e)
  BY <1>2 DEF WF, Shape, Symmetric, NoDangling, NoParallel, SuccSet
<1>4. /\ Shape(k) /\ Isolated(k, n)
      /\ k.blocks = g.blocks \cup {n}
      /\ k.succs = [g.succs EXCEPT ![n] = NoSuccs]
      /\ k.term = [e.term EXCEPT ![n] = "none"]
  <2>1. CanNewBlock(e, n) /\ "none" \in Terms
    BY <1>2 DEF CanNewBlock, Terms
  <2>2. /\ Shape(k) /\ Isolated(k, n)
        /\ k.blocks = e.blocks \cup {n}
        /\ k.succs = [e.succs EXCEPT ![n] = NoSuccs]
        /\ k.term = [e.term EXCEPT ![n] = "none"]
    BY <1>3, <2>1, NewBlockShape
  <2> QED
    BY <1>2, <2>2
<1> HIDE DEF k
<1>5. /\ Shape(i) /\ i.blocks = g.blocks \cup {n} /\ i.term = [e.term EXCEPT ![n] = "none"]
      /\ i.succs[n][1] = None
      /\ \A c \in g.blocks, s \in Slots : k.succs[c][s] = None => i.succs[c][s] = None
      /\ Detours(k, i, n, g.blocks)
  BY <1>1, <1>4, InsertBeforeShape DEF CanSplit, k, e, Detours
<1> HIDE DEF i
<1>6. h = [i EXCEPT !.term[b] = g.term[b]]
  BY DEF SplitBlock, i, k, e
<1> HIDE DEF h
<1>7. g.term[b] \in Terms
  BY <1>1 DEF WF, Shape, Graphs
<1>8. /\ h \in Graphs /\ h.blocks = i.blocks /\ h.succs = i.succs /\ h.preds = i.preds
      /\ h.term = [i.term EXCEPT ![b] = g.term[b]]
  BY <1>5, <1>6, <1>7 DEF Shape, Graphs
<1>9. Shape(h)
  BY <1>5, <1>8 DEF Shape, Symmetric, NoDangling, NoParallel, SuccSet
<1>10. \A c \in g.blocks : h.term[c] = g.term[c] /\ k.succs[c] = g.succs[c]
  BY <1>1, <1>2, <1>4, <1>5, <1>8 DEF WF, Shape, Graphs
<1>11. h.term[n] = "none"
  BY <1>1, <1>2, <1>5, <1>8 DEF WF, Shape, Graphs
<1>12. NoHiddenSlots(h)
  <2>1. \A c \in g.blocks : GetNumSuccessors(h, c) = GetNumSuccessors(g, c)
    BY <1>10 DEF GetNumSuccessors
  <2>2. GetNumSuccessors(h, n) = 1
    BY <1>11 DEF GetNumSuccessors
  <2> QED
    BY <1>1, <1>5, <1>8, <1>10, <2>1, <2>2, SlotFacts DEF WF, NoHiddenSlots
<1>13. Detours(g, h, n, g.blocks)
  <2>1. SuccSet(h, n) = SuccSet(i, n) /\ \A c \in g.blocks : SuccSet(h, c) = SuccSet(i, c)
    BY <1>8 DEF SuccSet
  <2>2. \A c \in g.blocks : SuccSet(g, c) = SuccSet(k, c)
    BY <1>10 DEF SuccSet
  <2> QED
    BY <1>5, <2>1, <2>2 DEF Detours
<1> QED
  BY <1>9, <1>12, <1>13 DEF WF, h

-----------------------------------------------------------------------------
\* A set of naturals has a least element.
LEMMA Least ==
  ASSUME NEW T, T \subseteq Nat, T # {}
  PROVE  \E x \in T : \A y \in T : x <= y
<1>1. \E x \in T : \A y \in T : ~(<<y, x>> \in OpToRel(<, Nat))
  BY NatLessThanWellFounded, WFMin
<1>2. PICK x \in T : \A y \in T : ~(<<y, x>> \in OpToRel(<, Nat))
  BY <1>1
<1>3. \A y \in T : ~(y < x)
  BY <1>2 DEF OpToRel
<1>4. \A y \in T : y \in Nat
  OBVIOUS
<1>5. \A y \in T : x <= y
  BY <1>3, <1>4
<1> QED
  BY <1>5

\* Induction over the naturals, for a set instead of a predicate.
LEMMA SetInduction ==
  ASSUME NEW S, 0 \in S, \A n \in Nat : n \in S => n + 1 \in S
  PROVE  Nat \subseteq S
<1> SUFFICES ASSUME Nat \ S # {} PROVE FALSE
  OBVIOUS
<1> DEFINE T == Nat \ S
<1>1. \E x \in T : \A y \in T : x <= y
  <2>1. T \subseteq Nat /\ T # {}
    OBVIOUS
  <2> HIDE DEF T
  <2> QED
    BY <2>1, Least
<1>2. PICK x \in T : \A y \in T : x <= y
  BY <1>1
<1>3. x # 0 /\ x - 1 \in Nat /\ ~(x <= x - 1)
  OBVIOUS
<1>4. x - 1 \in S
  BY <1>2, <1>3
<1> QED
  BY <1>3, <1>4

\* A sequence is defined by its first element and a step.
LEMMA Recursion ==
  ASSUME NEW S, NEW a \in S, NEW step \in [S -> S]
  PROVE  \E f \in [Nat -> S] : f[0] = a /\ \A n \in Nat : f[n + 1] = step[f[n]]
<1> DEFINE IsUpTo(n, g) == g \in [0 .. n -> S] /\ g[0] = a /\ \A k \in 0 .. n - 1 : g[k + 1] = step[g[k]]
           G == {n \in Nat : \E g \in [0 .. n -> S] : IsUpTo(n, g)}
<1>1. Nat \subseteq G
  <2>1. 0 \in G
    <3>1. IsUpTo(0, [k \in 0 .. 0 |-> a])
      OBVIOUS
    <3> QED
      BY <3>1
  <2>2. ASSUME NEW n \in Nat, n \in G PROVE n + 1 \in G
    <3>1. PICK g \in [0 .. n -> S] : IsUpTo(n, g)
      BY <2>2
    <3> DEFINE h == [k \in 0 .. n + 1 |-> IF k = n + 1 THEN step[g[n]] ELSE g[k]]
    <3>2. h \in [0 .. n + 1 -> S]
      BY <3>1
    <3>3. h[0] = a
      BY <3>1
    <3>4. ASSUME NEW k \in 0 .. n PROVE h[k + 1] = step[h[k]]
      BY <3>1
    <3>5. IsUpTo(n + 1, h)
      BY <3>2, <3>3, <3>4
    <3> HIDE DEF IsUpTo, h
    <3> QED
      BY <3>5, <3>2
  <2> HIDE DEF G
  <2> QED
    BY <2>1, <2>2, SetInduction
<1>2. ASSUME NEW m \in Nat, NEW n \in Nat, NEW g, NEW h, IsUpTo(m, g), IsUpTo(n, h), m <= n
      PROVE  g[m] = h[m]
  <2> DEFINE A == {k \in Nat : k <= m => g[k] = h[k]}
  <2>1. 0 \in A
    BY <1>2
  <2>2. ASSUME NEW k \in Nat, k \in A PROVE k + 1 \in A
    BY <2>2, <1>2
  <2>3. m \in A
    <3> HIDE DEF A
    <3> QED
      BY <2>1, <2>2, SetInduction
  <2> QED
    BY <2>3
<1> DEFINE f == [n \in Nat |-> (CHOOSE g \in [0 .. n -> S] : IsUpTo(n, g))[n]]
<1>3. ASSUME NEW n \in Nat, NEW g \in [0 .. n -> S], IsUpTo(n, g) PROVE f[n] = g[n]
  <2>1. IsUpTo(n, CHOOSE x \in [0 .. n -> S] : IsUpTo(n, x))
    BY <1>3, Zenon
  <2>2. (CHOOSE x \in [0 .. n -> S] : IsUpTo(n, x))[n] = g[n]
    <3> HIDE DEF IsUpTo
    <3> QED
      BY <1>2, <1>3, <2>1
  <2> QED
    BY <2>2, Zenon
<1>4. ASSUME NEW n \in Nat PROVE f[n] \in S /\ f[n + 1] = step[f[n]]
  <2>1. PICK g \in [0 .. n + 1 -> S] : IsUpTo(n + 1, g)
    <3>1. n + 1 \in G
      <4> HIDE DEF G
      <4> QED
        BY <1>1
    <3> HIDE DEF IsUpTo
    <3> QED
      BY <3>1
  <2> DEFINE h == [k \in 0 .. n |-> g[k]]
  <2>2. IsUpTo(n, h) /\ h \in [0 .. n -> S]
    BY <2>1
  <2>3. f[n + 1] = g[n + 1]
    <3> HIDE DEF f, IsUpTo
    <3> QED
      BY <2>1, <1>3
  <2>4. f[n] = h[n]
    <3> HIDE DEF f, IsUpTo, h
    <3> QED
      BY <2>2, <1>3
  <2> QED
    BY <2>1, <2>3, <2>4, <2>2
<1>5. f[0] = a
  <2> DEFINE g == [k \in 0 .. 0 |-> a]
  <2>1. IsUpTo(0, g) /\ g \in [0 .. 0 -> S] /\ g[0] = a
    OBVIOUS
  <2> HIDE DEF f, IsUpTo, g
  <2> QED
    BY <2>1, <1>3
<1>6. f \in [Nat -> S]
  <2>1. \A n \in Nat : f[n] \in S
    BY <1>4
  <2>2. f = [n \in Nat |-> f[n]]
    OBVIOUS
  <2> HIDE DEF f
  <2> QED
    BY <2>1, <2>2
<1> HIDE DEF f
<1> QED
  BY <1>4, <1>5, <1>6

\* f is the sequence that starts with a and goes on by step, all of it in S.
IsRun(S, a, step, f) == f \in [Nat -> S] /\ f[0] = a /\ \A n \in Nat : f[n + 1] = step[f[n]]

LEMMA RunExists ==
  ASSUME NEW S, NEW a, NEW step, a \in S, step \in [S -> S]
  PROVE  \E f : IsRun(S, a, step, f)
<1>1. \E f \in [Nat -> S] : f[0] = a /\ \A n \in Nat : f[n + 1] = step[f[n]]
  BY Recursion, SMTT(30)
<1> QED
  BY <1>1 DEF IsRun

\* R is what becomes of a when step adds elements of S to it over and over.
IsIteration(S, a, step, R) ==
  /\ a \in SUBSET S /\ step \in [SUBSET S -> SUBSET S]
  /\ \A P \in SUBSET S : P \subseteq step[P]
  /\ R[0] = a
  /\ \A n \in Nat : R[n] \in SUBSET S => R[n + 1] = step[R[n]]

\* step adds nothing to Q, and Q has nothing that it need not have for that.
IsLeastFixpoint(S, a, step, Q) ==
  /\ Q \in SUBSET S /\ a \subseteq Q /\ step[Q] = Q
  /\ \A C \in SUBSET S : a \subseteq C /\ (\A P \in SUBSET S : P \subseteq C => step[P] \subseteq C)
                       => Q \subseteq C

\* There is nothing left to add after as many turns as S has elements.
LEMMA Iterates ==
  ASSUME NEW S, IsFiniteSet(S), NEW a, NEW step, NEW R, IsIteration(S, a, step, R)
  PROVE  IsLeastFixpoint(S, a, step, R[Cardinality(S)])
<1> DEFINE last == R[Cardinality(S)]
<1> USE DEF IsIteration
<1>1. Cardinality(S) \in Nat
  BY FS_CardinalityType
<1> DEFINE Settled == {n \in Nat : /\ R[n] \in SUBSET S /\ a \subseteq R[n]
                                  /\ (step[R[n]] = R[n] \/ Cardinality(R[n]) >= n)}
<1>2. 0 \in Settled
  BY FS_Subset, FS_CardinalityType
<1>3. ASSUME NEW n \in Nat, n \in Settled PROVE n + 1 \in Settled
  <2>1. /\ R[n] \in SUBSET S /\ a \subseteq R[n] /\ R[n] \subseteq R[n + 1]
        /\ R[n + 1] \in SUBSET S /\ R[n + 1] = step[R[n]]
    BY <1>3
  <2>2. CASE step[R[n]] = R[n]
    BY <2>1, <2>2
  <2>3. CASE step[R[n]] # R[n]
    <3>1. Cardinality(R[n]) >= n
      BY <1>3, <2>3
    <3>2. IsFiniteSet(R[n + 1])
      BY <2>1, FS_Subset
    <3>3. /\ Cardinality(R[n]) <= Cardinality(R[n + 1])
          /\ Cardinality(R[n]) # Cardinality(R[n + 1])
      <4>1. R[n] \in SUBSET R[n + 1] /\ R[n + 1] # R[n]
        BY <2>1, <2>3
      <4> QED
        BY <3>2, <4>1, FS_Subset
    <3>4. Cardinality(R[n]) \in Nat /\ Cardinality(R[n + 1]) \in Nat
      BY <2>1, <3>2, FS_Subset, FS_CardinalityType
    <3>5. Cardinality(R[n + 1]) >= n + 1
      BY <3>1, <3>3, <3>4
    <3> QED
      BY <2>1, <3>5
  <2> QED
    BY <2>2, <2>3
<1>4. Cardinality(S) \in Settled
  <2> HIDE DEF Settled
  <2> QED
    BY <1>1, <1>2, <1>3, SetInduction
<1>5. last \in SUBSET S /\ a \subseteq last /\ (step[last] = last \/ Cardinality(last) >= Cardinality(S))
  BY <1>4
<1>6. step[last] = last
  <2>1. CASE Cardinality(last) >= Cardinality(S)
    <3>1. Cardinality(last) \in Nat /\ Cardinality(last) <= Cardinality(S)
      BY <1>5, FS_Subset, FS_CardinalityType
    <3>2. Cardinality(last) = Cardinality(S)
      BY <1>1, <2>1, <3>1
    <3>3. last = S
      BY <1>5, <3>2, FS_Subset
    <3>4. S \in SUBSET S /\ step[S] \in SUBSET S /\ S \subseteq step[S]
      OBVIOUS
    <3> QED
      BY <3>3, <3>4
  <2> QED
    BY <1>5, <2>1
<1>7. ASSUME NEW C \in SUBSET S, a \subseteq C, \A P \in SUBSET S : P \subseteq C => step[P] \subseteq C
      PROVE  last \subseteq C
  <2> DEFINE Inside == {n \in Nat : R[n] \in SUBSET S /\ R[n] \subseteq C}
  <2>1. 0 \in Inside
    BY <1>7
  <2>2. ASSUME NEW n \in Nat, n \in Inside PROVE n + 1 \in Inside
    BY <1>7, <2>2
  <2>3. Cardinality(S) \in Inside
    <3> HIDE DEF Inside
    <3> QED
      BY <1>1, <2>1, <2>2, SetInduction
  <2> QED
    BY <2>3
<1> QED
  BY <1>5, <1>6, <1>7 DEF IsLeastFixpoint

LEMMA SuccSetInIds ==
  ASSUME NEW g \in Graphs, NEW b \in Ids
  PROVE  SuccSet(g, b) \subseteq Ids
  BY DEF SuccSet, Graphs

\* The blocks that a path of one edge or more leads to.
LEMMA ReachedFromLeast ==
  ASSUME NEW g \in Graphs, NEW b \in Ids
  PROVE  /\ ReachedFrom(g, b) \subseteq Ids /\ SuccSet(g, b) \subseteq ReachedFrom(g, b)
         /\ \A c \in ReachedFrom(g, b) : SuccSet(g, c) \subseteq ReachedFrom(g, b)
         /\ \A C \in SUBSET Ids :
              SuccSet(g, b) \subseteq C /\ (\A c \in C : SuccSet(g, c) \subseteq C)
              => ReachedFrom(g, b) \subseteq C
<1> DEFINE R[n \in Nat] == IF n = 0 THEN SuccSet(g, b)
                           ELSE LET P == R[n - 1] IN P \cup UNION {SuccSet(g, c) : c \in P}
           step == [P \in SUBSET Ids |-> P \cup UNION {SuccSet(g, c) : c \in P}]
           Rule(f) == f = [n \in Nat |-> IF n = 0 THEN SuccSet(g, b)
                           ELSE LET P == f[n - 1] IN P \cup UNION {SuccSet(g, c) : c \in P}]
<1>1. step \in [SUBSET Ids -> SUBSET Ids] /\ SuccSet(g, b) \in SUBSET Ids
  BY SuccSetInIds
<1>2. PICK f \in [Nat -> SUBSET Ids] : f[0] = SuccSet(g, b) /\ \A n \in Nat : f[n + 1] = step[f[n]]
  <2> DEFINE S == SUBSET Ids
             a == SuccSet(g, b)
  <2>1. a \in S /\ step \in [S -> S]
    BY <1>1
  <2> HIDE DEF step, S, a
  <2>2. \E f \in [Nat -> S] : f[0] = a /\ \A n \in Nat : f[n + 1] = step[f[n]]
    BY <2>1, Recursion
  <2> QED
    BY <2>2 DEF S, a
<1>3. Rule(f)
  <2>1. ASSUME NEW n \in Nat, n # 0
        PROVE  f[n] = f[n - 1] \cup UNION {SuccSet(g, c) : c \in f[n - 1]}
    <3>1. n - 1 \in Nat /\ n = (n - 1) + 1
      BY <2>1
    <3>2. f[n] = step[f[n - 1]]
      BY <1>2, <3>1
    <3> QED
      BY <1>2, <3>1, <3>2
  <2> QED
    BY <1>2, <2>1
<1>4. R = CHOOSE x : Rule(x)
  OBVIOUS
<1>5. Rule(R)
  <2> HIDE DEF Rule
  <2> QED
    BY <1>3, <1>4
<1> HIDE DEF R
<1>6. R[0] = SuccSet(g, b)
  BY <1>5
<1>7. ASSUME NEW n \in Nat, R[n] \in SUBSET Ids PROVE R[n + 1] = step[R[n]]
  <2>1. n + 1 \in Nat /\ n + 1 # 0 /\ (n + 1) - 1 = n
    OBVIOUS
  <2>2. R[n + 1] = R[n] \cup UNION {SuccSet(g, c) : c \in R[n]}
    BY <1>5, <2>1
  <2> QED
    BY <1>7, <2>2
<1>8. ReachedFrom(g, b) = R[Cardinality(Ids)]
  BY DEF ReachedFrom, R
<1>9. IsIteration(Ids, SuccSet(g, b), step, R)
  BY <1>1, <1>6, <1>7 DEF IsIteration
<1> DEFINE Q == ReachedFrom(g, b)
<1>10. IsLeastFixpoint(Ids, SuccSet(g, b), step, Q)
  BY <1>8, <1>9, FiniteIds, Iterates
<1>11. \A c \in Q : SuccSet(g, c) \subseteq Q
  BY <1>10 DEF IsLeastFixpoint
<1>12. ASSUME NEW C \in SUBSET Ids, SuccSet(g, b) \subseteq C, \A c \in C : SuccSet(g, c) \subseteq C
       PROVE  Q \subseteq C
  <2>1. ASSUME NEW P \in SUBSET Ids, P \subseteq C PROVE step[P] \subseteq C
    BY <1>12, <2>1
  <2> HIDE DEF step
  <2> QED
    BY <1>10, <1>12, <2>1 DEF IsLeastFixpoint
<1> QED
  BY <1>10, <1>11, <1>12 DEF IsLeastFixpoint

\* The blocks that a path round the blocks of avoid leads to.
LEMMA ReachAvoidingLeast ==
  ASSUME NEW g \in Graphs, NEW b \in Ids, NEW avoid
  PROVE  /\ ReachAvoiding(g, b, avoid) \subseteq Ids /\ {b} \ avoid \subseteq ReachAvoiding(g, b, avoid)
         /\ \A c \in ReachAvoiding(g, b, avoid) : SuccSet(g, c) \ avoid \subseteq ReachAvoiding(g, b, avoid)
         /\ \A C \in SUBSET Ids :
              {b} \ avoid \subseteq C /\ (\A c \in C : SuccSet(g, c) \ avoid \subseteq C)
              => ReachAvoiding(g, b, avoid) \subseteq C
<1> DEFINE R[n \in Nat] == IF n = 0 THEN {b} \ avoid
                           ELSE LET P == R[n - 1] IN P \cup ((UNION {SuccSet(g, c) : c \in P}) \ avoid)
           step == [P \in SUBSET Ids |-> P \cup ((UNION {SuccSet(g, c) : c \in P}) \ avoid)]
           Rule(f) == f = [n \in Nat |-> IF n = 0 THEN {b} \ avoid
                           ELSE LET P == f[n - 1] IN P \cup ((UNION {SuccSet(g, c) : c \in P}) \ avoid)]
<1>1. step \in [SUBSET Ids -> SUBSET Ids] /\ {b} \ avoid \in SUBSET Ids
  BY SuccSetInIds
<1>2. PICK f \in [Nat -> SUBSET Ids] : f[0] = {b} \ avoid /\ \A n \in Nat : f[n + 1] = step[f[n]]
  <2> DEFINE S == SUBSET Ids
             a == {b} \ avoid
  <2>1. a \in S /\ step \in [S -> S]
    BY <1>1
  <2> HIDE DEF step, S, a
  <2>2. \E f \in [Nat -> S] : f[0] = a /\ \A n \in Nat : f[n + 1] = step[f[n]]
    BY <2>1, Recursion
  <2> QED
    BY <2>2 DEF S, a
<1>3. Rule(f)
  <2>1. ASSUME NEW n \in Nat, n # 0
        PROVE  f[n] = f[n - 1] \cup ((UNION {SuccSet(g, c) : c \in f[n - 1]}) \ avoid)
    <3>1. n - 1 \in Nat /\ n = (n - 1) + 1
      BY <2>1
    <3>2. f[n] = step[f[n - 1]]
      BY <1>2, <3>1
    <3> QED
      BY <1>2, <3>1, <3>2
  <2> QED
    BY <1>2, <2>1
<1>4. R = CHOOSE x : Rule(x)
  OBVIOUS
<1>5. Rule(R)
  <2> HIDE DEF Rule
  <2> QED
    BY <1>3, <1>4
<1> HIDE DEF R
<1>6. R[0] = {b} \ avoid
  BY <1>5
<1>7. ASSUME NEW n \in Nat, R[n] \in SUBSET Ids PROVE R[n + 1] = step[R[n]]
  <2>1. n + 1 \in Nat /\ n + 1 # 0 /\ (n + 1) - 1 = n
    OBVIOUS
  <2>2. R[n + 1] = R[n] \cup ((UNION {SuccSet(g, c) : c \in R[n]}) \ avoid)
    BY <1>5, <2>1
  <2> QED
    BY <1>7, <2>2
<1>8. ReachAvoiding(g, b, avoid) = R[Cardinality(Ids)]
  BY DEF ReachAvoiding, R
<1>9. IsIteration(Ids, {b} \ avoid, step, R)
  BY <1>1, <1>6, <1>7 DEF IsIteration
<1> DEFINE Q == ReachAvoiding(g, b, avoid)
<1>10. IsLeastFixpoint(Ids, {b} \ avoid, step, Q)
  BY <1>8, <1>9, FiniteIds, Iterates
<1>11. \A c \in Q : SuccSet(g, c) \ avoid \subseteq Q
  BY <1>10 DEF IsLeastFixpoint
<1>12. ASSUME NEW C \in SUBSET Ids, {b} \ avoid \subseteq C, \A c \in C : SuccSet(g, c) \ avoid \subseteq C
       PROVE  Q \subseteq C
  <2>1. ASSUME NEW P \in SUBSET Ids, P \subseteq C PROVE step[P] \subseteq C
    BY <1>12, <2>1
  <2> HIDE DEF step
  <2> QED
    BY <1>10, <1>12, <2>1 DEF IsLeastFixpoint
<1> QED
  BY <1>10, <1>11, <1>12 DEF IsLeastFixpoint

\* Reachable is the least set with Start that is closed under successors.
LEMMA ReachableFacts ==
  ASSUME NEW g \in Graphs
  PROVE  /\ Start \in Reachable(g) /\ Reachable(g) \subseteq Ids
         /\ \A b \in Reachable(g) : SuccSet(g, b) \subseteq Reachable(g)
         /\ \A C \in SUBSET Ids : Start \in C /\ (\A b \in C : SuccSet(g, b) \subseteq C)
                                => Reachable(g) \subseteq C
<1>1. Start \in Ids /\ {Start} \ {} = {Start} /\ \A b : SuccSet(g, b) \ {} = SuccSet(g, b)
  BY FlowGraphAssumption
<1>2. /\ {Start} \ {} \subseteq Reachable(g) /\ Reachable(g) \subseteq Ids
      /\ \A b \in Reachable(g) : SuccSet(g, b) \ {} \subseteq Reachable(g)
      /\ \A C \in SUBSET Ids : {Start} \ {} \subseteq C /\ (\A b \in C : SuccSet(g, b) \ {} \subseteq C)
                             => Reachable(g) \subseteq C
  BY <1>1, ReachAvoidingLeast DEF Reachable
<1> QED
  BY <1>1, <1>2

\* The same edges lead to the same blocks.
LEMMA SameEdgesSameReach ==
  ASSUME NEW g \in Graphs, NEW h \in Graphs, \A b \in Ids : SuccSet(g, b) = SuccSet(h, b)
  PROVE  \A b \in Ids : ReachedFrom(g, b) = ReachedFrom(h, b)
<1> SUFFICES ASSUME NEW b \in Ids PROVE ReachedFrom(g, b) = ReachedFrom(h, b)
  OBVIOUS
<1>1. ReachedFrom(g, b) \subseteq ReachedFrom(h, b)
  BY ReachedFromLeast
<1>2. ReachedFrom(h, b) \subseteq ReachedFrom(g, b)
  BY ReachedFromLeast
<1> QED
  BY <1>1, <1>2

\* What can be reached from the start block are the block itself and what its
\* edges lead to, so that any other of them has a predecessor that can be reached.
LEMMA ReachableFromStart ==
  ASSUME NEW g \in Graphs
  PROVE  Reachable(g) = {Start} \cup ReachedFrom(g, Start)
<1>s. Start \in Ids
  BY FlowGraphAssumption
<1> DEFINE C == {Start} \cup ReachedFrom(g, Start)
<1>1. C \in SUBSET Ids /\ Start \in C /\ \A b \in C : SuccSet(g, b) \subseteq C
  BY <1>s, ReachedFromLeast
<1>2. Reachable(g) \subseteq C
  <2> HIDE DEF C
  <2> QED
    BY <1>1, ReachableFacts
<1>3. /\ Start \in Reachable(g) /\ Reachable(g) \in SUBSET Ids
      /\ \A b \in Reachable(g) : SuccSet(g, b) \subseteq Reachable(g)
  BY ReachableFacts
<1>4. ReachedFrom(g, Start) \subseteq Reachable(g)
  BY <1>s, <1>3, ReachedFromLeast
<1> QED
  BY <1>2, <1>3, <1>4

LEMMA ReachablePredecessor ==
  ASSUME NEW g \in Graphs, NEW b \in Reachable(g), b # Start
  PROVE  \E c \in Reachable(g) : c # b /\ b \in SuccSet(g, c)
<1> SUFFICES ASSUME \A c \in Reachable(g) : c # b => b \notin SuccSet(g, c) PROVE FALSE
  OBVIOUS
<1> DEFINE C == Reachable(g) \ {b}
<1>1. C \in SUBSET Ids /\ Start \in C /\ \A c \in C : SuccSet(g, c) \subseteq C
  BY ReachableFacts
<1>2. Reachable(g) \subseteq C
  <2> HIDE DEF C
  <2> QED
    BY <1>1, ReachableFacts
<1> QED
  BY <1>2

\* Detours through one new block keep what the other blocks reach.
LEMMA DetoursKeepPaths ==
  ASSUME NEW g \in Graphs, NEW h \in Graphs, NEW B \in SUBSET Ids, NEW n \in Ids \ B,
         \A b \in B : SuccSet(g, b) \subseteq B, Detours(g, h, n, B)
  PROVE  \A b \in B : ReachedFrom(g, b) \cap B = ReachedFrom(h, b) \cap B
<1> SUFFICES ASSUME NEW b \in B PROVE ReachedFrom(g, b) \cap B = ReachedFrom(h, b) \cap B
  OBVIOUS
<1>1. b \in Ids
  OBVIOUS
<1>2. ReachedFrom(g, b) \subseteq ReachedFrom(h, b)
  <2> DEFINE C == ReachedFrom(h, b) \cap B
  <2>1. C \in SUBSET Ids
    OBVIOUS
  <2>2. SuccSet(g, b) \subseteq C
    BY <1>1, ReachedFromLeast DEF Detours
  <2>3. ASSUME NEW c \in C PROVE SuccSet(g, c) \subseteq C
    BY <1>1, <2>3, ReachedFromLeast DEF Detours
  <2>4. ReachedFrom(g, b) \subseteq C
    <3> HIDE DEF C
    <3> QED
      BY <1>1, <2>1, <2>2, <2>3, ReachedFromLeast
  <2> QED
    BY <2>4
<1>3. ReachedFrom(g, b) \subseteq B
  BY <1>1, ReachedFromLeast
<1>4. ReachedFrom(h, b) \ {n} \subseteq ReachedFrom(g, b)
  <2> DEFINE Q == ReachedFrom(g, b)
  <2> DEFINE C == Q \cup {x \in {n} : SuccSet(h, x) \subseteq Q}
  <2>q. SuccSet(g, b) \subseteq Q /\ Q \subseteq B /\ \A c \in Q : SuccSet(g, c) \subseteq Q
    BY <1>1, <1>3, ReachedFromLeast
  <2> HIDE DEF Q
  <2>1. C \in SUBSET Ids
    BY <2>q
  <2>2. SuccSet(h, b) \subseteq C
    BY <2>q DEF Detours
  <2>3. ASSUME NEW c \in C PROVE SuccSet(h, c) \subseteq C
    <3>1. CASE c \in Q
      BY <2>q, <3>1 DEF Detours
    <3> QED
      BY <3>1
  <2>4. ReachedFrom(h, b) \subseteq C
    <3> HIDE DEF C
    <3> QED
      BY <1>1, <2>1, <2>2, <2>3, ReachedFromLeast
  <2> QED
    BY <2>4 DEF Q
<1> QED
  BY <1>2, <1>4

-----------------------------------------------------------------------------
\* Sequences that grow and shrink at an end.

\* A sequence as the set of its elements.
LEMMA ToSetFacts ==
  ASSUME NEW S, NEW s \in Seq(S)
  PROVE  /\ ToSet(s) = {s[k] : k \in 1 .. Len(s)} /\ ToSet(s) \subseteq S
         /\ DOMAIN s = 1 .. Len(s) /\ Len(s) \in Nat
  BY DEF ToSet

\* Append, Front, Last, Head, Tail and \o by index, and what they do to the set
\* of the elements.
LEMMA AppendFacts ==
  ASSUME NEW S, NEW s \in Seq(S), NEW e \in S
  PROVE  /\ Append(s, e) \in Seq(S) /\ Len(Append(s, e)) = Len(s) + 1
         /\ Append(s, e)[Len(s) + 1] = e
         /\ \A k \in 1 .. Len(s) : Append(s, e)[k] = s[k]
         /\ ToSet(Append(s, e)) = ToSet(s) \cup {e}
<1>1. /\ Append(s, e) \in Seq(S) /\ Len(Append(s, e)) = Len(s) + 1
      /\ Append(s, e)[Len(s) + 1] = e
      /\ \A k \in 1 .. Len(s) : Append(s, e)[k] = s[k]
  OBVIOUS
<1>2. /\ ToSet(Append(s, e)) = {Append(s, e)[k] : k \in 1 .. Len(Append(s, e))}
      /\ ToSet(s) = {s[k] : k \in 1 .. Len(s)} /\ Len(s) \in Nat
  BY <1>1, ToSetFacts
<1>3. 1 .. Len(s) + 1 = 1 .. Len(s) \cup {Len(s) + 1}
  BY <1>2
<1>4. ToSet(Append(s, e)) = ToSet(s) \cup {e}
  BY <1>1, <1>2, <1>3
<1> QED
  BY <1>1, <1>4

LEMMA FrontFacts ==
  ASSUME NEW S, NEW s \in Seq(S), s # <<>>
  PROVE  /\ Front(s) \in Seq(S) /\ Len(Front(s)) = Len(s) - 1 /\ Len(s) \in Nat \ {0}
         /\ \A k \in 1 .. Len(s) - 1 : Front(s)[k] = s[k]
         /\ Last(s) = s[Len(s)] /\ Last(s) \in S
<1>1. Len(s) \in Nat \ {0} /\ \A k \in 1 .. Len(s) : s[k] \in S
  OBVIOUS
<1>2. /\ Front(s) \in Seq(S) /\ Len(Front(s)) = Len(s) - 1
      /\ \A k \in 1 .. Len(s) - 1 : Front(s)[k] = s[k]
  <2> DEFINE n == Len(s) - 1
  <2>1. /\ SubSeq(s, 1, n) \in Seq(S) /\ Len(SubSeq(s, 1, n)) = (IF 1 <= n THEN n - 1 + 1 ELSE 0)
        /\ \A i \in 1 .. n - 1 + 1 : SubSeq(s, 1, n)[i] = s[1 + i - 1]
    <3>1. n \in Int /\ 1 \in Int /\ \A i \in 1 .. n : s[i] \in S
      BY <1>1
    <3> HIDE DEF n
    <3> QED
      BY <3>1, SubSeqProperties
  <2>2. \A i \in 1 .. n : 1 + i - 1 = i
    OBVIOUS
  <2>3. n \in Nat /\ n - 1 + 1 = n /\ (IF 1 <= n THEN n - 1 + 1 ELSE 0) = n
    BY <1>1
  <2> HIDE DEF n
  <2>4. /\ SubSeq(s, 1, n) \in Seq(S) /\ Len(SubSeq(s, 1, n)) = n
        /\ \A i \in 1 .. n : SubSeq(s, 1, n)[i] = s[i]
    BY <2>1, <2>2, <2>3
  <2> QED
    BY <2>4 DEF Front, n
<1> QED
  BY <1>1, <1>2 DEF Last

\* A stack whose topmost record is replaced.
LEMMA ReplaceTop ==
  ASSUME NEW S, NEW s \in Seq(S), s # <<>>, NEW e \in S
  PROVE  LET r == Append(Front(s), e)
         IN  /\ r \in Seq(S) /\ Len(r) = Len(s) /\ r[Len(s)] = e
             /\ \A k \in 1 .. Len(s) - 1 : r[k] = s[k]
<1>1. /\ Front(s) \in Seq(S) /\ Len(Front(s)) = Len(s) - 1 /\ Len(s) \in Nat \ {0}
      /\ \A k \in 1 .. Len(s) - 1 : Front(s)[k] = s[k]
  BY FrontFacts
<1> QED
  BY <1>1, AppendFacts

LEMMA HeadTailFacts ==
  ASSUME NEW S, NEW s \in Seq(S), s # <<>>
  PROVE  /\ Head(s) \in S /\ Head(s) = s[1] /\ Tail(s) \in Seq(S)
         /\ Len(Tail(s)) = Len(s) - 1 /\ Len(s) \in Nat \ {0}
         /\ \A k \in 1 .. Len(s) - 1 : Tail(s)[k] = s[k + 1]
         /\ ToSet(s) = {Head(s)} \cup ToSet(Tail(s))
<1>1. /\ Head(s) \in S /\ Head(s) = s[1] /\ Tail(s) \in Seq(S)
      /\ Len(Tail(s)) = Len(s) - 1 /\ Len(s) \in Nat \ {0}
      /\ \A k \in 1 .. Len(s) - 1 : Tail(s)[k] = s[k + 1]
  OBVIOUS
<1>2. ASSUME NEW k \in 2 .. Len(s) PROVE s[k] = Tail(s)[k - 1] /\ k - 1 \in 1 .. Len(Tail(s))
  BY <1>1
<1>s. /\ ToSet(s) = {s[k] : k \in 1 .. Len(s)}
      /\ ToSet(Tail(s)) = {Tail(s)[k] : k \in 1 .. Len(Tail(s))}
  BY <1>1, ToSetFacts
<1>3. ToSet(s) \subseteq {Head(s)} \cup ToSet(Tail(s))
  <2> SUFFICES ASSUME NEW k \in 1 .. Len(s) PROVE s[k] \in {Head(s)} \cup ToSet(Tail(s))
    BY <1>s
  <2>1. CASE k = 1
    BY <1>1, <2>1
  <2>2. CASE k # 1
    <3>1. k \in 2 .. Len(s)
      BY <2>2
    <3> QED
      BY <1>2, <1>s, <3>1
  <2> QED
    BY <2>1, <2>2
<1>4. {Head(s)} \cup ToSet(Tail(s)) \subseteq ToSet(s)
  <2>1. ASSUME NEW k \in 1 .. Len(Tail(s)) PROVE Tail(s)[k] \in ToSet(s)
    BY <1>1, <1>s
  <2> QED
    BY <1>1, <1>s, <2>1
<1> QED
  BY <1>1, <1>3, <1>4

LEMMA ConcatFacts ==
  ASSUME NEW S, NEW s \in Seq(S), NEW t \in Seq(S)
  PROVE  /\ s \o t \in Seq(S) /\ Len(s \o t) = Len(s) + Len(t)
         /\ \A k \in 1 .. Len(s) : (s \o t)[k] = s[k]
         /\ \A k \in 1 .. Len(t) : (s \o t)[Len(s) + k] = t[k]
         /\ ToSet(s \o t) = ToSet(s) \cup ToSet(t)
<1>1. /\ s \o t \in Seq(S) /\ Len(s \o t) = Len(s) + Len(t)
      /\ \A k \in 1 .. Len(s) : (s \o t)[k] = s[k]
      /\ \A k \in 1 .. Len(t) : (s \o t)[Len(s) + k] = t[k]
  OBVIOUS
<1>s. /\ ToSet(s) = {s[k] : k \in 1 .. Len(s)} /\ ToSet(t) = {t[k] : k \in 1 .. Len(t)}
      /\ ToSet(s \o t) = {(s \o t)[k] : k \in 1 .. Len(s \o t)}
      /\ Len(s) \in Nat /\ Len(t) \in Nat
  BY <1>1, ToSetFacts
<1>2. ToSet(s) \cup ToSet(t) \subseteq ToSet(s \o t)
  <2>1. ASSUME NEW k \in 1 .. Len(s) PROVE s[k] \in ToSet(s \o t)
    BY <1>1, <1>s
  <2>2. ASSUME NEW k \in 1 .. Len(t) PROVE t[k] \in ToSet(s \o t)
    <3>1. Len(s) + k \in 1 .. Len(s \o t)
      BY <1>1, <1>s
    <3> QED
      BY <1>1, <1>s, <3>1
  <2> QED
    BY <1>s, <2>1, <2>2
<1>3. ToSet(s \o t) \subseteq ToSet(s) \cup ToSet(t)
  <2> SUFFICES ASSUME NEW k \in 1 .. Len(s) + Len(t) PROVE (s \o t)[k] \in ToSet(s) \cup ToSet(t)
    BY <1>1, <1>s
  <2>1. CASE k \in 1 .. Len(s)
    BY <1>1, <1>s, <2>1
  <2>2. CASE k \notin 1 .. Len(s)
    <3>1. k - Len(s) \in 1 .. Len(t) /\ k = Len(s) + (k - Len(s))
      BY <1>s, <2>2
    <3> QED
      BY <1>1, <1>s, <3>1
  <2> QED
    BY <2>1, <2>2
<1> QED
  BY <1>1, <1>2, <1>3

\* The lists of successors hold what the edges are.
LEMMA SuccessorsFacts ==
  ASSUME NEW g \in Graphs, NEW b \in Ids, NEW skip, None \in skip
  PROVE  LET list == SuccessorsBut(g, b, skip)
         IN  /\ list \in Seq(Ids) /\ Len(list) <= 2
             /\ ToSet(list) = SuccSet(g, b) \ skip
             /\ (\A s, t \in Slots : g.succs[b][s] = g.succs[b][t] => s = t \/ g.succs[b][s] = None)
                => IsInjective(list)
<1> DEFINE x == g.succs[b][0]
<1> DEFINE y == g.succs[b][1]
<1> DEFINE list == SuccessorsBut(g, b, skip)
<1>1. Slots = {0, 1} /\ FALLTHROUGH = 0 /\ BRANCH_TRUE = 1
  BY DEF Slots, FALLTHROUGH, BRANCH_TRUE
<1>2. x \in Ids \cup {None} /\ y \in Ids \cup {None} /\ SuccSet(g, b) = {x, y} \ {None}
  BY <1>1 DEF SuccSet, Graphs
<1>3. list = (IF x \in skip THEN <<>> ELSE <<x>>) \o (IF y \in skip THEN <<>> ELSE <<y>>)
  BY <1>1 DEF SuccessorsBut
<1> HIDE DEF list
<1>4. CASE x \in skip /\ y \in skip
  <2>1. list = <<>>
    BY <1>3, <1>4
  <2> QED
    BY <1>2, <1>4, <2>1 DEF list, ToSet, IsInjective
<1>5. CASE x \in skip /\ y \notin skip
  <2>1. list = <<y>>
    BY <1>3, <1>5
  <2> QED
    BY <1>2, <1>5, <2>1 DEF list, ToSet, IsInjective
<1>6. CASE x \notin skip /\ y \in skip
  <2>1. list = <<x>>
    BY <1>3, <1>6
  <2> QED
    BY <1>2, <1>6, <2>1 DEF list, ToSet, IsInjective
<1>7. CASE x \notin skip /\ y \notin skip
  <2>1. list = <<x, y>>
    <3>1. list = <<x>> \o <<y>>
      BY <1>3, <1>7
    <3>2. x \in Ids /\ y \in Ids
      BY <1>2, <1>7
    <3> HIDE DEF x, y
    <3>3. <<x>> \o <<y>> = <<x, y>>
      <4>1. <<x>> \in Seq(Ids) /\ <<y>> \in Seq(Ids) /\ <<x, y>> \in Seq(Ids)
            /\ Len(<<x>>) = 1 /\ Len(<<y>>) = 1 /\ Len(<<x, y>>) = 2
        BY <3>2
      <4>2. /\ <<x>> \o <<y>> \in Seq(Ids) /\ Len(<<x>> \o <<y>>) = 2
            /\ (<<x>> \o <<y>>)[1] = x /\ (<<x>> \o <<y>>)[2] = y
        BY <4>1
      <4>3. \A i \in 1 .. 2 : (<<x>> \o <<y>>)[i] = <<x, y>>[i]
        <5>1. \A i \in 1 .. 2 : i = 1 \/ i = 2
          OBVIOUS
        <5> QED
          BY <4>2, <5>1
      <4> QED
        BY <4>1, <4>2, <4>3, SeqEqual
    <3> QED
      BY <3>1, <3>3
  <2>2. x \in Ids /\ y \in Ids /\ list \in Seq(Ids) /\ Len(list) = 2
    BY <1>2, <1>7, <2>1
  <2>3. ToSet(list) = {x, y}
    BY <2>1 DEF ToSet
  <2>4. x # y => IsInjective(list)
    BY <2>1 DEF IsInjective
  <2> QED
    BY <1>1, <1>2, <1>7, <2>2, <2>3, <2>4 DEF list
<1> QED
  BY <1>4, <1>5, <1>6, <1>7

-----------------------------------------------------------------------------
\* What the walk of Preorder does next, and W[n], what it comes to in n steps.
PreState(m, t) == [met |-> m, todo |-> t]

PreStep(g, w) ==
  IF w.todo = <<>> THEN w
  ELSE IF Head(w.todo) \in ToSet(w.met) THEN [w EXCEPT !.todo = Tail(@)]
  ELSE [met  |-> Append(w.met, Head(w.todo)),
        todo |-> GetSuccessors(g, Head(w.todo)) \o Tail(w.todo)]

IsPreWalk(g, W) ==
  /\ W[0] = PreState(<<>>, <<Start>>)
  /\ \A n \in Nat : W[n + 1] = PreStep(g, W[n])

\* The three cases of a step of the walk: nothing is left, the next block has
\* been met, and the next block is new.
LEMMA PreStays ==
  ASSUME NEW g, NEW m
  PROVE  PreStep(g, PreState(m, <<>>)) = PreState(m, <<>>)
<1> DEFINE w == PreState(m, <<>>)
<1>1. w.todo = <<>>
  BY DEF PreState
<1> HIDE DEF w
<1>2. PreStep(g, w) = w
  BY <1>1, Zenon DEF PreStep
<1> QED
  BY <1>2 DEF w

\* b comes first in t, and r follows.
Splits(t, b, r) == t # <<>> /\ Head(t) = b /\ Tail(t) = r

LEMMA PrePasses ==
  ASSUME NEW g, NEW m, NEW t, NEW b, NEW r, Splits(t, b, r), b \in ToSet(m)
  PROVE  PreStep(g, PreState(m, t)) = PreState(m, r)
<1> DEFINE w == PreState(m, t)
<1>1. w.met = m /\ w.todo = t /\ [w EXCEPT !.todo = r] = PreState(m, r)
  BY DEF PreState
<1> HIDE DEF w
<1>2. [w EXCEPT !.todo = Tail(@)] = PreState(m, r)
  BY <1>1, Zenon DEF Splits
<1>3. w.todo # <<>> /\ Head(w.todo) \in ToSet(w.met)
  BY <1>1, Zenon DEF Splits
<1>4. PreStep(g, w) = [w EXCEPT !.todo = Tail(@)]
  BY <1>3, Zenon DEF PreStep
<1>5. PreStep(g, w) = PreState(m, r)
  BY <1>2, <1>4, Zenon
<1> QED
  BY <1>5 DEF w

LEMMA PreMeets ==
  ASSUME NEW g, NEW m, NEW t, NEW b, NEW r, Splits(t, b, r), b \notin ToSet(m)
  PROVE  PreStep(g, PreState(m, t)) = PreState(Append(m, b), GetSuccessors(g, b) \o r)
<1> DEFINE w == PreState(m, t)
<1>1. w.met = m /\ w.todo = t
  BY DEF PreState
<1> HIDE DEF w
<1>2. w.todo # <<>> /\ Head(w.todo) \notin ToSet(w.met)
  BY <1>1, Zenon DEF Splits
<1>3. PreStep(g, w) = [met  |-> Append(w.met, Head(w.todo)),
                       todo |-> GetSuccessors(g, Head(w.todo)) \o Tail(w.todo)]
  BY <1>2, Zenon DEF PreStep
<1>4. PreStep(g, w) = [met |-> Append(m, b), todo |-> GetSuccessors(g, b) \o r]
  BY <1>1, <1>3, Zenon DEF Splits
<1> QED
  BY <1>4 DEF w, PreState

\* The successors of a block as the walk takes them.
LEMMA SuccessorsInIds ==
  ASSUME NEW g \in Graphs, NEW b \in Ids
  PROVE  /\ GetSuccessors(g, b) \in Seq(Ids) /\ Len(GetSuccessors(g, b)) <= 2
         /\ Len(GetSuccessors(g, b)) \in Nat /\ ToSet(GetSuccessors(g, b)) = SuccSet(g, b)
<1>1. None \in {None} /\ SuccSet(g, b) \ {None} = SuccSet(g, b)
  BY DEF SuccSet
<1>2. /\ GetSuccessors(g, b) \in Seq(Ids) /\ Len(GetSuccessors(g, b)) <= 2
      /\ ToSet(GetSuccessors(g, b)) = SuccSet(g, b)
  BY <1>1, SuccessorsFacts DEF GetSuccessors
<1> QED
  BY <1>2, ToSetFacts

\* Preorder is the list such a walk has after 2 * Cardinality(Ids) + 1 steps.
LEMMA PreorderWalk ==
  ASSUME NEW g \in Graphs
  PROVE  \E W : IsPreWalk(g, W) /\ Preorder(g) = W[2 * Cardinality(Ids) + 1].met
<1> DEFINE S == [met : Seq(Ids), todo : Seq(Ids)]
           a == PreState(<<>>, <<Start>>)
           step == [w \in S |-> PreStep(g, w)]
<1> DEFINE Walk[n \in Nat] ==
             IF n = 0 THEN [met |-> <<>>, todo |-> <<Start>>]
             ELSE LET w == Walk[n - 1] IN
                  IF w.todo = <<>> THEN w
                  ELSE IF Head(w.todo) \in ToSet(w.met) THEN [w EXCEPT !.todo = Tail(@)]
                  ELSE [met  |-> Append(w.met, Head(w.todo)),
                        todo |-> GetSuccessors(g, Head(w.todo)) \o Tail(w.todo)]
           Rule(f) == f = [n \in Nat |->
             IF n = 0 THEN [met |-> <<>>, todo |-> <<Start>>]
             ELSE LET w == f[n - 1] IN
                  IF w.todo = <<>> THEN w
                  ELSE IF Head(w.todo) \in ToSet(w.met) THEN [w EXCEPT !.todo = Tail(@)]
                  ELSE [met  |-> Append(w.met, Head(w.todo)),
                        todo |-> GetSuccessors(g, Head(w.todo)) \o Tail(w.todo)]]
<1>s. /\ \A m, t \in Seq(Ids) : PreState(m, t) \in S
      /\ \A w \in S : \E m, t \in Seq(Ids) : w = PreState(m, t)
  <2>1. \A w \in S : w.met \in Seq(Ids) /\ w.todo \in Seq(Ids) /\ w = PreState(w.met, w.todo)
    BY DEF PreState
  <2>2. \A m, t \in Seq(Ids) : PreState(m, t) \in S
    BY DEF PreState
  <2> QED
    BY <2>1, <2>2
<1> HIDE DEF S
<1>1. a \in S
  <2>1. <<>> \in Seq(Ids) /\ <<Start>> \in Seq(Ids)
    BY FlowGraphAssumption
  <2> QED
    BY <1>s, <2>1
<1>2. ASSUME NEW w \in S PROVE PreStep(g, w) \in S
  <2>1. PICK m \in Seq(Ids), t \in Seq(Ids) : w = PreState(m, t)
    BY <1>s
  <2>2. CASE t = <<>>
    <3>1. PreStep(g, PreState(m, t)) = PreState(m, t)
      BY <2>2, PreStays
    <3> QED
      BY <2>1, <3>1
  <2>3. CASE t # <<>> /\ Head(t) \in ToSet(m)
    <3>1. PreStep(g, PreState(m, t)) = PreState(m, Tail(t))
      <4>1. Splits(t, Head(t), Tail(t))
        BY <2>3 DEF Splits
      <4> QED
        BY <2>3, <4>1, PrePasses
    <3>2. Tail(t) \in Seq(Ids)
      BY <2>3, HeadTailFacts
    <3> QED
      BY <1>s, <2>1, <3>1, <3>2
  <2>4. CASE t # <<>> /\ Head(t) \notin ToSet(m)
    <3>1. PreStep(g, PreState(m, t)) = PreState(Append(m, Head(t)), GetSuccessors(g, Head(t)) \o Tail(t))
      <4>1. Splits(t, Head(t), Tail(t))
        BY <2>4 DEF Splits
      <4> QED
        BY <2>4, <4>1, PreMeets
    <3>2. Head(t) \in Ids /\ Tail(t) \in Seq(Ids)
      BY <2>4, HeadTailFacts
    <3>3. GetSuccessors(g, Head(t)) \in Seq(Ids)
      BY <3>2, SuccessorsInIds
    <3>4. Append(m, Head(t)) \in Seq(Ids) /\ GetSuccessors(g, Head(t)) \o Tail(t) \in Seq(Ids)
      BY <3>2, <3>3
    <3> QED
      BY <1>s, <2>1, <3>1, <3>4
  <2> QED
    BY <2>2, <2>3, <2>4
<1>3. PICK f : IsRun(S, a, step, f)
  <2>1. step \in [S -> S]
    BY <1>2
  <2> HIDE DEF S, a, step
  <2> QED
    BY <1>1, <2>1, RunExists
<1>4. /\ f = [n \in Nat |-> f[n]] /\ f[0] = PreState(<<>>, <<Start>>)
      /\ \A n \in Nat : f[n + 1] = PreStep(g, f[n])
  <2> HIDE DEF S
  <2> QED
    BY <1>3 DEF IsRun
<1>5. Rule(f)
  <2>1. ASSUME NEW n \in Nat, n # 0 PROVE f[n] = PreStep(g, f[n - 1])
    <3>1. n - 1 \in Nat /\ n = (n - 1) + 1
      BY <2>1
    <3> QED
      BY <1>4, <3>1
  <2>2. ASSUME NEW n \in Nat
        PROVE  f[n] = IF n = 0 THEN [met |-> <<>>, todo |-> <<Start>>] ELSE PreStep(g, f[n - 1])
    BY <1>4, <2>1 DEF PreState
  <2> HIDE DEF step, S
  <2> QED
    BY <1>4, <2>2, Zenon DEF PreStep
<1>6. Walk = CHOOSE f_1 : Rule(f_1)
  OBVIOUS
<1>7. Rule(Walk)
  <2> HIDE DEF Rule, Walk
  <2> QED
    BY <1>5, <1>6
<1>8. Preorder(g) = Walk[2 * Cardinality(Ids) + 1].met
  BY DEF Preorder, Walk
<1> HIDE DEF Walk
<1>9. Walk[0] = PreState(<<>>, <<Start>>)
  BY <1>7 DEF PreState
<1>10. ASSUME NEW n \in Nat PROVE Walk[n + 1] = PreStep(g, Walk[n])
  <2>1. n + 1 \in Nat /\ n + 1 # 0 /\ (n + 1) - 1 = n
    OBVIOUS
  <2> QED
    BY <1>7, <2>1, Zenon DEF PreStep
<1>11. IsPreWalk(g, Walk)
  BY <1>9, <1>10 DEF IsPreWalk
<1> QED
  BY <1>8, <1>11

\* Every block of the list, the start block excepted, is behind one that leads to it.
Led(g, list) ==
  \A k \in 1 .. Len(list) :
    list[k] = Start \/ \E j \in 1 .. k - 1 : list[k] \in SuccSet(g, list[j])

\* So it stays when a block comes that some block of the list leads to.
LEMMA LedFurther ==
  ASSUME NEW g, NEW m \in Seq(Ids), NEW b \in Ids, b \notin ToSet(m), IsInjective(m), Led(g, m),
         b = Start \/ \E c \in ToSet(m) : b \in SuccSet(g, c)
  PROVE  IsInjective(Append(m, b)) /\ Led(g, Append(m, b))
<1> DEFINE l == Append(m, b)
<1>1. /\ l \in Seq(Ids) /\ Len(l) = Len(m) + 1 /\ l[Len(m) + 1] = b /\ Len(m) \in Nat
      /\ \A k \in 1 .. Len(m) : l[k] = m[k]
  BY AppendFacts
<1>2. /\ ToSet(m) = {m[k] : k \in 1 .. Len(m)} /\ DOMAIN m = 1 .. Len(m)
      /\ DOMAIN l = 1 .. Len(m) + 1
  BY <1>1, ToSetFacts
<1> HIDE DEF l
<1>3. \A k \in 1 .. Len(m) + 1 : k \in 1 .. Len(m) \/ k = Len(m) + 1
  BY <1>1
<1>4. IsInjective(l)
  <2>1. \A j, k \in 1 .. Len(m) : m[j] = m[k] => j = k
    BY <1>2 DEF IsInjective
  <2>2. ASSUME NEW j \in 1 .. Len(m) + 1, NEW k \in 1 .. Len(m) + 1, l[j] = l[k] PROVE j = k
    BY <1>1, <1>2, <1>3, <2>1, <2>2
  <2> QED
    BY <1>2, <2>2 DEF IsInjective
<1>5. ASSUME NEW k \in 1 .. Len(m)
      PROVE  l[k] = Start \/ \E j \in 1 .. k - 1 : l[k] \in SuccSet(g, l[j])
  <2>1. m[k] = Start \/ \E j \in 1 .. k - 1 : m[k] \in SuccSet(g, m[j])
    BY DEF Led
  <2>2. \A j \in 1 .. k - 1 : l[j] = m[j]
    BY <1>1
  <2> QED
    BY <1>1, <2>1, <2>2
<1>6. b = Start \/ \E j \in 1 .. (Len(m) + 1) - 1 : b \in SuccSet(g, l[j])
  <2>1. CASE b # Start
    <3>1. PICK j \in 1 .. Len(m) : b \in SuccSet(g, m[j])
      BY <1>2, <2>1
    <3>2. j \in 1 .. (Len(m) + 1) - 1 /\ l[j] = m[j]
      BY <1>1
    <3> QED
      BY <3>1, <3>2
  <2> QED
    BY <2>1
<1>7. Led(g, l)
  BY <1>1, <1>3, <1>5, <1>6 DEF Led
<1> QED
  BY <1>4, <1>7 DEF l

\* After n steps the walk has met m and has t to look at.
WalkOK(g, n, m, t) ==
  /\ m \in Seq(Ids) /\ t \in Seq(Ids) /\ IsInjective(m) /\ Led(g, m)
  /\ \A b \in ToSet(t) : b = Start \/ \E c \in ToSet(m) : b \in SuccSet(g, c)
  /\ ToSet(m) \cup ToSet(t) \subseteq Reachable(g) /\ Start \in ToSet(m) \cup ToSet(t)
  /\ \A b \in ToSet(m) : SuccSet(g, b) \subseteq ToSet(m) \cup ToSet(t)
  /\ t = <<>> \/ n + Len(t) <= 1 + 2 * Cardinality(ToSet(m))

LEMMA WalkStep ==
  ASSUME NEW g \in Graphs, NEW n \in Nat, NEW m, NEW t, WalkOK(g, n, m, t)
  PROVE  \E mm, tt : PreStep(g, PreState(m, t)) = PreState(mm, tt) /\ WalkOK(g, n + 1, mm, tt)
<1>1. CASE t = <<>>
  <2>1. WalkOK(g, n + 1, m, t)
    BY <1>1 DEF WalkOK
  <2> QED
    BY <1>1, <2>1, PreStays
<1>2. CASE t # <<>>
  <2> DEFINE b == Head(t)
             r == Tail(t)
             M == ToSet(m)
             c == Cardinality(ToSet(m))
  <2>1. /\ b \in Ids /\ r \in Seq(Ids) /\ Len(t) = Len(r) + 1 /\ Len(r) \in Nat
        /\ ToSet(t) = {b} \cup ToSet(r) /\ Splits(t, b, r)
    <3>1. t \in Seq(Ids)
      BY DEF WalkOK
    <3>2. /\ Head(t) \in Ids /\ Tail(t) \in Seq(Ids) /\ Len(Tail(t)) = Len(t) - 1 /\ Len(t) \in Nat \ {0}
          /\ ToSet(t) = {Head(t)} \cup ToSet(Tail(t))
      BY <1>2, <3>1, HeadTailFacts
    <3> QED
      BY <1>2, <3>2 DEF Splits
  <2> HIDE DEF b, r
  <2>2. /\ m \in Seq(Ids) /\ M \cup {b} \cup ToSet(r) \subseteq Reachable(g)
        /\ Start \in M \cup {b} \cup ToSet(r)
        /\ \A d \in M : SuccSet(g, d) \subseteq M \cup {b} \cup ToSet(r)
        /\ n + Len(r) + 1 <= 1 + 2 * c
        /\ IsInjective(m) /\ Led(g, m)
        /\ \A d \in {b} \cup ToSet(r) : d = Start \/ \E e \in M : d \in SuccSet(g, e)
    BY <1>2, <2>1 DEF WalkOK
  <2>3. IsFiniteSet(M) /\ c \in Nat
    <3>1. M \subseteq Ids
      BY <2>2, ToSetFacts
    <3> QED
      BY <3>1, FiniteIds, FS_Subset, FS_CardinalityType
  <2>4. CASE b \in M
    <3>1. PreStep(g, PreState(m, t)) = PreState(m, r)
      BY <2>1, <2>4, PrePasses
    <3>2. WalkOK(g, n + 1, m, r)
      BY <2>1, <2>2, <2>3, <2>4 DEF WalkOK
    <3> QED
      BY <3>1, <3>2
  <2>5. CASE b \notin M
    <3> DEFINE l == GetSuccessors(g, b)
               mm == Append(m, b)
               tt == l \o r
    <3>1. PreStep(g, PreState(m, t)) = PreState(mm, tt)
      BY <2>1, <2>5, PreMeets
    <3>2. l \in Seq(Ids) /\ Len(l) <= 2 /\ Len(l) \in Nat /\ ToSet(l) = SuccSet(g, b)
      BY <2>1, SuccessorsInIds
    <3> HIDE DEF l
    <3>3. tt \in Seq(Ids) /\ Len(tt) = Len(l) + Len(r) /\ ToSet(tt) = ToSet(l) \cup ToSet(r)
      BY <2>1, <3>2, ConcatFacts
    <3>4. mm \in Seq(Ids) /\ ToSet(mm) = M \cup {b}
      BY <2>1, <2>2, AppendFacts
    <3>5. Cardinality(M \cup {b}) = c + 1
      BY <2>3, <2>5, FS_AddElement
    <3>9. IsInjective(mm) /\ Led(g, mm)
      BY <2>1, <2>2, <2>5, LedFurther
    <3> HIDE DEF tt, mm, M, c
    <3>10. \A d \in ToSet(tt) : d = Start \/ \E e \in ToSet(mm) : d \in SuccSet(g, e)
      BY <2>2, <3>2, <3>3, <3>4
    <3>6. SuccSet(g, b) \subseteq Reachable(g)
      BY <2>2, ReachableFacts
    <3>7. n + 1 + Len(tt) <= 1 + 2 * (c + 1)
      BY <2>1, <2>2, <2>3, <3>2, <3>3
    <3>8. WalkOK(g, n + 1, mm, tt)
      BY <2>2, <3>2, <3>3, <3>4, <3>5, <3>6, <3>7, <3>9, <3>10 DEF WalkOK
    <3> QED
      BY <3>1, <3>8
  <2> QED
    BY <2>4, <2>5
<1> QED
  BY <1>1, <1>2

\* Preorder lists the blocks that can be reached, each once, behind one that leads to it.
LEMMA PreorderLists ==
  ASSUME NEW g \in Graphs
  PROVE  /\ Preorder(g) \in Seq(Ids) /\ ToSet(Preorder(g)) = Reachable(g)
         /\ IsInjective(Preorder(g)) /\ Led(g, Preorder(g))
<1>1. PICK W : IsPreWalk(g, W) /\ Preorder(g) = W[2 * Cardinality(Ids) + 1].met
  BY PreorderWalk
<1> DEFINE A == {n \in Nat : \E m, t : W[n] = PreState(m, t) /\ WalkOK(g, n, m, t)}
<1>2. 0 \in A
  <2> DEFINE m == <<>>
             t == <<Start>>
  <2>1. /\ m \in Seq(Ids) /\ t \in Seq(Ids) /\ Len(t) = 1 /\ ToSet(m) = {} /\ ToSet(t) = {Start}
    BY FlowGraphAssumption DEF ToSet
  <2>2. W[0] = PreState(m, t) /\ Start \in Reachable(g) /\ Cardinality({}) = 0
    BY <1>1, ReachableFacts, FS_EmptySet DEF IsPreWalk
  <2>4. IsInjective(m) /\ Led(g, m)
    BY DEF IsInjective, Led
  <2> HIDE DEF m, t
  <2>3. WalkOK(g, 0, m, t)
    BY <2>1, <2>2, <2>4 DEF WalkOK
  <2> QED
    BY <2>2, <2>3
<1>3. ASSUME NEW n \in Nat, n \in A PROVE n + 1 \in A
  <2>1. PICK m, t : W[n] = PreState(m, t) /\ WalkOK(g, n, m, t)
    BY <1>3
  <2>2. W[n + 1] = PreStep(g, W[n])
    BY <1>1 DEF IsPreWalk
  <2>3. PICK mm, tt : PreStep(g, PreState(m, t)) = PreState(mm, tt) /\ WalkOK(g, n + 1, mm, tt)
    BY <2>1, WalkStep
  <2>4. W[n + 1] = PreState(mm, tt)
    BY <2>1, <2>2, <2>3
  <2> QED
    BY <2>3, <2>4
<1>4. Nat \subseteq A
  <2> HIDE DEF A
  <2> QED
    BY <1>2, <1>3, SetInduction
<1> DEFINE N == 2 * Cardinality(Ids) + 1
<1>5. Cardinality(Ids) \in Nat /\ N \in Nat
  BY FiniteIds, FS_CardinalityType
<1>6. PICK m, t : W[N] = PreState(m, t) /\ WalkOK(g, N, m, t)
  BY <1>4, <1>5
<1>7. Preorder(g) = m
  BY <1>1, <1>6 DEF PreState
<1>8. t = <<>>
  <2>1. ToSet(m) \subseteq Ids
    BY <1>6, ToSetFacts DEF WalkOK
  <2>2. Cardinality(ToSet(m)) <= Cardinality(Ids) /\ Cardinality(ToSet(m)) \in Nat
    BY <2>1, FiniteIds, FS_Subset, FS_CardinalityType
  <2>3. t \in Seq(Ids) /\ (t = <<>> \/ N + Len(t) <= 1 + 2 * Cardinality(ToSet(m)))
    BY <1>6 DEF WalkOK
  <2> QED
    BY <1>5, <2>2, <2>3
<1>9. /\ m \in Seq(Ids) /\ ToSet(m) \subseteq Reachable(g) /\ Start \in ToSet(m) /\ ToSet(m) \subseteq Ids
      /\ \A b \in ToSet(m) : SuccSet(g, b) \subseteq ToSet(m)
      /\ IsInjective(m) /\ Led(g, m)
  BY <1>6, <1>8, ToSetFacts DEF WalkOK, ToSet
<1> QED
  BY <1>7, <1>9, ReachableFacts

-----------------------------------------------------------------------------
\* A concatenation starts with its first part.
LEMMA HeadTailOfConcat ==
  ASSUME NEW S, NEW s \in Seq(S), NEW t \in Seq(S), s # <<>>
  PROVE  /\ s \o t # <<>> /\ Head(s \o t) = Head(s) /\ Tail(s \o t) = Tail(s) \o t
         /\ s \o t \in Seq(S) /\ Tail(s) \o t \in Seq(S)
         /\ Len(Tail(s) \o t) \in Nat /\ Len(s \o t) = Len(Tail(s) \o t) + 1
<1> DEFINE c == s \o t
           d == Tail(s) \o t
           e == Tail(s)
<1>1. /\ Head(s) = s[1] /\ e \in Seq(S) /\ Len(e) = Len(s) - 1 /\ Len(s) \in Nat \ {0}
      /\ Len(t) \in Nat /\ \A k \in 1 .. Len(s) - 1 : e[k] = s[k + 1]
  BY HeadTailFacts, ToSetFacts
<1>2. /\ c \in Seq(S) /\ Len(c) = Len(s) + Len(t)
      /\ \A k \in 1 .. Len(s) : c[k] = s[k]
      /\ \A k \in 1 .. Len(t) : c[Len(s) + k] = t[k]
  BY ConcatFacts
<1>3. /\ d \in Seq(S) /\ Len(d) = Len(e) + Len(t)
      /\ \A k \in 1 .. Len(e) : d[k] = e[k]
      /\ \A k \in 1 .. Len(t) : d[Len(e) + k] = t[k]
  <2> HIDE DEF e
  <2> QED
    BY <1>1, ConcatFacts
<1> HIDE DEF c, d, e
<1>4. c # <<>> /\ Len(d) \in Nat /\ Len(c) = Len(d) + 1
  BY <1>1, <1>2, <1>3
<1>5. /\ Head(c) = c[1] /\ Tail(c) \in Seq(S) /\ Len(Tail(c)) = Len(d)
      /\ \A k \in 1 .. Len(d) : Tail(c)[k] = c[k + 1]
  BY <1>2, <1>4, HeadTailFacts
<1>6. Head(c) = Head(s)
  <2>1. 1 \in 1 .. Len(s)
    BY <1>1
  <2> QED
    BY <1>1, <1>2, <1>5, <2>1
<1>7. ASSUME NEW k \in 1 .. Len(d) PROVE c[k + 1] = d[k]
  <2>1. CASE k \in 1 .. Len(e)
    <3>1. k + 1 \in 1 .. Len(s) /\ k \in 1 .. Len(s) - 1
      BY <1>1, <2>1
    <3> QED
      BY <1>1, <1>2, <1>3, <2>1, <3>1
  <2>2. CASE k \notin 1 .. Len(e)
    <3>1. PICK j \in 1 .. Len(t) : k = Len(e) + j /\ k + 1 = Len(s) + j
      <4>1. /\ k - Len(e) \in 1 .. Len(t) /\ k = Len(e) + (k - Len(e))
            /\ k + 1 = Len(s) + (k - Len(e))
        BY <1>1, <1>3, <2>2
      <4> QED
        BY <4>1
    <3> QED
      BY <1>2, <1>3, <3>1
  <2> QED
    BY <2>1, <2>2
<1>8. Tail(c) = d
  BY <1>3, <1>4, <1>5, <1>7, SeqEqual
<1> QED
  BY <1>2, <1>3, <1>4, <1>6, <1>8 DEF c, d, e

\* The walk of Postorder: a block that was entered has its successors to enter, and
\* is then to be left.

Entering(b) == [bb |-> b, leave |-> FALSE]
Leaving(b) == [bb |-> b, leave |-> TRUE]
Items == [bb : Ids, leave : BOOLEAN]

Enters(list) == [k \in DOMAIN list |-> Entering(list[k])]

Pending(b, list) == Enters(list) \o <<Leaving(b)>>

PostState(m, l, t) == [met |-> m, left |-> l, todo |-> t]

PostStep(g, w) ==
  IF w.todo = <<>> THEN w
  ELSE IF Head(w.todo).leave
       THEN [met |-> w.met, left |-> Append(w.left, Head(w.todo).bb), todo |-> Tail(w.todo)]
  ELSE IF Head(w.todo).bb \in w.met THEN [w EXCEPT !.todo = Tail(@)]
  ELSE [met  |-> w.met \cup {Head(w.todo).bb},
        left |-> w.left,
        todo |-> Pending(Head(w.todo).bb, GetSuccessors(g, Head(w.todo).bb)) \o Tail(w.todo)]

IsPostWalk(g, W) ==
  /\ W[0] = PostState({}, <<>>, <<Entering(Start)>>)
  /\ \A n \in Nat : W[n + 1] = PostStep(g, W[n])

\* The items the walk of Postorder keeps: blocks to enter and blocks to leave.
LEMMA ItemFacts ==
  /\ \A b : Entering(b).bb = b /\ Entering(b).leave = FALSE /\ Leaving(b).bb = b /\ Leaving(b).leave = TRUE
  /\ \A b \in Ids : Entering(b) \in Items /\ Leaving(b) \in Items
  /\ \A i \in Items : i.bb \in Ids /\ (i = Entering(i.bb) \/ i = Leaving(i.bb))
<1>1. \A b : Entering(b).bb = b /\ Entering(b).leave = FALSE /\ Leaving(b).bb = b /\ Leaving(b).leave = TRUE
  BY DEF Entering, Leaving
<1>2. \A b \in Ids : Entering(b) \in Items /\ Leaving(b) \in Items
  BY DEF Entering, Leaving, Items
<1>3. ASSUME NEW i \in Items PROVE i.bb \in Ids /\ (i = Entering(i.bb) \/ i = Leaving(i.bb))
  <2>1. i.bb \in Ids /\ i.leave \in BOOLEAN /\ i = [bb |-> i.bb, leave |-> i.leave]
    BY DEF Items
  <2>2. CASE i.leave = TRUE
    BY <2>1, <2>2 DEF Leaving
  <2>3. CASE i.leave = FALSE
    BY <2>1, <2>3 DEF Entering
  <2> QED
    BY <2>1, <2>2, <2>3
<1> QED
  BY <1>1, <1>2, <1>3

\* The four cases of a step of the walk: nothing is left, a block is left, the
\* block to enter has been met, and the block to enter is new.
LEMMA PostStays ==
  ASSUME NEW g, NEW m, NEW l
  PROVE  PostStep(g, PostState(m, l, <<>>)) = PostState(m, l, <<>>)
<1> DEFINE w == PostState(m, l, <<>>)
<1>1. w.todo = <<>>
  BY DEF PostState
<1> HIDE DEF w
<1>2. PostStep(g, w) = w
  BY <1>1, Zenon DEF PostStep
<1> QED
  BY <1>2 DEF w

LEMMA PostLeaves ==
  ASSUME NEW g, NEW m, NEW l, NEW t, NEW b, NEW r, Splits(t, Leaving(b), r)
  PROVE  PostStep(g, PostState(m, l, t)) = PostState(m, Append(l, b), r)
<1> DEFINE w == PostState(m, l, t)
<1>1. w.met = m /\ w.left = l /\ w.todo = t
  BY DEF PostState
<1>2. Leaving(b).leave /\ Leaving(b).bb = b
  BY ItemFacts
<1> HIDE DEF w
<1>3. w.todo # <<>> /\ Head(w.todo) = Leaving(b) /\ Tail(w.todo) = r
  BY <1>1, Zenon DEF Splits
<1>4. Head(w.todo).leave /\ Head(w.todo).bb = b
  BY <1>2, <1>3, Zenon
<1>5. PostStep(g, w)
      = [met |-> w.met, left |-> Append(w.left, Head(w.todo).bb), todo |-> Tail(w.todo)]
  BY <1>3, <1>4, Zenon DEF PostStep
<1>6. PostStep(g, w) = [met |-> m, left |-> Append(l, b), todo |-> r]
  BY <1>1, <1>3, <1>4, <1>5, Zenon
<1> QED
  BY <1>6 DEF w, PostState

LEMMA PostPasses ==
  ASSUME NEW g, NEW m, NEW l, NEW t, NEW b, NEW r, Splits(t, Entering(b), r), b \in m
  PROVE  PostStep(g, PostState(m, l, t)) = PostState(m, l, r)
<1> DEFINE w == PostState(m, l, t)
<1>1. /\ w.met = m /\ w.todo = t
      /\ [w EXCEPT !.todo = r] = PostState(m, l, r)
  BY DEF PostState
<1>2. ~ Entering(b).leave /\ Entering(b).bb = b
  BY ItemFacts
<1> HIDE DEF w
<1>3. w.todo # <<>> /\ Head(w.todo) = Entering(b) /\ Tail(w.todo) = r
  BY <1>1, Zenon DEF Splits
<1>4. ~ Head(w.todo).leave /\ Head(w.todo).bb \in w.met
  BY <1>1, <1>2, <1>3, Zenon
<1>5. PostStep(g, w) = [w EXCEPT !.todo = Tail(@)]
  BY <1>3, <1>4, Zenon DEF PostStep
<1>6. PostStep(g, w) = PostState(m, l, r)
  BY <1>1, <1>3, <1>5, Zenon
<1> QED
  BY <1>6 DEF w

LEMMA PostMeets ==
  ASSUME NEW g, NEW m, NEW l, NEW t, NEW b, NEW r, Splits(t, Entering(b), r), b \notin m
  PROVE  PostStep(g, PostState(m, l, t))
         = PostState(m \cup {b}, l, Pending(b, GetSuccessors(g, b)) \o r)
<1> DEFINE w == PostState(m, l, t)
<1>1. w.met = m /\ w.left = l /\ w.todo = t
  BY DEF PostState
<1>2. ~ Entering(b).leave /\ Entering(b).bb = b
  BY ItemFacts
<1> HIDE DEF w
<1>3. w.todo # <<>> /\ Head(w.todo) = Entering(b) /\ Tail(w.todo) = r
  BY <1>1, Zenon DEF Splits
<1>4. ~ Head(w.todo).leave /\ Head(w.todo).bb = b /\ Head(w.todo).bb \notin w.met
  BY <1>1, <1>2, <1>3, Zenon
<1>5. PostStep(g, w)
      = [met  |-> w.met \cup {Head(w.todo).bb},
         left |-> w.left,
         todo |-> Pending(Head(w.todo).bb, GetSuccessors(g, Head(w.todo).bb)) \o Tail(w.todo)]
  BY <1>3, <1>4, Zenon DEF PostStep
<1>6. PostStep(g, w)
      = [met |-> m \cup {b}, left |-> l, todo |-> Pending(b, GetSuccessors(g, b)) \o r]
  BY <1>1, <1>3, <1>4, <1>5, Zenon
<1> QED
  BY <1>6 DEF w, PostState

\* What splits the front of a concatenation splits it.
LEMMA SplitsConcat ==
  ASSUME NEW S, NEW s \in Seq(S), NEW t \in Seq(S), NEW x, NEW r, Splits(s, x, r)
  PROVE  /\ Splits(s \o t, x, r \o t) /\ s \o t \in Seq(S) /\ r \o t \in Seq(S)
         /\ Len(r \o t) \in Nat /\ Len(s \o t) = Len(r \o t) + 1
<1>1. s # <<>> /\ Head(s) = x /\ Tail(s) = r
  BY DEF Splits
<1>2. /\ s \o t # <<>> /\ Head(s \o t) = Head(s) /\ Tail(s \o t) = Tail(s) \o t
      /\ s \o t \in Seq(S) /\ Tail(s) \o t \in Seq(S)
      /\ Len(Tail(s) \o t) \in Nat /\ Len(s \o t) = Len(Tail(s) \o t) + 1
  BY <1>1, HeadTailOfConcat
<1> DEFINE u == Tail(s)
           c == s \o t
           d == u \o t
<1>3. /\ c # <<>> /\ Head(c) = x /\ Tail(c) = d /\ c \in Seq(S) /\ d \in Seq(S)
      /\ Len(d) \in Nat /\ Len(c) = Len(d) + 1
  BY <1>1, <1>2
<1>4. Splits(c, x, d) /\ c \in Seq(S) /\ d \in Seq(S) /\ Len(d) \in Nat /\ Len(c) = Len(d) + 1
  <2> HIDE DEF c, d
  <2> QED
    BY <1>3 DEF Splits
<1>5. u = r
  BY <1>1
<1> HIDE DEF u
<1> QED
  BY <1>4, <1>5

\* The items for a list of successors.
LEMMA EntersFacts ==
  ASSUME NEW list \in Seq(Ids)
  PROVE  /\ Enters(list) \in Seq(Items) /\ Len(Enters(list)) = Len(list)
         /\ \A k \in 1 .. Len(list) : Enters(list)[k] = Entering(list[k])
         /\ Len(list) \in Nat
<1>1. DOMAIN list = 1 .. Len(list) /\ Len(list) \in Nat /\ \A k \in 1 .. Len(list) : list[k] \in Ids
  OBVIOUS
<1>2. \A k \in 1 .. Len(list) : Entering(list[k]) \in Items
  BY <1>1, ItemFacts
<1>3. Enters(list) = [k \in 1 .. Len(list) |-> Entering(list[k])]
  BY <1>1 DEF Enters
<1>4. Enters(list) \in [1 .. Len(list) -> Items]
  BY <1>2, <1>3
<1>5. \A k \in 1 .. Len(list) : Enters(list)[k] = Entering(list[k])
  BY <1>3
<1> DEFINE e == Enters(list)
<1>6. e \in [1 .. Len(list) -> Items]
  BY <1>4
<1> HIDE DEF e
<1>7. e \in Seq(Items) /\ Len(e) = Len(list)
  BY <1>1, <1>6
<1> QED
  BY <1>1, <1>5, <1>7 DEF e

LEMMA EntersSplits ==
  ASSUME NEW list \in Seq(Ids), list # <<>>
  PROVE  Splits(Enters(list), Entering(Head(list)), Enters(Tail(list)))
<1> DEFINE e == Enters(list)
           u == Tail(list)
           d == Enters(u)
<1>1. /\ e \in Seq(Items) /\ Len(e) = Len(list) /\ Len(list) \in Nat
      /\ \A k \in 1 .. Len(list) : e[k] = Entering(list[k])
  BY EntersFacts
<1>2. /\ Head(list) = list[1] /\ u \in Seq(Ids) /\ Len(u) = Len(list) - 1 /\ Len(list) \in Nat \ {0}
      /\ \A k \in 1 .. Len(list) - 1 : u[k] = list[k + 1]
  BY HeadTailFacts
<1>3. /\ d \in Seq(Items) /\ Len(d) = Len(u)
      /\ \A k \in 1 .. Len(u) : d[k] = Entering(u[k])
  <2> HIDE DEF u
  <2> QED
    BY <1>2, EntersFacts
<1> HIDE DEF e, u, d
<1>4. e # <<>>
  BY <1>1, <1>2
<1>5. /\ Head(e) = e[1] /\ Tail(e) \in Seq(Items) /\ Len(Tail(e)) = Len(e) - 1
      /\ \A k \in 1 .. Len(e) - 1 : Tail(e)[k] = e[k + 1]
  BY <1>1, <1>4, HeadTailFacts
<1>6. Head(e) = Entering(Head(list))
  <2>1. 1 \in 1 .. Len(list)
    BY <1>2
  <2> QED
    BY <1>1, <1>2, <1>5, <2>1
<1>7. Tail(e) = d
  <2>1. Len(Tail(e)) = Len(d) /\ Len(d) = Len(list) - 1
    BY <1>1, <1>2, <1>3, <1>5
  <2>2. ASSUME NEW k \in 1 .. Len(d) PROVE Tail(e)[k] = d[k]
    <3>1. k \in 1 .. Len(u) /\ k \in 1 .. Len(e) - 1 /\ k \in 1 .. Len(list) - 1 /\ k + 1 \in 1 .. Len(list)
      BY <1>1, <1>2, <2>1
    <3> QED
      BY <1>1, <1>2, <1>3, <1>5, <3>1
  <2> QED
    BY <1>3, <1>5, <2>1, <2>2, SeqEqual
<1>8. Splits(e, Entering(Head(list)), d)
  BY <1>4, <1>6, <1>7 DEF Splits
<1> QED
  BY <1>8 DEF e, d, u

\* The items of one call: its successors to come, and then its block to leave.
LEMMA PendingFacts ==
  ASSUME NEW b \in Ids, NEW list \in Seq(Ids)
  PROVE  /\ Pending(b, list) \in Seq(Items) /\ Len(Pending(b, list)) = Len(list) + 1
         /\ list # <<>> => Splits(Pending(b, list), Entering(Head(list)), Pending(b, Tail(list)))
         /\ list = <<>> => Splits(Pending(b, list), Leaving(b), <<>>)
<1> DEFINE e == Enters(list)
           one == <<Leaving(b)>>
<1>1. Leaving(b) \in Items
  BY ItemFacts
<1>2. one \in Seq(Items) /\ Len(one) = 1 /\ Splits(one, Leaving(b), <<>>)
  BY <1>1 DEF Splits
<1>3. e \in Seq(Items) /\ Len(e) = Len(list)
  BY EntersFacts
<1>4. Pending(b, list) = e \o one
  BY DEF Pending
<1> HIDE DEF e, one
<1>5. e \o one \in Seq(Items) /\ Len(e \o one) = Len(list) + 1
  <2>1. e \o one \in Seq(Items) /\ Len(e \o one) = Len(e) + Len(one)
    BY <1>2, <1>3, ConcatFacts
  <2> QED
    BY <1>2, <1>3, <2>1
<1>6. ASSUME list # <<>> PROVE Splits(Pending(b, list), Entering(Head(list)), Pending(b, Tail(list)))
  <2> DEFINE d == Enters(Tail(list))
             x == Entering(Head(list))
  <2>1. Splits(e, x, d)
    BY <1>6, EntersSplits DEF e
  <2>2. Pending(b, Tail(list)) = d \o one
    BY DEF Pending, one
  <2> HIDE DEF d, x
  <2>3. Splits(e \o one, x, d \o one)
    BY <1>2, <1>3, <2>1, SplitsConcat
  <2> QED
    BY <1>4, <2>2, <2>3 DEF x
<1>7. ASSUME list = <<>> PROVE Splits(Pending(b, list), Leaving(b), <<>>)
  <2>1. e = <<>>
    BY <1>3, <1>7
  <2>2. e \o one = one
    BY <1>2, <2>1, ConcatEmptySeq
  <2> QED
    BY <1>2, <1>4, <2>2
<1> QED
  BY <1>4, <1>5, <1>6, <1>7

\* Postorder is the list such a walk has after 3 * Cardinality(Ids) + 1 steps.
LEMMA PostorderWalk ==
  ASSUME NEW g \in Graphs
  PROVE  \E W : IsPostWalk(g, W) /\ Postorder(g) = W[3 * Cardinality(Ids) + 1].left
<1> DEFINE S == [met : SUBSET Ids, left : Seq(Ids), todo : Seq(Items)]
           a == PostState({}, <<>>, <<Entering(Start)>>)
           step == [w \in S |-> PostStep(g, w)]
<1> DEFINE Walk[n \in Nat] ==
             IF n = 0 THEN [met |-> {}, left |-> <<>>, todo |-> <<Entering(Start)>>]
             ELSE LET w  == Walk[n - 1]
                      bb == Head(w.todo).bb
                  IN  IF w.todo = <<>> THEN w
                      ELSE IF Head(w.todo).leave
                           THEN [met |-> w.met, left |-> Append(w.left, bb), todo |-> Tail(w.todo)]
                      ELSE IF bb \in w.met THEN [w EXCEPT !.todo = Tail(@)]
                      ELSE [met  |-> w.met \cup {bb},
                            left |-> w.left,
                            todo |-> [k \in DOMAIN GetSuccessors(g, bb) |-> Entering(GetSuccessors(g, bb)[k])]
                                     \o <<[bb |-> bb, leave |-> TRUE]>> \o Tail(w.todo)]
           Rule(f) == f = [n \in Nat |->
             IF n = 0 THEN [met |-> {}, left |-> <<>>, todo |-> <<Entering(Start)>>]
             ELSE LET w  == f[n - 1]
                      bb == Head(w.todo).bb
                  IN  IF w.todo = <<>> THEN w
                      ELSE IF Head(w.todo).leave
                           THEN [met |-> w.met, left |-> Append(w.left, bb), todo |-> Tail(w.todo)]
                      ELSE IF bb \in w.met THEN [w EXCEPT !.todo = Tail(@)]
                      ELSE [met  |-> w.met \cup {bb},
                            left |-> w.left,
                            todo |-> [k \in DOMAIN GetSuccessors(g, bb) |-> Entering(GetSuccessors(g, bb)[k])]
                                     \o <<[bb |-> bb, leave |-> TRUE]>> \o Tail(w.todo)]]
<1>s. /\ \A m \in SUBSET Ids, l \in Seq(Ids), t \in Seq(Items) : PostState(m, l, t) \in S
      /\ \A w \in S : \E m \in SUBSET Ids, l \in Seq(Ids), t \in Seq(Items) : w = PostState(m, l, t)
  <2>1. \A w \in S : /\ w.met \in SUBSET Ids /\ w.left \in Seq(Ids) /\ w.todo \in Seq(Items)
                     /\ w = PostState(w.met, w.left, w.todo)
    BY DEF PostState
  <2>2. \A m \in SUBSET Ids, l \in Seq(Ids), t \in Seq(Items) : PostState(m, l, t) \in S
    BY DEF PostState
  <2> QED
    BY <2>1, <2>2
<1> HIDE DEF S
<1>1. a \in S
  <2>1. {} \in SUBSET Ids /\ <<>> \in Seq(Ids) /\ <<Entering(Start)>> \in Seq(Items)
    BY FlowGraphAssumption, ItemFacts
  <2> QED
    BY <1>s, <2>1
<1>2. ASSUME NEW w \in S PROVE PostStep(g, w) \in S
  <2>1. PICK m \in SUBSET Ids, l \in Seq(Ids), t \in Seq(Items) : w = PostState(m, l, t)
    BY <1>s
  <2>2. CASE t = <<>>
    <3>1. PostStep(g, PostState(m, l, <<>>)) = PostState(m, l, <<>>)
      BY PostStays
    <3> QED
      BY <2>1, <2>2, <3>1
  <2>3. CASE t # <<>>
    <3>1. PICK b, r : /\ b \in Ids /\ r \in Seq(Items)
                      /\ Splits(t, Entering(b), r) \/ Splits(t, Leaving(b), r)
      <4>1. Head(t) \in Items /\ Tail(t) \in Seq(Items) /\ Splits(t, Head(t), Tail(t))
        BY <2>3, HeadTailFacts DEF Splits
      <4> DEFINE i == Head(t)
                 u == Tail(t)
      <4> HIDE DEF i, u
      <4>2. i \in Items /\ u \in Seq(Items) /\ Splits(t, i, u)
        BY <4>1 DEF i, u
      <4>3. i.bb \in Ids /\ (i = Entering(i.bb) \/ i = Leaving(i.bb))
        BY <4>2, ItemFacts
      <4> QED
        BY <4>2, <4>3
    <3>2. CASE Splits(t, Leaving(b), r)
      <4> DEFINE more == Append(l, b)
      <4>1. PostStep(g, PostState(m, l, t)) = PostState(m, more, r)
        BY <3>2, PostLeaves
      <4>2. more \in Seq(Ids)
        BY <3>1
      <4> HIDE DEF more
      <4> QED
        BY <1>s, <2>1, <3>1, <4>1, <4>2
    <3>3. CASE Splits(t, Entering(b), r) /\ b \in m
      <4>1. PostStep(g, PostState(m, l, t)) = PostState(m, l, r)
        BY <3>3, PostPasses
      <4> QED
        BY <1>s, <2>1, <3>1, <4>1
    <3>4. CASE Splits(t, Entering(b), r) /\ b \notin m
      <4> DEFINE more == Pending(b, GetSuccessors(g, b)) \o r
      <4>1. PostStep(g, PostState(m, l, t)) = PostState(m \cup {b}, l, more)
        BY <3>4, PostMeets
      <4>2. more \in Seq(Items)
        <5>1. Pending(b, GetSuccessors(g, b)) \in Seq(Items)
          BY <3>1, SuccessorsInIds, PendingFacts
        <5> QED
          BY <3>1, <5>1, ConcatFacts
      <4> HIDE DEF more
      <4> QED
        BY <1>s, <2>1, <3>1, <4>1, <4>2
    <3> QED
      BY <3>1, <3>2, <3>3, <3>4
  <2> QED
    BY <2>2, <2>3
<1>3. PICK f : IsRun(S, a, step, f)
  <2>1. step \in [S -> S]
    BY <1>2
  <2> HIDE DEF S, a, step
  <2> QED
    BY <1>1, <2>1, RunExists
<1>4. /\ f = [n \in Nat |-> f[n]] /\ f[0] = a
      /\ \A n \in Nat : f[n + 1] = PostStep(g, f[n])
  BY <1>3 DEF IsRun
<1>5. Rule(f)
  <2>1. ASSUME NEW n \in Nat, n # 0 PROVE f[n] = PostStep(g, f[n - 1])
    <3>1. n - 1 \in Nat /\ n = (n - 1) + 1
      BY <2>1
    <3> QED
      BY <1>4, <3>1
  <2>2. ASSUME NEW n \in Nat
        PROVE  f[n] = IF n = 0 THEN [met |-> {}, left |-> <<>>, todo |-> <<Entering(Start)>>]
                      ELSE PostStep(g, f[n - 1])
    <3>1. CASE n = 0
      BY <1>4, <3>1, Zenon DEF PostState
    <3>2. CASE n # 0
      BY <2>1, <3>2, Zenon
    <3> QED
      BY <3>1, <3>2
  <2> HIDE DEF step, S
  <2> QED
    BY <1>4, <2>2, Zenon DEF PostStep, Pending, Enters, Leaving
<1>6. Walk = CHOOSE f_1 : Rule(f_1)
  OBVIOUS
<1>7. Rule(Walk)
  <2> HIDE DEF Rule, Walk
  <2> QED
    BY <1>5, <1>6
<1>8. Postorder(g) = Walk[3 * Cardinality(Ids) + 1].left
  BY DEF Postorder, Walk, Entering
<1> HIDE DEF Walk
<1> DEFINE b0 == PostState({}, <<>>, <<Entering(Start)>>)
<1>w. Walk = [n \in Nat |-> IF n = 0 THEN b0 ELSE PostStep(g, Walk[n - 1])]
  BY <1>7, Zenon DEF PostStep, PostState, Pending, Enters, Leaving
<1> HIDE DEF b0, Rule
<1>9. Walk[0] = b0
  BY <1>w
<1>10. ASSUME NEW n \in Nat PROVE Walk[n + 1] = PostStep(g, Walk[n])
  <2>1. n + 1 \in Nat /\ n + 1 # 0 /\ (n + 1) - 1 = n
    OBVIOUS
  <2> QED
    BY <1>w, <2>1
<1>11. IsPostWalk(g, Walk)
  BY <1>9, <1>10 DEF IsPostWalk, b0
<1> QED
  BY <1>8, <1>11

-----------------------------------------------------------------------------
\* Depth-first trees: l lists the blocks as they were entered, p[b] is the block
\* that b was entered from.

Idx(l, b) == CHOOSE k \in DOMAIN l : l[k] = b

\* a is b or one of the blocks that b was entered under: it is in every set that
\* has b and is closed under p.
Anc(p, a, b) ==
  \A S \in SUBSET Ids : b \in S /\ (\A c \in S : p[c] = None \/ p[c] \in S) => a \in S

\* u is on the way from a down to b, and is not a.
OnWay(p, a, b, u) == u \in Ids /\ Anc(p, a, u) /\ u # a /\ Anc(p, u, b)

\* Each block is entered over an edge from one that was entered before and is
\* still active, so that the last entered is below it; and before a block is left
\* all it leads to have been entered.
IsDfsTree(g, l, p) ==
  /\ l \in Seq(Ids) /\ IsInjective(l) /\ ToSet(l) = Reachable(g)
  /\ p \in [Ids -> Ids \cup {None}] /\ p[Start] = None
  /\ \A k \in 1 .. Len(l) : k = 1 <=> l[k] = Start
  /\ \A k \in 1 .. Len(l) - 1 :
       /\ p[l[k + 1]] \in {l[j] : j \in 1 .. k} /\ l[k + 1] \in SuccSet(g, p[l[k + 1]])
       /\ Anc(p, p[l[k + 1]], l[k])
  /\ \A b, c \in Reachable(g) :
       c \in SuccSet(g, b) /\ Idx(l, b) < Idx(l, c) => Anc(p, b, c)

\* Being above is an order on the blocks.
LEMMA AncFacts ==
  ASSUME NEW p \in [Ids -> Ids \cup {None}]
  PROVE  /\ \A a \in Ids : Anc(p, a, a)
         /\ \A a, b, c \in Ids : Anc(p, a, b) /\ Anc(p, b, c) => Anc(p, a, c)
         /\ \A b \in Ids : p[b] # None => Anc(p, p[b], b)
         /\ \A a : \A b \in Ids : Anc(p, a, b) => a \in Ids
<1>1. \A a \in Ids : Anc(p, a, a)
  BY DEF Anc
<1>2. \A a, b, c \in Ids : Anc(p, a, b) /\ Anc(p, b, c) => Anc(p, a, c)
  BY Zenon DEF Anc
<1>3. \A b \in Ids : p[b] # None => Anc(p, p[b], b)
  BY DEF Anc
<1>4. ASSUME NEW a, NEW b \in Ids, Anc(p, a, b) PROVE a \in Ids
  <2>1. Ids \in SUBSET Ids /\ \A c \in Ids : p[c] = None \/ p[c] \in Ids
    OBVIOUS
  <2> QED
    BY <1>4, <2>1, Zenon DEF Anc
<1> QED
  BY <1>1, <1>2, <1>3, <1>4

\* What is above a block is above the one it was entered from.
LEMMA AncUp ==
  ASSUME NEW p \in [Ids -> Ids \cup {None}], NEW b \in Ids, NEW a, Anc(p, a, b), a # b
  PROVE  p[b] \in Ids /\ Anc(p, a, p[b])
<1>1. p[b] \in Ids
  <2>1. SUFFICES ASSUME p[b] = None PROVE FALSE
    OBVIOUS
  <2>2. {b} \in SUBSET Ids /\ b \in {b} /\ \A c \in {b} : p[c] = None \/ p[c] \in {b}
    BY <2>1
  <2>3. a \in {b}
    BY <2>2, Zenon DEF Anc
  <2> QED
    BY <2>3
<1>2. SUFFICES ASSUME NEW S \in SUBSET Ids, p[b] \in S, \A c \in S : p[c] = None \/ p[c] \in S
               PROVE  a \in S
  BY <1>1 DEF Anc
<1>3. S \cup {b} \in SUBSET Ids /\ b \in S \cup {b}
      /\ \A c \in S \cup {b} : p[c] = None \/ p[c] \in S \cup {b}
  BY <1>2
<1>4. a \in S \cup {b}
  BY <1>3, Zenon DEF Anc
<1> QED
  BY <1>4

\* Idx numbers the blocks that can be reached.
LEMMA IdxFacts ==
  ASSUME NEW g, NEW l, NEW p, IsDfsTree(g, l, p)
  PROVE  /\ Len(l) \in Nat
         /\ \A b \in Reachable(g) : b \in Ids /\ Idx(l, b) \in 1 .. Len(l) /\ l[Idx(l, b)] = b
         /\ \A k \in 1 .. Len(l) : l[k] \in Reachable(g) /\ Idx(l, l[k]) = k
         /\ \A b, c \in Reachable(g) : Idx(l, b) = Idx(l, c) => b = c
<1>1. l \in Seq(Ids) /\ IsInjective(l) /\ ToSet(l) = Reachable(g)
  BY DEF IsDfsTree
<1>2. /\ Reachable(g) = {l[k] : k \in 1 .. Len(l)} /\ Reachable(g) \subseteq Ids
      /\ DOMAIN l = 1 .. Len(l) /\ Len(l) \in Nat
  BY <1>1, ToSetFacts
<1>3. \A b \in Reachable(g) : \E k \in DOMAIN l : l[k] = b
  BY <1>2
<1>4. \A b \in Reachable(g) : Idx(l, b) \in DOMAIN l /\ l[Idx(l, b)] = b
  BY <1>3, Zenon DEF Idx
<1>5. \A j, k \in DOMAIN l : l[j] = l[k] => j = k
  BY <1>1 DEF IsInjective
<1>6. \A k \in 1 .. Len(l) : l[k] \in Reachable(g) /\ Idx(l, l[k]) = k
  <2> SUFFICES ASSUME NEW k \in 1 .. Len(l) PROVE l[k] \in Reachable(g) /\ Idx(l, l[k]) = k
    OBVIOUS
  <2>1. l[k] \in Reachable(g)
    BY <1>2
  <2>2. k \in DOMAIN l /\ Idx(l, l[k]) \in DOMAIN l /\ l[Idx(l, l[k])] = l[k]
    BY <2>1, <1>2, <1>4
  <2> QED
    BY <2>1, <2>2, <1>5, Zenon
<1> QED
  BY <1>2, <1>4, <1>6

\* A block but the first is below the one it was entered from.
LEMMA ParentFacts ==
  ASSUME NEW g \in Graphs, NEW l, NEW p, IsDfsTree(g, l, p)
  PROVE  /\ Start \in Reachable(g) /\ Idx(l, Start) = 1
         /\ \A b \in Reachable(g) \ {Start} :
              /\ p[b] \in Reachable(g) /\ Idx(l, p[b]) < Idx(l, b) /\ b \in SuccSet(g, p[b])
              /\ Anc(p, p[b], l[Idx(l, b) - 1])
<1>1. Start \in Reachable(g)
  BY ReachableFacts
<1>2. Idx(l, Start) = 1
  <2>1. Idx(l, Start) \in 1 .. Len(l) /\ l[Idx(l, Start)] = Start
    BY <1>1, IdxFacts
  <2>2. \A k \in 1 .. Len(l) : k = 1 <=> l[k] = Start
    BY DEF IsDfsTree
  <2> QED
    BY <2>1, <2>2, Zenon
<1>3. ASSUME NEW b \in Reachable(g) \ {Start}
      PROVE  /\ p[b] \in Reachable(g) /\ Idx(l, p[b]) < Idx(l, b) /\ b \in SuccSet(g, p[b])
             /\ Anc(p, p[b], l[Idx(l, b) - 1])
  <2>1. Idx(l, b) \in 1 .. Len(l) /\ l[Idx(l, b)] = b /\ Len(l) \in Nat
    BY IdxFacts
  <2>2. Idx(l, b) # 1
    BY <2>1 DEF IsDfsTree
  <2>3. PICK k \in 1 .. Len(l) - 1 : k + 1 = Idx(l, b)
    <3>1. Idx(l, b) - 1 \in 1 .. Len(l) - 1 /\ (Idx(l, b) - 1) + 1 = Idx(l, b)
      BY <2>1, <2>2
    <3> QED
      BY <3>1
  <2>4. /\ p[l[k + 1]] \in {l[j] : j \in 1 .. k} /\ l[k + 1] \in SuccSet(g, p[l[k + 1]])
        /\ Anc(p, p[l[k + 1]], l[k])
    BY <2>3 DEF IsDfsTree
  <2>5. l[k + 1] = b /\ k = Idx(l, b) - 1
    BY <2>1, <2>3
  <2>6. PICK j \in 1 .. k : p[b] = l[j]
    BY <2>4, <2>5
  <2>7. j \in 1 .. Len(l) /\ j < Idx(l, b)
    BY <2>1, <2>3, <2>6
  <2>8. p[b] \in Reachable(g) /\ Idx(l, p[b]) = j
    BY <2>6, <2>7, IdxFacts
  <2> QED
    BY <2>4, <2>5, <2>7, <2>8
<1> QED
  BY <1>1, <1>2, <1>3

\* What is above a block was entered no later.
LEMMA AncBefore ==
  ASSUME NEW g \in Graphs, NEW l, NEW p, IsDfsTree(g, l, p), NEW b \in Reachable(g),
         NEW a, Anc(p, a, b)
  PROVE  a \in Reachable(g) /\ Idx(l, a) <= Idx(l, b) /\ (a # b => Idx(l, a) < Idx(l, b))
<1> DEFINE S == {c \in Reachable(g) : Idx(l, c) <= Idx(l, b)}
<1>1. \A c \in Reachable(g) : c \in Ids /\ Idx(l, c) \in Nat
  BY IdxFacts
<1>2. S \in SUBSET Ids /\ b \in S
  BY <1>1
<1>3. \A c \in S : p[c] = None \/ p[c] \in S
  <2> SUFFICES ASSUME NEW c \in S, p[c] # None PROVE p[c] \in S
    OBVIOUS
  <2>1. c # Start
    BY DEF IsDfsTree
  <2>2. p[c] \in Reachable(g) /\ Idx(l, p[c]) < Idx(l, c)
    BY <2>1, ParentFacts
  <2> QED
    BY <1>1, <2>2
<1>4. a \in S
  BY <1>2, <1>3, Zenon DEF Anc
<1>5. Idx(l, a) = Idx(l, b) => a = b
  BY <1>4, IdxFacts
<1> QED
  BY <1>1, <1>4, <1>5

\* A block above b is also above all that were entered since it and before b.
LEMMA AncBetween ==
  ASSUME NEW g \in Graphs, NEW l, NEW p, IsDfsTree(g, l, p), NEW b \in Reachable(g),
         NEW a, Anc(p, a, b), NEW c \in Reachable(g), Idx(l, a) <= Idx(l, c), Idx(l, c) <= Idx(l, b)
  PROVE  Anc(p, a, c)
<1> DEFINE ia == Idx(l, a)  ib == Idx(l, b)
<1>1. a \in Reachable(g) /\ ia \in 1 .. Len(l) /\ ib \in 1 .. Len(l) /\ Len(l) \in Nat /\ ia <= ib
  BY AncBefore, IdxFacts
<1>2. SUFFICES \A n \in Nat : ia + n <= ib => Anc(p, a, l[ib - n])
  <2>1. Idx(l, c) \in 1 .. Len(l) /\ l[Idx(l, c)] = c
    BY IdxFacts
  <2>2. /\ ib - Idx(l, c) \in Nat /\ ia + (ib - Idx(l, c)) <= ib
        /\ ib - (ib - Idx(l, c)) = Idx(l, c)
    BY <1>1, <2>1
  <2> QED
    BY <1>2, <2>1, <2>2
<1> DEFINE Good == {n \in Nat : ia + n <= ib => Anc(p, a, l[ib - n])}
<1>3. 0 \in Good
  <2>1. l[ib - 0] = b
    BY <1>1, IdxFacts
  <2> QED
    BY <2>1
<1>4. ASSUME NEW n \in Nat, n \in Good PROVE n + 1 \in Good
  <2>1. SUFFICES ASSUME ia + (n + 1) <= ib PROVE Anc(p, a, l[ib - (n + 1)])
    OBVIOUS
  <2> DEFINE k == ib - n
  <2>2. k \in 1 .. Len(l) /\ k > ia /\ ib - (n + 1) = k - 1 /\ ia + n <= ib
    BY <1>1, <2>1
  <2>3. Anc(p, a, l[k])
    BY <1>4, <2>2
  <2> HIDE DEF k, Good
  <2>4. l[k] \in Reachable(g) /\ Idx(l, l[k]) = k /\ l[k] \in Ids /\ l[k - 1] \in Ids
    <3>1. k - 1 \in 1 .. Len(l)
      BY <1>1, <2>2
    <3> QED
      BY <2>2, <3>1, IdxFacts
  <2>5. l[k] # a /\ l[k] # Start
    <3>1. l[k] # a
      BY <2>2, <2>4, <1>1
    <3>2. l[k] # Start
      BY <2>2, <1>1 DEF IsDfsTree
    <3> QED
      BY <3>1, <3>2
  <2>6. p \in [Ids -> Ids \cup {None}] /\ a \in Ids
    BY <1>1, IdxFacts DEF IsDfsTree
  <2>7. p[l[k]] \in Ids /\ Anc(p, a, p[l[k]])
    BY <2>3, <2>4, <2>5, <2>6, AncUp
  <2>8. Anc(p, p[l[k]], l[k - 1])
    BY <2>4, <2>5, ParentFacts
  <2>9. Anc(p, a, l[k - 1])
    BY <2>4, <2>6, <2>7, <2>8, AncFacts
  <2> QED
    BY <2>2, <2>9
<1>5. Nat \subseteq Good
  <2> HIDE DEF Good
  <2> QED
    BY <1>3, <1>4, SetInduction
<1> QED
  BY <1>5

\* The start block is above all.
LEMMA StartAbove ==
  ASSUME NEW g \in Graphs, NEW l, NEW p, IsDfsTree(g, l, p), NEW b \in Reachable(g)
  PROVE  Anc(p, Start, b)
<1>1. SUFFICES ASSUME NEW S \in SUBSET Ids, b \in S, \A c \in S : p[c] = None \/ p[c] \in S
               PROVE  Start \in S
  BY DEF Anc
<1> DEFINE T == {Idx(l, c) : c \in S \cap Reachable(g)}
<1>2. T \subseteq Nat /\ T # {}
  BY <1>1, IdxFacts
<1>3. PICK c \in S \cap Reachable(g) : \A d \in S \cap Reachable(g) : Idx(l, c) <= Idx(l, d)
  <2>1. \E x \in T : \A y \in T : x <= y
    <3> HIDE DEF T
    <3> QED
      BY <1>2, Least
  <2> QED
    BY <2>1
<1>4. SUFFICES ASSUME c # Start PROVE FALSE
  BY <1>3
<1>5. p[c] \in Reachable(g) /\ Idx(l, p[c]) < Idx(l, c)
  BY <1>4, ParentFacts
<1>6. p[c] \in S
  <2>1. p[c] # None
    BY <1>5, IdxFacts, FlowGraphAssumption
  <2> QED
    BY <1>1, <2>1
<1>7. Idx(l, p[c]) \in Nat /\ Idx(l, c) \in Nat
  BY <1>5, IdxFacts
<1> QED
  BY <1>3, <1>5, <1>6, <1>7

\* An edge to a block entered no earlier than c, from one entered before c, comes
\* from above c.
LEMMA EdgeAcross ==
  ASSUME NEW g \in Graphs, NEW l, NEW p, IsDfsTree(g, l, p),
         NEW a \in Reachable(g), NEW b \in SuccSet(g, a), NEW c \in Reachable(g),
         Idx(l, a) < Idx(l, c), Idx(l, c) <= Idx(l, b)
  PROVE  Anc(p, a, c)
<1>1. b \in Reachable(g)
  BY ReachableFacts
<1>2. Idx(l, a) \in Nat /\ Idx(l, b) \in Nat /\ Idx(l, c) \in Nat
  BY <1>1, IdxFacts
<1>3. Anc(p, a, b)
  BY <1>1, <1>2 DEF IsDfsTree
<1> QED
  BY <1>1, <1>2, <1>3, AncBetween

\* The way down the tree is a path: a set that has its upper end and is left only
\* to blocks that are not on the way has its lower end.
LEMMA WayDown ==
  ASSUME NEW g \in Graphs, NEW l, NEW p, IsDfsTree(g, l, p),
         NEW b \in Reachable(g), NEW a, Anc(p, a, b), NEW avoid, NEW Q, a \in Q,
         \A c \in Q : SuccSet(g, c) \ avoid \subseteq Q,
         \A u : OnWay(p, a, b, u) => u \notin avoid
  PROVE  b \in Q
<1>1. SUFFICES ASSUME b \notin Q PROVE FALSE
  OBVIOUS
<1>2. p \in [Ids -> Ids \cup {None}] /\ b \in Ids /\ a \in Ids /\ a \in Reachable(g)
  <2>1. p \in [Ids -> Ids \cup {None}]
    BY DEF IsDfsTree
  <2>2. a \in Reachable(g)
    BY AncBefore
  <2> QED
    BY <2>1, <2>2, IdxFacts
<1> DEFINE S == {u \in Ids : Anc(p, u, b) /\ (Anc(p, a, u) => u \notin Q)}
<1>3. S \in SUBSET Ids /\ b \in S
  BY <1>1, <1>2, AncFacts
<1>4. \A c \in S : p[c] = None \/ p[c] \in S
  <2> SUFFICES ASSUME NEW c \in S, p[c] # None PROVE p[c] \in S
    OBVIOUS
  <2>1. p[c] \in Ids /\ Anc(p, p[c], c) /\ Anc(p, p[c], b)
    BY <1>2, AncFacts
  <2>2. SUFFICES ASSUME Anc(p, a, p[c]), p[c] \in Q PROVE FALSE
    BY <2>1
  <2>3. Anc(p, a, c) /\ c \notin Q
    BY <1>2, <2>1, <2>2, AncFacts
  <2>4. c \in Reachable(g) /\ c # Start
    <3>1. c \in Reachable(g)
      BY AncBefore
    <3>2. p[Start] = None
      BY DEF IsDfsTree
    <3> QED
      BY <3>1, <3>2, <2>1, FlowGraphAssumption
  <2>5. Idx(l, a) <= Idx(l, p[c]) /\ Idx(l, p[c]) < Idx(l, c) /\ c \in SuccSet(g, p[c])
    BY <2>2, <2>4, ParentFacts, AncBefore
  <2>6. c # a
    <3>1. p[c] \in Reachable(g)
      BY <2>4, ParentFacts
    <3>2. Idx(l, p[c]) \in Nat /\ Idx(l, c) \in Nat /\ Idx(l, a) \in Nat
      BY <1>2, <2>4, <3>1, IdxFacts
    <3> QED
      BY <2>5, <3>2
  <2>7. OnWay(p, a, b, c)
    BY <2>3, <2>6 DEF OnWay
  <2> QED
    BY <2>2, <2>3, <2>5, <2>7
<1>5. a \in S
  <2> HIDE DEF S
  <2> QED
    BY <1>3, <1>4, Zenon DEF Anc
<1> QED
  BY <1>2, <1>5, AncFacts

-----------------------------------------------------------------------------
\* Semidominators: the blocks entered before b that lead to b through blocks
\* entered after it, and the earliest of them.

EnteredBefore(g, l, b) == {c \in Reachable(g) : Idx(l, c) <= Idx(l, b)} \ {b}

LeadsTowards(g, l, a, b) ==
  \E c \in SuccSet(g, a) : c = b \/ b \in ReachAvoiding(g, c, EnteredBefore(g, l, b))

Cands(g, l, b) == {a \in EnteredBefore(g, l, b) : LeadsTowards(g, l, a, b)}

IsSemi(g, l, a, b) == a \in Cands(g, l, b) /\ \A c \in Cands(g, l, b) : Idx(l, a) <= Idx(l, c)

\* A path that starts among what is avoided does not, and none comes to it.
LEMMA ReachStaysOut ==
  ASSUME NEW g \in Graphs, NEW b \in Ids, NEW avoid
  PROVE  /\ ReachAvoiding(g, b, avoid) \cap avoid = {}
         /\ b \in avoid => ReachAvoiding(g, b, avoid) = {}
         /\ b \in Reachable(g) => ReachAvoiding(g, b, avoid) \subseteq Reachable(g)
<1> DEFINE C == Ids \ avoid
<1>1. /\ \A D \in SUBSET Ids :
           {b} \ avoid \subseteq D /\ (\A c \in D : SuccSet(g, c) \ avoid \subseteq D)
           => ReachAvoiding(g, b, avoid) \subseteq D
  BY ReachAvoidingLeast
<1>2. C \in SUBSET Ids /\ {b} \ avoid \subseteq C /\ \A c \in C : SuccSet(g, c) \ avoid \subseteq C
  BY SuccSetInIds
<1>3. ReachAvoiding(g, b, avoid) \subseteq C
  <2> HIDE DEF C
  <2> QED
    BY <1>1, <1>2
<1>4. b \in avoid => ReachAvoiding(g, b, avoid) \subseteq {}
  BY <1>1, {} \in SUBSET Ids, Zenon
<1>5. b \in Reachable(g) => ReachAvoiding(g, b, avoid) \subseteq Reachable(g)
  <2>1. /\ Reachable(g) \in SUBSET Ids
        /\ \A c \in Reachable(g) : SuccSet(g, c) \ avoid \subseteq Reachable(g)
    BY ReachableFacts
  <2> QED
    BY <1>1, <2>1
<1> QED
  BY <1>3, <1>4, <1>5

\* What a set holds that is closed under all steps but those to avoid.
LEMMA ReachInClosed ==
  ASSUME NEW g \in Graphs, NEW b \in Ids, NEW avoid, NEW Q \in SUBSET Ids,
         b \in Q \/ b \in avoid, \A c \in Q : SuccSet(g, c) \ avoid \subseteq Q
  PROVE  ReachAvoiding(g, b, avoid) \subseteq Q
  BY ReachAvoidingLeast, {b} \ avoid \subseteq Q

\* What is reached stays reached, one step on.
LEMMA ReachCloses ==
  ASSUME NEW g \in Graphs, NEW b \in Ids, NEW avoid
  PROVE  /\ ReachAvoiding(g, b, avoid) \in SUBSET Ids
         /\ b \notin avoid => b \in ReachAvoiding(g, b, avoid)
         /\ \A c \in ReachAvoiding(g, b, avoid) :
              SuccSet(g, c) \ avoid \subseteq ReachAvoiding(g, b, avoid)
  BY ReachAvoidingLeast

\* A block that leads to b is entered before b's tree is left: above b, if before.
LEMMA CandsAbove ==
  ASSUME NEW g \in Graphs, NEW l, NEW p, IsDfsTree(g, l, p), NEW b \in Reachable(g),
         NEW a \in Cands(g, l, b)
  PROVE  /\ Anc(p, a, b) /\ a # b /\ a \in Reachable(g) /\ Idx(l, a) < Idx(l, b)
         /\ b # Start
<1>1. a \in Reachable(g) /\ a # b /\ Idx(l, a) <= Idx(l, b) /\ LeadsTowards(g, l, a, b)
  BY DEF Cands, EnteredBefore
<1>2. Idx(l, a) \in 1 .. Len(l) /\ Idx(l, b) \in 1 .. Len(l) /\ Idx(l, a) # Idx(l, b) /\ Len(l) \in Nat
  BY <1>1, IdxFacts
<1>3. Idx(l, a) < Idx(l, b)
  BY <1>1, <1>2
<1>4. PICK c \in SuccSet(g, a) : c = b \/ b \in ReachAvoiding(g, c, EnteredBefore(g, l, b))
  BY <1>1 DEF LeadsTowards
<1>5. c \in Reachable(g) /\ c \in Ids
  BY <1>1, ReachableFacts
<1>6. c \notin EnteredBefore(g, l, b)
  <2>1. c # b => ReachAvoiding(g, c, EnteredBefore(g, l, b)) # {}
    BY <1>4
  <2>2. c = b => c \notin EnteredBefore(g, l, b)
    BY DEF EnteredBefore
  <2> QED
    BY <1>5, <2>1, <2>2, ReachStaysOut
<1>7. Idx(l, b) <= Idx(l, c)
  BY <1>2, <1>5, <1>6, IdxFacts DEF EnteredBefore
<1>8. Anc(p, a, b)
  BY <1>1, <1>3, <1>5, <1>7, EdgeAcross
<1>9. b # Start
  BY <1>2, <1>3, ParentFacts
<1> QED
  BY <1>1, <1>3, <1>8, <1>9

\* The block that b was entered from is one of those that lead to b.
LEMMA ParentCand ==
  ASSUME NEW g \in Graphs, NEW l, NEW p, IsDfsTree(g, l, p), NEW b \in Reachable(g) \ {Start}
  PROVE  p[b] \in Cands(g, l, b)
<1>1. p[b] \in Reachable(g) /\ Idx(l, p[b]) < Idx(l, b) /\ b \in SuccSet(g, p[b])
  BY ParentFacts
<1>2. Idx(l, p[b]) \in Nat /\ Idx(l, b) \in Nat
  BY <1>1, IdxFacts
<1> QED
  BY <1>1, <1>2 DEF Cands, EnteredBefore, LeadsTowards

-----------------------------------------------------------------------------
\* Dominators and the tree.

StrictDoms(g, b) == {d \in Reachable(g) \ {b} : Dominates(g, d, b)}

IsIdom(g, d, b) == d \in StrictDoms(g, b) /\ \A c \in StrictDoms(g, b) : Dominates(g, c, d)

\* What avoids d and is above b on a way without d.
LEMMA DominatedBelow ==
  ASSUME NEW g \in Graphs, NEW l, NEW p, IsDfsTree(g, l, p),
         NEW b \in Reachable(g), NEW a, Anc(p, a, b), NEW d, Dominates(g, d, b),
         ~OnWay(p, a, b, d)
  PROVE  Dominates(g, d, a)
<1>1. SUFFICES ASSUME a \in ReachAvoiding(g, Start, {d}) PROVE FALSE
  BY DEF Dominates
<1> DEFINE avoid == {d}
           Q == ReachAvoiding(g, Start, avoid)
<1>2. \A c \in Q : SuccSet(g, c) \ avoid \subseteq Q
  BY ReachCloses, FlowGraphAssumption
<1>3. \A u : OnWay(p, a, b, u) => u \notin avoid
  OBVIOUS
<1>4. b \in Q
  <2>1. a \in Q
    BY <1>1
  <2> HIDE DEF Q, avoid
  <2> QED
    BY <1>2, <1>3, <2>1, WayDown
<1> QED
  BY <1>4 DEF Dominates

\* Only what is above a block dominates it.
LEMMA DominatorsAbove ==
  ASSUME NEW g \in Graphs, NEW l, NEW p, IsDfsTree(g, l, p),
         NEW b \in Reachable(g), NEW d, Dominates(g, d, b)
  PROVE  Anc(p, d, b)
<1>1. Anc(p, Start, b) /\ Start \in Ids
  BY StartAbove, FlowGraphAssumption
<1>2. SUFFICES ASSUME ~Anc(p, d, b) PROVE FALSE
  OBVIOUS
<1>3. ~OnWay(p, Start, b, d)
  BY <1>2 DEF OnWay
<1>4. Start \notin ReachAvoiding(g, Start, {d})
  BY <1>1, <1>3, DominatedBelow DEF Dominates
<1>5. d # Start
  BY <1>1, <1>2
<1> QED
  BY <1>1, <1>4, <1>5, ReachCloses

\* A strict dominator is above, or is, each block that leads to b.
LEMMA DominatorsAboveCands ==
  ASSUME NEW g \in Graphs, NEW l, NEW p, IsDfsTree(g, l, p),
         NEW b \in Reachable(g), NEW d \in StrictDoms(g, b), NEW a \in Cands(g, l, b)
  PROVE  Anc(p, d, a)
<1> DEFINE Q == ReachAvoiding(g, Start, {d})
<1>1. d \in Reachable(g) /\ d # b /\ Dominates(g, d, b) /\ Anc(p, d, b)
  BY DominatorsAbove DEF StrictDoms
<1>2. /\ Anc(p, a, b) /\ a # b /\ a \in Reachable(g) /\ LeadsTowards(g, l, a, b)
  BY CandsAbove DEF Cands
<1>3. /\ Idx(l, d) \in Nat /\ Idx(l, a) \in Nat /\ Idx(l, b) \in Nat
      /\ Idx(l, a) < Idx(l, b) /\ Idx(l, d) < Idx(l, b)
  BY <1>1, <1>2, IdxFacts, AncBefore
<1>4. SUFFICES ASSUME ~Anc(p, d, a) PROVE FALSE
  OBVIOUS
<1>5. Idx(l, a) < Idx(l, d)
  BY <1>1, <1>2, <1>3, <1>4, AncBetween
<1>6. ~Dominates(g, d, a)
  BY <1>2, <1>4, DominatorsAbove
<1>7. PICK c \in SuccSet(g, a) : c = b \/ b \in ReachAvoiding(g, c, EnteredBefore(g, l, b))
  BY <1>2 DEF LeadsTowards
<1>8. c \in Ids /\ d \in EnteredBefore(g, l, b)
  BY <1>1, <1>2, <1>3, <1>7, ReachableFacts DEF EnteredBefore
<1>9. c \notin EnteredBefore(g, l, b)
  <2>1. c # b => ReachAvoiding(g, c, EnteredBefore(g, l, b)) # {}
    BY <1>7
  <2>2. c = b => c \notin EnteredBefore(g, l, b)
    BY DEF EnteredBefore
  <2> QED
    BY <1>8, <2>1, <2>2, ReachStaysOut
<1>10. Q \in SUBSET Ids /\ \A x \in Q : SuccSet(g, x) \ {d} \subseteq Q
  BY ReachCloses, FlowGraphAssumption
<1>11. c \in Q
  <2>1. a \in Q
    BY <1>6 DEF Dominates
  <2> QED
    BY <1>7, <1>8, <1>9, <1>10, <2>1
<1>12. b \in Q
  <2> DEFINE B == EnteredBefore(g, l, b)
  <2>1. \A x \in Q : SuccSet(g, x) \ B \subseteq Q
    BY <1>8, <1>10
  <2>2. ReachAvoiding(g, c, B) \subseteq Q
    <3> HIDE DEF Q, B
    <3> QED
      BY <1>8, <1>10, <1>11, <2>1, ReachInClosed
  <2> QED
    BY <1>7, <1>11, <2>2
<1> QED
  BY <1>1, <1>12 DEF Dominates

\* i dominates w when each block y on the way down from i to w is dominated by i
\* or is led to by no block that was entered before i: a path that avoids i would
\* have to come to the way from outside, for the first time.
LEMMA DominatesIfWayGuarded ==
  ASSUME NEW g \in Graphs, NEW l, NEW p, IsDfsTree(g, l, p),
         NEW w \in Reachable(g), NEW i, Anc(p, i, w), i # w,
         \A y : OnWay(p, i, w, y) =>
           Dominates(g, i, y) \/ \A a \in Cands(g, l, y) : Idx(l, i) <= Idx(l, a)
  PROVE  Dominates(g, i, w)
<1> DEFINE P == {y \in Ids : OnWay(p, i, w, y)}
           A == {i} \cup P
           X == ReachAvoiding(g, Start, A)
<1>1. i \in Reachable(g) /\ p \in [Ids -> Ids \cup {None}] /\ w \in Ids /\ Start \in Reachable(g)
      /\ Start \in Ids /\ i \in Ids
  <2>1. p \in [Ids -> Ids \cup {None}]
    BY DEF IsDfsTree
  <2> QED
    BY <2>1, AncBefore, IdxFacts, FlowGraphAssumption, ReachableFacts
<1>2. /\ X \in SUBSET Ids /\ X \cap A = {} /\ X \subseteq Reachable(g)
      /\ \A c \in X : SuccSet(g, c) \ A \subseteq X
  <2> HIDE DEF A
  <2> QED
    BY <1>1, ReachCloses, ReachStaysOut
<1>3. w \in P
  BY <1>1, AncFacts DEF OnWay
<1>4. \A y \in P : /\ y \in Reachable(g) /\ y \in Ids /\ Anc(p, i, y) /\ y # i /\ Anc(p, y, w)
                    /\ Idx(l, i) < Idx(l, y)
  BY AncBefore DEF OnWay
<1>5. ASSUME NEW z \in X, NEW y \in P, y \in SuccSet(g, z) PROVE FALSE
  <2>1. CASE Dominates(g, i, y)
    <3> DEFINE Q == ReachAvoiding(g, Start, {i})
    <3>1. Q \in SUBSET Ids /\ (Start \in {i} \/ Start \in Q) /\ \A c \in Q : SuccSet(g, c) \ {i} \subseteq Q
      BY <1>1, ReachCloses
    <3>2. X \subseteq Q
      <4> HIDE DEF Q
      <4>1. Start \in Q \/ Start \in A
        BY <3>1
      <4>2. \A c \in Q : SuccSet(g, c) \ A \subseteq Q
        BY <3>1
      <4> HIDE DEF A
      <4> QED
        BY <1>1, <3>1, <4>1, <4>2, ReachInClosed
    <3>3. y \in Q
      BY <1>4, <1>5, <3>1, <3>2
    <3> QED
      BY <2>1, <3>3 DEF Dominates
  <2>2. CASE \A a \in Cands(g, l, y) : Idx(l, i) <= Idx(l, a)
    <3> DEFINE B == EnteredBefore(g, l, y)
               K == {x \in X : ~LeadsTowards(g, l, x, y)}
    <3>1. /\ y \in Reachable(g) /\ y \in Ids /\ Anc(p, i, y) /\ y # i /\ Anc(p, y, w)
          /\ Idx(l, i) < Idx(l, y) /\ Idx(l, y) \in Nat /\ Idx(l, i) \in Nat
      BY <1>1, <1>4, IdxFacts
    <3>2. ASSUME NEW x \in X, LeadsTowards(g, l, x, y), Idx(l, x) <= Idx(l, y) PROVE FALSE
      <4>1. x \in Reachable(g) /\ x # y /\ x # i /\ x \in Ids /\ x \notin P
        BY <1>2
      <4>2. x \in Cands(g, l, y)
        BY <3>2, <4>1 DEF Cands, EnteredBefore
      <4>3. Anc(p, x, y) /\ Idx(l, i) <= Idx(l, x)
        BY <2>2, <3>1, <4>2, CandsAbove
      <4>4. Anc(p, i, x)
        BY <3>1, <3>2, <4>1, <4>3, AncBetween
      <4>5. Anc(p, x, w)
        BY <1>1, <3>1, <4>1, <4>3, AncFacts
      <4> QED
        BY <4>1, <4>4, <4>5 DEF OnWay
    <3>3. Start \in K \/ Start \in A
      <4>1. SUFFICES ASSUME Start \in X, LeadsTowards(g, l, Start, y) PROVE FALSE
        BY <1>1, ReachCloses
      <4>2. Idx(l, Start) <= Idx(l, y)
        BY <3>1, ParentFacts, IdxFacts
      <4> QED
        BY <3>2, <4>1, <4>2
    <3>4. ASSUME NEW x \in K, NEW n \in SuccSet(g, x) \ A PROVE n \in K
      <4>1. n \in X /\ n \in Reachable(g) /\ n \in Ids
        BY <1>2, <3>4
      <4>2. SUFFICES ASSUME LeadsTowards(g, l, n, y) PROVE FALSE
        BY <4>1
      <4>3. n \notin B /\ n # y
        <5>1. Idx(l, n) \in Nat /\ ~(Idx(l, n) <= Idx(l, y))
          BY <3>2, <4>1, <4>2, IdxFacts
        <5> QED
          BY <5>1, <3>1 DEF EnteredBefore
      <4> DEFINE F == ReachAvoiding(g, n, B)
      <4>4. F \in SUBSET Ids /\ n \in F /\ \A c \in F : SuccSet(g, c) \ B \subseteq F
        BY <4>1, <4>3, ReachCloses
      <4>5. PICK c \in SuccSet(g, n) : c = y \/ y \in ReachAvoiding(g, c, B)
        BY <4>2 DEF LeadsTowards
      <4>6. y \notin B /\ c \in Ids
        BY <4>1, <4>5, SuccSetInIds DEF EnteredBefore
      <4>7. y \in F
        <5>1. CASE c = y
          <6> HIDE DEF F, B
          <6> QED
            BY <4>4, <4>5, <4>6, <5>1
        <5>2. CASE c # y
          <6>1. c \notin B
            BY <4>5, <4>6, <5>2, ReachStaysOut
          <6>2. c \in F
            BY <4>4, <4>5, <6>1
          <6> HIDE DEF F, B
          <6>3. ReachAvoiding(g, c, B) \subseteq F
            BY <4>4, <4>6, <6>2, ReachInClosed
          <6> QED
            BY <4>5, <5>2, <6>3
        <5> QED
          BY <5>1, <5>2
      <4>8. LeadsTowards(g, l, x, y)
        BY <3>4, <4>7 DEF LeadsTowards
      <4> QED
        BY <3>4, <4>8
    <3>5. X \subseteq K
      <4>1. K \in SUBSET Ids /\ \A x \in K : SuccSet(g, x) \ A \subseteq K
        BY <1>2, <3>4
      <4> HIDE DEF K, A
      <4> QED
        BY <1>1, <3>3, <4>1, ReachInClosed
    <3>6. LeadsTowards(g, l, z, y)
      BY <1>5 DEF LeadsTowards
    <3> QED
      BY <1>5, <3>5, <3>6
  <2> QED
    BY <1>4, <1>5, <2>1, <2>2
<1>6. ReachAvoiding(g, Start, {i}) \subseteq X
  <2>1. \A c \in X : SuccSet(g, c) \ {i} \subseteq X
    BY <1>2, <1>5
  <2>2. Start \in X \/ Start \in {i}
    <3>1. Start \notin P
      <4>1. \A y \in P : 1 < Idx(l, y)
        BY <1>1, <1>4, IdxFacts
      <4> QED
        BY <4>1, ParentFacts
    <3> QED
      BY <1>1, <3>1, ReachCloses
  <2> HIDE DEF X
  <2> QED
    BY <1>1, <1>2, <2>1, <2>2, ReachInClosed
<1> QED
  BY <1>2, <1>3, <1>6 DEF Dominates

\* A strict dominator of w that is above a, or is a, dominates a, when a is above w.
LEMMA DominatorPassesUp ==
  ASSUME NEW g \in Graphs, NEW l, NEW p, IsDfsTree(g, l, p),
         NEW w \in Reachable(g), NEW a, Anc(p, a, w), NEW d, Dominates(g, d, w), Anc(p, d, a)
  PROVE  Dominates(g, d, a)
<1>1. a \in Reachable(g) /\ d \in Reachable(g)
  BY AncBefore
<1>2. ~OnWay(p, a, w, d)
  <2>1. SUFFICES ASSUME Anc(p, a, d), d # a PROVE FALSE
    BY DEF OnWay
  <2>2. Idx(l, a) < Idx(l, d) /\ Idx(l, d) < Idx(l, a)
    BY <1>1, <2>1, AncBefore
  <2>3. Idx(l, a) \in Nat /\ Idx(l, d) \in Nat
    BY <1>1, IdxFacts
  <2> QED
    BY <2>2, <2>3
<1> QED
  BY <1>2, DominatedBelow

\* When no block below the semidominator s of w and above w has an earlier one, s
\* is the immediate dominator.
LEMMA SemiIsIdom ==
  ASSUME NEW g \in Graphs, NEW l, NEW p, IsDfsTree(g, l, p), NEW w \in Reachable(g),
         NEW s, IsSemi(g, l, s, w),
         \A u : OnWay(p, s, w, u) => \A a \in Cands(g, l, u) : Idx(l, s) <= Idx(l, a)
  PROVE  IsIdom(g, s, w)
<1>1. s \in Cands(g, l, w) /\ Anc(p, s, w) /\ s # w /\ s \in Reachable(g)
  BY CandsAbove DEF IsSemi
<1>2. Dominates(g, s, w)
  BY <1>1, DominatesIfWayGuarded
<1>3. ASSUME NEW c \in StrictDoms(g, w) PROVE Dominates(g, c, s)
  <2>1. Anc(p, c, s) /\ Dominates(g, c, w)
    BY <1>1, DominatorsAboveCands DEF StrictDoms
  <2> QED
    BY <1>1, <2>1, DominatorPassesUp
<1> QED
  BY <1>1, <1>2, <1>3 DEF IsIdom, StrictDoms

\* Otherwise it is that of the block u on the way whose semidominator is earliest.
LEMMA IdomOfBestOnWay ==
  ASSUME NEW g \in Graphs, NEW l, NEW p, IsDfsTree(g, l, p), NEW w \in Reachable(g),
         NEW sm, \A x \in Reachable(g) \ {Start} : IsSemi(g, l, sm[x], x),
         w # Start, NEW u, OnWay(p, sm[w], w, u),
         \A v : OnWay(p, sm[w], w, v) => Idx(l, sm[u]) <= Idx(l, sm[v]),
         NEW i, IsIdom(g, i, u)
  PROVE  IsIdom(g, i, w)
<1>1. /\ p \in [Ids -> Ids \cup {None}] /\ IsSemi(g, l, sm[w], w)
      /\ sm[w] \in Cands(g, l, w) /\ Anc(p, sm[w], w) /\ sm[w] \in Reachable(g)
      /\ Anc(p, sm[w], u) /\ Anc(p, u, w) /\ u # sm[w] /\ u \in Reachable(g) /\ u \in Ids /\ w \in Ids
  <2>1. p \in [Ids -> Ids \cup {None}]
    BY DEF IsDfsTree
  <2>2. IsSemi(g, l, sm[w], w) /\ sm[w] \in Cands(g, l, w)
    BY DEF IsSemi
  <2>3. Anc(p, sm[w], w) /\ sm[w] \in Reachable(g)
    BY <2>2, CandsAbove
  <2>4. Anc(p, sm[w], u) /\ Anc(p, u, w) /\ u # sm[w]
    BY DEF OnWay
  <2>5. u \in Reachable(g)
    BY <2>4, AncBefore
  <2> QED
    BY <2>1, <2>2, <2>3, <2>4, <2>5, IdxFacts
<1>2. u # Start
  <2>1. Idx(l, sm[w]) < Idx(l, u) /\ Idx(l, sm[w]) \in 1 .. Len(l) /\ Idx(l, u) \in 1 .. Len(l)
    BY <1>1, AncBefore, IdxFacts
  <2> QED
    BY <2>1, ParentFacts, IdxFacts
<1>3. /\ i \in Reachable(g) /\ i # u /\ Dominates(g, i, u) /\ i \in StrictDoms(g, u)
      /\ Anc(p, i, u) /\ \A c \in StrictDoms(g, u) : Dominates(g, c, i)
  BY <1>1, DominatorsAbove DEF IsIdom, StrictDoms
<1>4. sm[u] \in Cands(g, l, u) /\ sm[u] \in Reachable(g) /\ Anc(p, i, sm[u]) /\ Idx(l, i) <= Idx(l, sm[u])
  <2>1. sm[u] \in Cands(g, l, u)
    BY <1>1, <1>2 DEF IsSemi
  <2>2. Anc(p, i, sm[u]) /\ sm[u] \in Reachable(g)
    BY <1>1, <1>3, <2>1, DominatorsAboveCands, CandsAbove
  <2> QED
    BY <2>1, <2>2, AncBefore
<1>5. i \in Ids /\ Anc(p, i, w) /\ i # w
  <2>1. i \in Ids /\ Anc(p, i, w)
    BY <1>1, <1>3, IdxFacts, AncFacts
  <2>2. Idx(l, i) < Idx(l, u) /\ Idx(l, u) <= Idx(l, w)
    BY <1>1, <1>3, AncBefore
  <2>3. Idx(l, i) \in Nat /\ Idx(l, u) \in Nat /\ Idx(l, w) \in Nat
    BY <1>1, <1>3, IdxFacts
  <2> QED
    BY <2>1, <2>2, <2>3
<1>6. ASSUME NEW y, OnWay(p, i, w, y)
      PROVE  Dominates(g, i, y) \/ \A a \in Cands(g, l, y) : Idx(l, i) <= Idx(l, a)
  <2>1. y \in Ids /\ Anc(p, i, y) /\ y # i /\ Anc(p, y, w) /\ y \in Reachable(g)
    BY <1>6, AncBefore DEF OnWay
  <2>2. Idx(l, y) \in Nat /\ Idx(l, u) \in Nat /\ Idx(l, i) \in Nat /\ Idx(l, sm[u]) \in Nat
        /\ Idx(l, y) <= Idx(l, w) /\ Idx(l, u) <= Idx(l, w)
    BY <1>1, <1>3, <1>4, <2>1, IdxFacts, AncBefore
  <2>3. CASE Idx(l, y) <= Idx(l, u)
    <3>1. Anc(p, y, u)
      BY <1>1, <2>1, <2>2, <2>3, AncBetween
    <3> QED
      BY <1>1, <1>3, <2>1, <3>1, DominatorPassesUp
  <2>4. CASE Idx(l, u) <= Idx(l, y)
    <3>1. Anc(p, u, y)
      BY <1>1, <2>1, <2>2, <2>4, AncBetween
    <3>2. OnWay(p, sm[w], w, y)
      <4>1. Anc(p, sm[w], y)
        BY <1>1, <2>1, <3>1, IdxFacts, AncFacts
      <4>2. Idx(l, sm[w]) < Idx(l, u) /\ Idx(l, sm[w]) \in Nat
        BY <1>1, AncBefore, IdxFacts
      <4>3. y # sm[w]
        BY <2>2, <2>4, <4>2
      <4> QED
        BY <2>1, <4>1, <4>3 DEF OnWay
    <3>3. y # Start
      <4>1. Idx(l, i) < Idx(l, y) /\ Idx(l, i) \in 1 .. Len(l)
        BY <1>3, <2>1, AncBefore, IdxFacts
      <4> QED
        BY <2>2, <4>1, ParentFacts
    <3>4. Idx(l, sm[u]) <= Idx(l, sm[y]) /\ IsSemi(g, l, sm[y], y)
      BY <2>1, <3>2, <3>3
    <3>5. ASSUME NEW a \in Cands(g, l, y) PROVE Idx(l, i) <= Idx(l, a)
      <4>1. Idx(l, sm[y]) <= Idx(l, a) /\ sm[y] \in Cands(g, l, y)
        BY <3>4, <3>5 DEF IsSemi
      <4>2. Idx(l, sm[y]) \in Nat /\ Idx(l, a) \in Nat
        BY <2>1, <3>5, <4>1, CandsAbove, IdxFacts
      <4> QED
        BY <1>4, <2>2, <3>4, <4>1, <4>2
    <3> QED
      BY <3>5
  <2> QED
    BY <2>2, <2>3, <2>4
<1>7. Dominates(g, i, w)
  BY <1>5, <1>6, DominatesIfWayGuarded
<1>8. ASSUME NEW c \in StrictDoms(g, w) PROVE Dominates(g, c, i)
  <2>1. Dominates(g, c, w) /\ c \in Reachable(g) /\ Anc(p, c, sm[w]) /\ c \in Ids /\ sm[w] \in Ids
    BY <1>1, DominatorsAboveCands, IdxFacts DEF StrictDoms
  <2>2. Anc(p, c, u)
    BY <1>1, <2>1, AncFacts
  <2>3. c # u
    <3>1. Idx(l, c) <= Idx(l, sm[w]) /\ Idx(l, sm[w]) < Idx(l, u)
      BY <1>1, <2>1, AncBefore
    <3>2. Idx(l, c) \in Nat /\ Idx(l, sm[w]) \in Nat /\ Idx(l, u) \in Nat
      BY <1>1, <2>1, IdxFacts
    <3> QED
      BY <3>1, <3>2
  <2>4. Dominates(g, c, u)
    BY <1>1, <2>1, <2>2, DominatorPassesUp
  <2> QED
    BY <1>3, <2>1, <2>3, <2>4 DEF StrictDoms
<1> QED
  BY <1>3, <1>5, <1>7, <1>8 DEF IsIdom, StrictDoms

\* A block has one immediate dominator at most, and the start block none.
LEMMA OneIdom ==
  ASSUME NEW g \in Graphs, NEW l, NEW p, IsDfsTree(g, l, p), NEW b \in Reachable(g),
         NEW d, NEW e, IsIdom(g, d, b), IsIdom(g, e, b)
  PROVE  d = e
<1>1. /\ d \in Reachable(g) /\ e \in Reachable(g) /\ Dominates(g, d, e) /\ Dominates(g, e, d)
  BY DEF IsIdom, StrictDoms
<1>2. Anc(p, d, e) /\ Anc(p, e, d)
  BY <1>1, DominatorsAbove
<1>3. Idx(l, d) <= Idx(l, e) /\ Idx(l, e) <= Idx(l, d) /\ Idx(l, d) \in Nat /\ Idx(l, e) \in Nat
  BY <1>1, <1>2, AncBefore, IdxFacts
<1>4. Idx(l, d) = Idx(l, e)
  BY <1>3
<1> QED
  BY <1>1, <1>4, IdxFacts

-----------------------------------------------------------------------------
\* How a semidominator is found: from the predecessors of the block, and from the
\* semidominators of blocks entered after it.

\* An edge from below u, which a leads to, carries a on to w.
LEMMA SemiCarriesOn ==
  ASSUME NEW g \in Graphs, NEW l, NEW p, IsDfsTree(g, l, p), NEW w \in Reachable(g),
         NEW v \in Reachable(g), w \in SuccSet(g, v), NEW u, Anc(p, u, v), Idx(l, w) < Idx(l, u),
         NEW a \in Cands(g, l, u), Idx(l, a) < Idx(l, w)
  PROVE  a \in Cands(g, l, w)
<1> DEFINE L == EnteredBefore(g, l, w)  U == EnteredBefore(g, l, u)
<1>1. /\ u \in Reachable(g) /\ a \in Reachable(g) /\ LeadsTowards(g, l, a, u)
  BY AncBefore DEF Cands, EnteredBefore
<1>2. /\ Idx(l, u) \in Nat /\ Idx(l, a) \in Nat /\ Idx(l, w) \in Nat /\ u \in Ids /\ v \in Ids
  BY <1>1, IdxFacts
<1>3. a \in L
  BY <1>1, <1>2 DEF EnteredBefore
<1>4. PICK c \in SuccSet(g, a) : c = u \/ u \in ReachAvoiding(g, c, U)
  BY <1>1 DEF LeadsTowards
<1>5. c \in Reachable(g) /\ c \in Ids
  <2>1. c \in Reachable(g)
    BY <1>1, ReachableFacts
  <2> QED
    BY <2>1, IdxFacts
<1>6. L \subseteq U
  <2>1. \A x \in L : x \in Reachable(g) /\ Idx(l, x) \in Nat /\ Idx(l, x) <= Idx(l, w)
    BY IdxFacts DEF EnteredBefore
  <2>2. \A x \in L : x \in Reachable(g) /\ Idx(l, x) <= Idx(l, u) /\ x # u
    BY <1>2, <2>1
  <2> QED
    BY <2>2 DEF EnteredBefore
<1>7. c \notin U
  <2>1. CASE c = u
    BY <2>1 DEF EnteredBefore
  <2>2. CASE c # u
    BY <1>4, <1>5, <2>2, ReachStaysOut
  <2> QED
    BY <2>1, <2>2
<1> DEFINE F == ReachAvoiding(g, c, L)
<1>8. F \in SUBSET Ids /\ c \in F /\ \A x \in F : SuccSet(g, x) \ L \subseteq F
  BY <1>5, <1>6, <1>7, ReachCloses
<1>9. u \in F
  <2> HIDE DEF F, L, U
  <2>1. \A x \in F : SuccSet(g, x) \ U \subseteq F
    BY <1>6, <1>8
  <2>2. ReachAvoiding(g, c, U) \subseteq F
    BY <1>5, <1>8, <2>1, ReachInClosed
  <2> QED
    BY <1>4, <1>8, <2>2
<1>10. v \in F
  <2>1. ASSUME NEW x, OnWay(p, u, v, x) PROVE x \notin L
    <3>1. x \in Reachable(g) /\ Idx(l, u) <= Idx(l, x)
      BY <2>1, AncBefore DEF OnWay
    <3>2. Idx(l, x) \in Nat
      BY <3>1, IdxFacts
    <3> QED
      BY <1>2, <3>1, <3>2 DEF EnteredBefore
  <2> HIDE DEF F, L
  <2> QED
    BY <1>8, <1>9, <2>1, WayDown
<1>11. w \notin L
  BY DEF EnteredBefore
<1>12. w \in F
  <2> HIDE DEF F, L
  <2> QED
    BY <1>8, <1>10, <1>11
<1>13. LeadsTowards(g, l, a, w)
  BY <1>4, <1>12 DEF LeadsTowards
<1> QED
  BY <1>3, <1>13 DEF Cands

\* All that leads to w does so over an edge of its own, or over one from below a
\* block, entered after w, whose semidominator is as early.
LEMMA SemiComesFrom ==
  ASSUME NEW g \in Graphs, NEW l, NEW p, IsDfsTree(g, l, p), NEW w \in Reachable(g), NEW sm,
         \A x \in Reachable(g) : Idx(l, w) < Idx(l, x) => IsSemi(g, l, sm[x], x),
         NEW a \in Cands(g, l, w)
  PROVE  \E v \in Reachable(g) :
           /\ w \in SuccSet(g, v)
           /\ \/ v = a
              \/ /\ Idx(l, w) < Idx(l, v)
                 /\ \E u \in Reachable(g) : /\ Anc(p, u, v) /\ Idx(l, w) < Idx(l, u)
                                           /\ Idx(l, sm[u]) <= Idx(l, a)
<1> DEFINE L == EnteredBefore(g, l, w)
           F == {x \in Reachable(g) :
                   /\ Idx(l, w) < Idx(l, x)
                   /\ \E u \in Reachable(g) : /\ Anc(p, u, x) /\ Idx(l, w) < Idx(l, u)
                                             /\ Idx(l, sm[u]) <= Idx(l, a)}
<1>1. a \in Reachable(g) /\ LeadsTowards(g, l, a, w) /\ Idx(l, a) < Idx(l, w)
  BY CandsAbove DEF Cands
<1>2. PICK c \in SuccSet(g, a) : c = w \/ w \in ReachAvoiding(g, c, L)
  BY <1>1 DEF LeadsTowards
<1>3. CASE c = w
  BY <1>1, <1>2, <1>3
<1>4. CASE c # w
  <2>1. SUFFICES ASSUME \A v \in F : w \notin SuccSet(g, v) PROVE FALSE
    OBVIOUS
  <2>2. c \in Reachable(g) /\ c \in Ids
    <3>1. c \in Reachable(g)
      BY <1>1, ReachableFacts
    <3> QED
      BY <3>1, IdxFacts
  <2>3. \A x \in Reachable(g) : x \notin L /\ x # w => Idx(l, w) < Idx(l, x)
    <3>1. \A x \in Reachable(g) : x \notin L /\ x # w => ~(Idx(l, x) <= Idx(l, w))
      BY DEF EnteredBefore
    <3>2. \A x \in Reachable(g) : Idx(l, x) \in Nat
      BY IdxFacts
    <3> HIDE DEF L
    <3> QED
      BY <3>1, <3>2
  <2>4. c \notin L /\ Idx(l, w) < Idx(l, c)
    <3>1. c \notin L
      BY <1>2, <1>4, <2>2, ReachStaysOut
    <3> QED
      BY <1>4, <2>2, <2>3, <3>1
  <2>5. \A x \in Reachable(g) : x \in Ids /\ Idx(l, x) \in Nat
    BY IdxFacts
  <2>6. c \in F
    <3>1. a \in Cands(g, l, c)
      <4>1. Idx(l, a) <= Idx(l, c) /\ a # c
        BY <1>1, <2>2, <2>4, <2>5
      <4> QED
        BY <1>1, <1>2, <4>1 DEF Cands, EnteredBefore, LeadsTowards
    <3>2. Idx(l, sm[c]) <= Idx(l, a)
      BY <2>2, <2>4, <3>1 DEF IsSemi
    <3>3. Anc(p, c, c)
      <4>1. p \in [Ids -> Ids \cup {None}]
        BY DEF IsDfsTree
      <4> QED
        BY <2>2, <4>1, AncFacts
    <3> QED
      BY <2>2, <2>4, <3>2, <3>3
  <2>7. ASSUME NEW x \in F, NEW n \in SuccSet(g, x) \ L PROVE n \in F
    <3>1. /\ x \in Reachable(g) /\ Idx(l, w) < Idx(l, x) /\ x \in Ids /\ n \in Reachable(g) /\ n \in Ids
          /\ Idx(l, x) \in Nat /\ Idx(l, n) \in Nat
      <4>1. n \in Reachable(g)
        BY <2>7, ReachableFacts
      <4> QED
        BY <2>5, <2>7, <4>1
    <3>2. PICK u \in Reachable(g) : /\ Anc(p, u, x) /\ Idx(l, w) < Idx(l, u)
                                   /\ Idx(l, sm[u]) <= Idx(l, a)
      BY <2>7
    <3>3. n # w /\ Idx(l, w) < Idx(l, n)
      <4>1. n # w
        BY <2>1, <2>7
      <4> QED
        BY <2>3, <2>7, <3>1, <4>1
    <3>4. u \in Ids /\ Idx(l, u) \in Nat /\ Idx(l, u) <= Idx(l, x)
      BY <2>5, <3>1, <3>2, AncBefore
    <3>5. Anc(p, u, n) \/ Idx(l, sm[n]) <= Idx(l, a)
      <4>1. CASE Idx(l, x) < Idx(l, n)
        <5>1. Anc(p, x, n) /\ p \in [Ids -> Ids \cup {None}]
          BY <2>7, <3>1, <4>1 DEF IsDfsTree
        <5> QED
          BY <3>1, <3>2, <3>4, <5>1, AncFacts
      <4>2. CASE Idx(l, n) <= Idx(l, x) /\ Idx(l, u) <= Idx(l, n)
        BY <3>1, <3>2, <4>2, AncBetween
      <4>3. CASE Idx(l, n) < Idx(l, u)
        <5>1. sm[u] \in Cands(g, l, u) /\ sm[u] \in Reachable(g)
          BY <3>2, CandsAbove DEF IsSemi
        <5>2. Idx(l, sm[u]) < Idx(l, n) /\ Idx(l, sm[u]) \in Nat
          BY <1>1, <2>5, <3>1, <3>2, <3>3, <5>1
        <5>3. sm[u] \in Cands(g, l, n)
          BY <2>7, <3>1, <3>2, <4>3, <5>1, <5>2, SemiCarriesOn
        <5>4. Idx(l, sm[n]) <= Idx(l, sm[u]) /\ sm[n] \in Cands(g, l, n)
          BY <3>1, <3>3, <5>3 DEF IsSemi
        <5>5. Idx(l, sm[n]) \in Nat
          BY <2>5, <3>1, <5>4, CandsAbove
        <5> QED
          BY <1>1, <2>5, <3>2, <5>2, <5>4, <5>5
      <4> QED
        BY <3>1, <3>4, <4>1, <4>2, <4>3
    <3>6. Anc(p, n, n)
      <4>1. p \in [Ids -> Ids \cup {None}]
        BY DEF IsDfsTree
      <4> QED
        BY <3>1, <4>1, AncFacts
    <3> QED
      BY <3>1, <3>2, <3>3, <3>5, <3>6
  <2>8. w \in F
    <3>1. F \in SUBSET Ids
      BY <2>5
    <3>2. \A x \in F : SuccSet(g, x) \ L \subseteq F
      BY <2>7
    <3> HIDE DEF F, L
    <3>3. ReachAvoiding(g, c, L) \subseteq F
      BY <2>2, <2>6, <3>1, <3>2, ReachInClosed
    <3> QED
      BY <1>2, <1>4, <3>3
  <2>9. Idx(l, w) \in Nat
    BY <2>5
  <2> QED
    BY <2>8, <2>9
<1> QED
  BY <1>3, <1>4

-----------------------------------------------------------------------------
\* The walk so far. Two blocks still to be left: the lower one is reached by a way
\* that does not pass the upper.
LeavesNested(g, t) ==
  \A j, k \in 1 .. Len(t) :
    j < k /\ t[j].leave /\ t[k].leave => t[k].bb \in ReachAvoiding(g, Start, {t[j].bb})

\* A successor of a block to be left has been met or is to be entered before.
EntersFirst(g, m, t) ==
  \A k \in 1 .. Len(t) : t[k].leave =>
    \A c \in SuccSet(g, t[k].bb) : c \in m \/ \E j \in 1 .. k - 1 : t[j] = Entering(c)

ToLeave(t) == {t[k].bb : k \in {k \in 1 .. Len(t) : t[k].leave}}

\* What a block of the list dominates is in front of it.
DominatedFirst(g, l) ==
  \A k \in 1 .. Len(l) : \A b \in Reachable(g) \ {l[k]} :
    Dominates(g, l[k], b) => \E j \in 1 .. k - 1 : l[j] = b

PostOK(g, n, m, l, t) ==
  /\ m \in SUBSET Ids /\ l \in Seq(Ids) /\ t \in Seq(Items)
  /\ m \subseteq Reachable(g) /\ m = ToSet(l) \cup ToLeave(t) /\ ToSet(l) \cap ToLeave(t) = {}
  /\ IsInjective(l) /\ DominatedFirst(g, l)
  /\ LeavesNested(g, t) /\ EntersFirst(g, m, t)
  /\ \A b \in ToSet(l) : SuccSet(g, b) \subseteq m
  /\ \A k \in 1 .. Len(t) : ~t[k].leave => t[k].bb = Start \/ \E b \in m : t[k].bb \in SuccSet(g, b)
  /\ Start \in m \/ \E k \in 1 .. Len(t) : t[k] = Entering(Start)
  /\ \A x \in Ids \ m : m \subseteq ReachAvoiding(g, Start, {x})
  /\ t = <<>> \/ n + Len(t) <= 3 * Cardinality(m) + 1

\* What is left when the first item is taken.
LEMMA AfterFirst ==
  ASSUME NEW S, NEW t \in Seq(S), NEW i, NEW r, Splits(t, i, r)
  PROVE  /\ i \in S /\ r \in Seq(S) /\ Len(r) \in Nat /\ Len(t) = Len(r) + 1 /\ t[1] = i
         /\ \A k \in 1 .. Len(r) : k + 1 \in 1 .. Len(t) /\ t[k + 1] = r[k]
         /\ \A k \in 1 .. Len(t) : k = 1 \/ (k - 1 \in 1 .. Len(r) /\ t[k] = r[k - 1])
<1>1. t # <<>> /\ Head(t) = i /\ Tail(t) = r
  BY DEF Splits
<1>2. /\ i \in S /\ i = t[1] /\ r \in Seq(S)
      /\ Len(r) = Len(t) - 1 /\ Len(t) \in Nat \ {0}
      /\ \A k \in 1 .. Len(t) - 1 : r[k] = t[k + 1]
  BY <1>1, HeadTailFacts
<1>3. Len(r) \in Nat /\ Len(t) = Len(r) + 1 /\ \A k \in 1 .. Len(r) : k + 1 \in 1 .. Len(t) /\ t[k + 1] = r[k]
  <2>1. Len(r) \in Nat /\ Len(t) = Len(r) + 1
    BY <1>2
  <2>2. ASSUME NEW k \in 1 .. Len(r) PROVE k + 1 \in 1 .. Len(t) /\ t[k + 1] = r[k]
    <3>1. k + 1 \in 1 .. Len(t) /\ k \in 1 .. Len(t) - 1
      BY <2>1
    <3> QED
      BY <1>2, <3>1
  <2> QED
    BY <2>1, <2>2
<1>4. ASSUME NEW k \in 1 .. Len(t), k # 1 PROVE k - 1 \in 1 .. Len(r) /\ t[k] = r[k - 1]
  <2>1. k - 1 \in 1 .. Len(r) /\ (k - 1) + 1 = k
    BY <1>3, <1>4
  <2> QED
    BY <1>3, <2>1
<1> QED
  BY <1>2, <1>3, <1>4

\* The walk stays OK over a step that leaves h.
LEMMA LeaveKeeps ==
  ASSUME NEW g \in Graphs, NEW n \in Nat, NEW m, NEW l, NEW t, PostOK(g, n, m, l, t),
         NEW h, NEW r, Splits(t, Leaving(h), r)
  PROVE  PostOK(g, n + 1, m, Append(l, h), r)
<1> DEFINE ll == Append(l, h)
<1>1. /\ m \in SUBSET Ids /\ l \in Seq(Ids) /\ t \in Seq(Items)
      /\ m \subseteq Reachable(g) /\ m = ToSet(l) \cup ToLeave(t) /\ ToSet(l) \cap ToLeave(t) = {}
      /\ IsInjective(l) /\ DominatedFirst(g, l)
      /\ LeavesNested(g, t) /\ EntersFirst(g, m, t)
      /\ \A b \in ToSet(l) : SuccSet(g, b) \subseteq m
      /\ \A k \in 1 .. Len(t) : ~t[k].leave => t[k].bb = Start \/ \E b \in m : t[k].bb \in SuccSet(g, b)
      /\ Start \in m \/ \E k \in 1 .. Len(t) : t[k] = Entering(Start)
      /\ \A x \in Ids \ m : m \subseteq ReachAvoiding(g, Start, {x})
      /\ t = <<>> \/ n + Len(t) <= 3 * Cardinality(m) + 1
  BY DEF PostOK
<1>2. /\ r \in Seq(Items) /\ Len(r) \in Nat /\ Len(t) = Len(r) + 1 /\ t[1] = Leaving(h)
      /\ \A k \in 1 .. Len(r) : k + 1 \in 1 .. Len(t) /\ t[k + 1] = r[k]
      /\ \A k \in 1 .. Len(t) : k = 1 \/ (k - 1 \in 1 .. Len(r) /\ t[k] = r[k - 1])
  BY <1>1, AfterFirst
<1>3. t[1].leave /\ t[1].bb = h /\ 1 \in 1 .. Len(t) /\ t # <<>>
      /\ \A c : t[1] # Entering(c)
  <2>1. Leaving(h).leave = TRUE /\ Leaving(h).bb = h /\ \A c : Entering(c).leave = FALSE
    BY ItemFacts
  <2>2. Splits(t, Leaving(h), r)
    OBVIOUS
  <2> QED
    BY <1>2, <2>1, <2>2 DEF Splits
<1>4. ToLeave(t) = {h} \cup ToLeave(r) /\ h \notin ToLeave(r)
  <2>1. ToLeave(t) \subseteq {h} \cup ToLeave(r)
    <3> SUFFICES ASSUME NEW k \in 1 .. Len(t), t[k].leave, k # 1 PROVE t[k].bb \in ToLeave(r)
      BY <1>3 DEF ToLeave
    <3>1. k - 1 \in 1 .. Len(r) /\ t[k] = r[k - 1]
      BY <1>2
    <3> QED
      BY <3>1 DEF ToLeave
  <2>2. {h} \cup ToLeave(r) \subseteq ToLeave(t)
    BY <1>2, <1>3 DEF ToLeave
  <2>3. ASSUME NEW k \in 1 .. Len(r), r[k].leave, r[k].bb = h PROVE FALSE
    <3>1. 1 < k + 1 /\ k + 1 \in 1 .. Len(t) /\ t[k + 1] = r[k]
      BY <1>2
    <3>2. h \in ReachAvoiding(g, Start, {h})
      BY <1>1, <1>3, <2>3, <3>1 DEF LeavesNested
    <3> QED
      BY <3>2, FlowGraphAssumption, ReachStaysOut
  <2> QED
    BY <2>1, <2>2, <2>3 DEF ToLeave
<1>5. h \in Ids /\ h \in m /\ h \notin ToSet(l)
  BY <1>1, <1>4
<1>6. SuccSet(g, h) \subseteq m
  <2>1. \A c \in SuccSet(g, h) : c \in m \/ \E j \in 1 .. 1 - 1 : t[j] = Entering(c)
    BY <1>1, <1>3 DEF EntersFirst
  <2>2. 1 .. 1 - 1 = {}
    OBVIOUS
  <2> QED
    BY <2>1, <2>2
<1>7. /\ ll \in Seq(Ids) /\ Len(ll) = Len(l) + 1 /\ ll[Len(l) + 1] = h /\ Len(l) \in Nat
      /\ \A k \in 1 .. Len(l) : ll[k] = l[k]
      /\ ToSet(ll) = ToSet(l) \cup {h} /\ ToSet(l) = {l[k] : k \in 1 .. Len(l)}
      /\ DOMAIN l = 1 .. Len(l) /\ DOMAIN ll = 1 .. Len(l) + 1
      /\ \A k \in 1 .. Len(l) + 1 : k \in 1 .. Len(l) \/ k = Len(l) + 1
  <2>1. /\ ll \in Seq(Ids) /\ Len(ll) = Len(l) + 1 /\ ll[Len(l) + 1] = h
        /\ \A k \in 1 .. Len(l) : ll[k] = l[k]
        /\ ToSet(ll) = ToSet(l) \cup {h}
    BY <1>1, <1>5, AppendFacts
  <2>2. ToSet(l) = {l[k] : k \in 1 .. Len(l)} /\ DOMAIN l = 1 .. Len(l) /\ Len(l) \in Nat
    BY <1>1, ToSetFacts
  <2> HIDE DEF ll
  <2>3. DOMAIN ll = 1 .. Len(l) + 1
    BY <2>1
  <2> QED
    BY <2>1, <2>2, <2>3
<1> HIDE DEF ll
<1>8. IsInjective(ll)
  <2>1. \A j, k \in 1 .. Len(l) : l[j] = l[k] => j = k
    BY <1>1, <1>7 DEF IsInjective
  <2>2. ASSUME NEW j \in 1 .. Len(l) + 1, NEW k \in 1 .. Len(l) + 1, ll[j] = ll[k] PROVE j = k
    <3>1. \A i \in 1 .. Len(l) : ll[i] # h
      BY <1>5, <1>7
    <3> QED
      BY <1>7, <2>1, <2>2, <3>1
  <2> QED
    BY <1>7, <2>2 DEF IsInjective
<1>9. DominatedFirst(g, ll)
  <2>1. ASSUME NEW k \in 1 .. Len(l), NEW b \in Reachable(g) \ {ll[k]}, Dominates(g, ll[k], b)
        PROVE  \E j \in 1 .. k - 1 : ll[j] = b
    <3>1. PICK j \in 1 .. k - 1 : l[j] = b
      BY <1>1, <1>7, <2>1 DEF DominatedFirst
    <3>2. j \in 1 .. Len(l)
      BY <1>7
    <3> QED
      BY <1>7, <3>1, <3>2
  <2>2. ASSUME NEW b \in Reachable(g) \ {h}, Dominates(g, h, b) PROVE b \in ToSet(l)
    <3> DEFINE A == ReachAvoiding(g, Start, {h})
               C == A \cup ToSet(l) \cup {h}
    <3>1. A \subseteq Ids /\ (Start = h \/ Start \in A) /\ \A c \in A : SuccSet(g, c) \subseteq A \cup {h}
      BY FlowGraphAssumption, ReachAvoidingLeast
    <3>2. ToLeave(r) \subseteq A
      <4> SUFFICES ASSUME NEW k \in 1 .. Len(r), r[k].leave PROVE r[k].bb \in A
        BY DEF ToLeave
      <4>1. 1 < k + 1 /\ k + 1 \in 1 .. Len(t) /\ t[k + 1] = r[k]
        BY <1>2
      <4> QED
        BY <1>1, <1>3, <4>1 DEF LeavesNested
    <3>3. m \subseteq C
      BY <1>1, <1>4, <3>2
    <3>4. C \in SUBSET Ids /\ Start \in C /\ \A c \in C : SuccSet(g, c) \subseteq C
      <4>1. \A c \in ToSet(l) \cup {h} : SuccSet(g, c) \subseteq C
        BY <1>1, <1>6, <3>3
      <4>2. C \subseteq Ids
        BY <1>1, <1>5, <3>1
      <4> QED
        BY <3>1, <4>1, <4>2
    <3>5. Reachable(g) \subseteq C
      <4> HIDE DEF C
      <4> QED
        BY <3>4, ReachableFacts
    <3>6. b \notin A
      BY <2>2 DEF Dominates
    <3> QED
      BY <3>5, <3>6
  <2>3. ASSUME NEW b \in Reachable(g) \ {h}, Dominates(g, h, b)
        PROVE  \E j \in 1 .. (Len(l) + 1) - 1 : ll[j] = b
    <3>1. PICK j \in 1 .. Len(l) : l[j] = b
      BY <1>7, <2>2, <2>3
    <3>2. j \in 1 .. (Len(l) + 1) - 1
      BY <1>7
    <3> QED
      BY <1>7, <3>1, <3>2
  <2> SUFFICES ASSUME NEW k \in 1 .. Len(l) + 1, NEW b \in Reachable(g) \ {ll[k]}, Dominates(g, ll[k], b)
               PROVE  \E j \in 1 .. k - 1 : ll[j] = b
    BY <1>7 DEF DominatedFirst
  <2>4. CASE k \in 1 .. Len(l)
    BY <2>1, <2>4
  <2>5. CASE k = Len(l) + 1
    BY <1>7, <2>3, <2>5
  <2> QED
    BY <1>7, <2>4, <2>5
<1>10. m = ToSet(ll) \cup ToLeave(r) /\ ToSet(ll) \cap ToLeave(r) = {}
  BY <1>1, <1>4, <1>7
<1>11. LeavesNested(g, r)
  <2> SUFFICES ASSUME NEW j \in 1 .. Len(r), NEW k \in 1 .. Len(r), j < k, r[j].leave, r[k].leave
               PROVE  r[k].bb \in ReachAvoiding(g, Start, {r[j].bb})
    BY DEF LeavesNested
  <2>1. j + 1 \in 1 .. Len(t) /\ k + 1 \in 1 .. Len(t) /\ j + 1 < k + 1 /\ t[j + 1] = r[j] /\ t[k + 1] = r[k]
    BY <1>2
  <2> QED
    BY <1>1, <2>1 DEF LeavesNested
<1>12. EntersFirst(g, m, r)
  <2> SUFFICES ASSUME NEW k \in 1 .. Len(r), r[k].leave, NEW c \in SuccSet(g, r[k].bb), c \notin m
               PROVE  \E j \in 1 .. k - 1 : r[j] = Entering(c)
    BY DEF EntersFirst
  <2>1. k + 1 \in 1 .. Len(t) /\ t[k + 1] = r[k]
    BY <1>2
  <2>2. PICK j \in 1 .. (k + 1) - 1 : t[j] = Entering(c)
    BY <1>1, <2>1 DEF EntersFirst
  <2>3. j \in 1 .. Len(t) /\ j # 1
    BY <1>2, <1>3, <2>2
  <2>4. r[j - 1] = Entering(c) /\ j - 1 \in 1 .. k - 1
    BY <1>2, <2>2, <2>3
  <2> QED
    BY <2>4
<1>13. \A b \in ToSet(ll) : SuccSet(g, b) \subseteq m
  BY <1>1, <1>6, <1>7
<1>14. \A k \in 1 .. Len(r) : ~r[k].leave => r[k].bb = Start \/ \E b \in m : r[k].bb \in SuccSet(g, b)
  <2> SUFFICES ASSUME NEW k \in 1 .. Len(r), ~r[k].leave
               PROVE  r[k].bb = Start \/ \E b \in m : r[k].bb \in SuccSet(g, b)
    OBVIOUS
  <2>1. k + 1 \in 1 .. Len(t) /\ t[k + 1] = r[k]
    BY <1>2
  <2> QED
    BY <1>1, <2>1
<1>15. Start \in m \/ \E k \in 1 .. Len(r) : r[k] = Entering(Start)
  <2> SUFFICES ASSUME Start \notin m PROVE \E k \in 1 .. Len(r) : r[k] = Entering(Start)
    OBVIOUS
  <2>1. PICK k \in 1 .. Len(t) : t[k] = Entering(Start)
    BY <1>1
  <2>2. k # 1
    BY <1>3, <2>1
  <2> QED
    BY <1>2, <2>1, <2>2
<1>16. r = <<>> \/ (n + 1) + Len(r) <= 3 * Cardinality(m) + 1
  <2>1. IsFiniteSet(m) /\ Cardinality(m) \in Nat
    BY <1>1, FiniteIds, FS_Subset, FS_CardinalityType
  <2> QED
    BY <1>1, <1>2, <1>3, <2>1
<1>17. PostOK(g, n + 1, m, ll, r)
  BY <1>1, <1>2, <1>7, <1>8, <1>9, <1>10, <1>11, <1>12, <1>13, <1>14, <1>15, <1>16, Zenon DEF PostOK
<1> QED
  BY <1>17 DEF ll

\* Nothing happens but that a block to enter has been met.
LEMMA PassKeeps ==
  ASSUME NEW g \in Graphs, NEW n \in Nat, NEW m, NEW l, NEW t, PostOK(g, n, m, l, t),
         NEW h, NEW r, Splits(t, Entering(h), r), h \in m
  PROVE  PostOK(g, n + 1, m, l, r)
<1>1. /\ m \in SUBSET Ids /\ l \in Seq(Ids) /\ t \in Seq(Items)
      /\ m \subseteq Reachable(g) /\ m = ToSet(l) \cup ToLeave(t) /\ ToSet(l) \cap ToLeave(t) = {}
      /\ IsInjective(l) /\ DominatedFirst(g, l)
      /\ LeavesNested(g, t) /\ EntersFirst(g, m, t)
      /\ \A b \in ToSet(l) : SuccSet(g, b) \subseteq m
      /\ \A k \in 1 .. Len(t) : ~t[k].leave => t[k].bb = Start \/ \E b \in m : t[k].bb \in SuccSet(g, b)
      /\ Start \in m \/ \E k \in 1 .. Len(t) : t[k] = Entering(Start)
      /\ \A x \in Ids \ m : m \subseteq ReachAvoiding(g, Start, {x})
      /\ t = <<>> \/ n + Len(t) <= 3 * Cardinality(m) + 1
  BY DEF PostOK
<1>2. /\ r \in Seq(Items) /\ Len(r) \in Nat /\ Len(t) = Len(r) + 1 /\ t[1] = Entering(h)
      /\ \A k \in 1 .. Len(r) : k + 1 \in 1 .. Len(t) /\ t[k + 1] = r[k]
      /\ \A k \in 1 .. Len(t) : k = 1 \/ (k - 1 \in 1 .. Len(r) /\ t[k] = r[k - 1])
  BY <1>1, AfterFirst
<1>3. ~t[1].leave /\ t[1].bb = h /\ 1 \in 1 .. Len(t) /\ t # <<>>
  <2>1. Entering(h).leave = FALSE /\ Entering(h).bb = h
    BY ItemFacts
  <2>2. Splits(t, Entering(h), r)
    OBVIOUS
  <2> QED
    BY <1>2, <2>1, <2>2 DEF Splits
<1>4. ToLeave(r) = ToLeave(t)
  <2>1. ASSUME NEW k \in 1 .. Len(t), t[k].leave PROVE t[k].bb \in ToLeave(r)
    <3>1. k - 1 \in 1 .. Len(r) /\ t[k] = r[k - 1]
      BY <1>2, <1>3, <2>1
    <3> QED
      BY <2>1, <3>1 DEF ToLeave
  <2>2. ASSUME NEW k \in 1 .. Len(r), r[k].leave PROVE r[k].bb \in ToLeave(t)
    BY <1>2, <2>2 DEF ToLeave
  <2> QED
    BY <2>1, <2>2 DEF ToLeave
<1>5. LeavesNested(g, r)
  <2> SUFFICES ASSUME NEW j \in 1 .. Len(r), NEW k \in 1 .. Len(r), j < k, r[j].leave, r[k].leave
               PROVE  r[k].bb \in ReachAvoiding(g, Start, {r[j].bb})
    BY DEF LeavesNested
  <2>1. j + 1 \in 1 .. Len(t) /\ k + 1 \in 1 .. Len(t) /\ j + 1 < k + 1 /\ t[j + 1] = r[j] /\ t[k + 1] = r[k]
    BY <1>2
  <2> QED
    BY <1>1, <2>1 DEF LeavesNested
<1>6. EntersFirst(g, m, r)
  <2> SUFFICES ASSUME NEW k \in 1 .. Len(r), r[k].leave, NEW c \in SuccSet(g, r[k].bb), c \notin m
               PROVE  \E j \in 1 .. k - 1 : r[j] = Entering(c)
    BY DEF EntersFirst
  <2>1. k + 1 \in 1 .. Len(t) /\ t[k + 1] = r[k]
    BY <1>2
  <2>2. PICK j \in 1 .. (k + 1) - 1 : t[j] = Entering(c)
    BY <1>1, <2>1 DEF EntersFirst
  <2>3. j \in 1 .. Len(t) /\ j # 1
    <3>1. Entering(c).bb = c
      BY ItemFacts
    <3> QED
      BY <1>2, <1>3, <2>2, <3>1
  <2>4. r[j - 1] = Entering(c) /\ j - 1 \in 1 .. k - 1
    BY <1>2, <2>2, <2>3
  <2> QED
    BY <2>4
<1>7. \A k \in 1 .. Len(r) : ~r[k].leave => r[k].bb = Start \/ \E b \in m : r[k].bb \in SuccSet(g, b)
  <2> SUFFICES ASSUME NEW k \in 1 .. Len(r), ~r[k].leave
               PROVE  r[k].bb = Start \/ \E b \in m : r[k].bb \in SuccSet(g, b)
    OBVIOUS
  <2>1. k + 1 \in 1 .. Len(t) /\ t[k + 1] = r[k]
    BY <1>2
  <2> QED
    BY <1>1, <2>1
<1>8. Start \in m \/ \E k \in 1 .. Len(r) : r[k] = Entering(Start)
  <2> SUFFICES ASSUME Start \notin m PROVE \E k \in 1 .. Len(r) : r[k] = Entering(Start)
    OBVIOUS
  <2>1. PICK k \in 1 .. Len(t) : t[k] = Entering(Start)
    BY <1>1
  <2>2. k # 1
    <3>1. Entering(Start).bb = Start
      BY ItemFacts
    <3> QED
      BY <1>3, <2>1, <3>1
  <2> QED
    BY <1>2, <2>1, <2>2
<1>9. r = <<>> \/ (n + 1) + Len(r) <= 3 * Cardinality(m) + 1
  <2>1. IsFiniteSet(m) /\ Cardinality(m) \in Nat
    BY <1>1, FiniteIds, FS_Subset, FS_CardinalityType
  <2> QED
    BY <1>1, <1>2, <1>3, <2>1
<1> QED
  BY <1>1, <1>2, <1>4, <1>5, <1>6, <1>7, <1>8, <1>9, Zenon DEF PostOK

\* A list, an element, and another list.
AreThreeParts(S, e, x, r, tt) ==
  /\ tt \in Seq(S) /\ Len(e) \in Nat /\ Len(tt) = Len(e) + 1 + Len(r) /\ Len(r) \in Nat
  /\ \A k \in 1 .. Len(e) : tt[k] = e[k]
  /\ tt[Len(e) + 1] = x
  /\ \A k \in 1 .. Len(r) : tt[Len(e) + 1 + k] = r[k]

LEMMA ThreeParts ==
  ASSUME NEW S, NEW e \in Seq(S), NEW x \in S, NEW r \in Seq(S)
  PROVE  AreThreeParts(S, e, x, r, (e \o <<x>>) \o r)
<1> DEFINE n == Len(e)
<1>1. PICK p : p = e \o <<x>>
  OBVIOUS
<1>2. /\ p \in Seq(S) /\ Len(p) = n + 1 /\ n \in Nat
      /\ \A k \in 1 .. n : p[k] = e[k]
      /\ p[n + 1] = x
  <2>1. p = Append(e, x) /\ n \in Nat
    BY <1>1
  <2> QED
    BY <2>1, AppendFacts
<1>3. PICK c : c = p \o r
  OBVIOUS
<1>4. /\ c \in Seq(S) /\ Len(c) = Len(p) + Len(r) /\ Len(r) \in Nat
      /\ \A k \in 1 .. Len(p) : c[k] = p[k]
      /\ \A k \in 1 .. Len(r) : c[Len(p) + k] = r[k]
  <2>1. p \in Seq(S) /\ Len(r) \in Nat
    BY <1>2
  <2> QED
    BY <1>3, <2>1, ConcatFacts
<1>5. ASSUME NEW k \in 1 .. n PROVE c[k] = e[k]
  <2>1. k \in 1 .. Len(p)
    BY <1>2
  <2> QED
    BY <1>2, <1>4, <2>1
<1>6. c[n + 1] = x
  <2>1. n + 1 \in 1 .. Len(p)
    BY <1>2
  <2> QED
    BY <1>2, <1>4, <2>1
<1>7. c = (e \o <<x>>) \o r
  BY <1>1, <1>3
<1> HIDE DEF n
<1>8. Len(c) = n + 1 + Len(r) /\ \A k \in 1 .. Len(r) : c[n + 1 + k] = r[k]
  BY <1>2, <1>4
<1>9. AreThreeParts(S, e, x, r, c)
  BY <1>2, <1>4, <1>5, <1>6, <1>8 DEF n, AreThreeParts
<1> QED
  BY <1>7, <1>9

\* What is in front after a block was met: its successors, then the block to be left.
LEMMA PendingItems ==
  ASSUME NEW b \in Ids, NEW list \in Seq(Ids), NEW r \in Seq(Items)
  PROVE  LET tt == Pending(b, list) \o r
             n  == Len(list)
         IN  /\ tt \in Seq(Items) /\ n \in Nat /\ Len(tt) = n + 1 + Len(r) /\ Len(r) \in Nat
             /\ \A k \in 1 .. n : tt[k] = Entering(list[k])
             /\ tt[n + 1] = Leaving(b)
             /\ \A k \in 1 .. Len(r) : tt[n + 1 + k] = r[k]
<1>1. PICK e : e = Enters(list)
  OBVIOUS
<1>2. /\ e \in Seq(Items) /\ Len(e) = Len(list) /\ Len(list) \in Nat
      /\ \A k \in 1 .. Len(list) : e[k] = Entering(list[k])
  BY <1>1, EntersFacts
<1>3. PICK x \in Items : x = Leaving(b)
  BY ItemFacts
<1>4. PICK tt : tt = (e \o <<x>>) \o r
  OBVIOUS
<1>5. tt = Pending(b, list) \o r
  BY <1>1, <1>3, <1>4 DEF Pending
<1>6. /\ tt \in Seq(Items) /\ Len(tt) = Len(e) + 1 + Len(r) /\ Len(r) \in Nat
      /\ \A k \in 1 .. Len(e) : tt[k] = e[k]
      /\ tt[Len(e) + 1] = x
      /\ \A k \in 1 .. Len(r) : tt[Len(e) + 1 + k] = r[k]
  <2>1. e \in Seq(Items) /\ x \in Items /\ r \in Seq(Items)
    BY <1>2
  <2>2. AreThreeParts(Items, e, x, r, (e \o <<x>>) \o r)
    BY <2>1, ThreeParts
  <2>3. AreThreeParts(Items, e, x, r, tt)
    BY <1>4, <2>2
  <2> QED
    BY <2>3 DEF AreThreeParts
<1> QED
  BY <1>2, <1>3, <1>5, <1>6

\* A block is met for the first time.
LEMMA MeetKeeps ==
  ASSUME NEW g \in Graphs, NEW n \in Nat, NEW m, NEW l, NEW t, PostOK(g, n, m, l, t),
         NEW h, NEW r, Splits(t, Entering(h), r), h \notin m
  PROVE  PostOK(g, n + 1, m \cup {h}, l, Pending(h, GetSuccessors(g, h)) \o r)
<1> DEFINE list == GetSuccessors(g, h)
           q == Len(list)
           mm == m \cup {h}
           tt == Pending(h, list) \o r
<1>1. /\ m \in SUBSET Ids /\ l \in Seq(Ids) /\ t \in Seq(Items)
      /\ m \subseteq Reachable(g) /\ m = ToSet(l) \cup ToLeave(t) /\ ToSet(l) \cap ToLeave(t) = {}
      /\ IsInjective(l) /\ DominatedFirst(g, l)
      /\ LeavesNested(g, t) /\ EntersFirst(g, m, t)
      /\ \A b \in ToSet(l) : SuccSet(g, b) \subseteq m
      /\ \A k \in 1 .. Len(t) : ~t[k].leave => t[k].bb = Start \/ \E b \in m : t[k].bb \in SuccSet(g, b)
      /\ Start \in m \/ \E k \in 1 .. Len(t) : t[k] = Entering(Start)
      /\ \A x \in Ids \ m : m \subseteq ReachAvoiding(g, Start, {x})
      /\ t = <<>> \/ n + Len(t) <= 3 * Cardinality(m) + 1
  BY DEF PostOK
<1>2. /\ r \in Seq(Items) /\ Len(r) \in Nat /\ Len(t) = Len(r) + 1 /\ t[1] = Entering(h)
      /\ \A k \in 1 .. Len(r) : k + 1 \in 1 .. Len(t) /\ t[k + 1] = r[k]
      /\ \A k \in 1 .. Len(t) : k = 1 \/ (k - 1 \in 1 .. Len(r) /\ t[k] = r[k - 1])
      /\ Entering(h) \in Items
  BY <1>1, AfterFirst
<1>3. ~t[1].leave /\ t[1].bb = h /\ 1 \in 1 .. Len(t) /\ t # <<>> /\ h \in Ids
  <2>1. Entering(h).leave = FALSE /\ Entering(h).bb = h
    BY ItemFacts
  <2>2. Splits(t, Entering(h), r)
    OBVIOUS
  <2> QED
    BY <1>2, <2>1, <2>2, ItemFacts DEF Splits
<1>4. list \in Seq(Ids) /\ q \in Nat /\ q <= 2 /\ ToSet(list) = SuccSet(g, h)
  BY <1>3, SuccessorsInIds
<1>5. /\ tt \in Seq(Items) /\ Len(tt) = q + 1 + Len(r)
      /\ \A k \in 1 .. q : tt[k] = Entering(list[k])
      /\ tt[q + 1] = Leaving(h)
      /\ \A k \in 1 .. Len(r) : tt[q + 1 + k] = r[k]
  BY <1>2, <1>3, <1>4, PendingItems
<1>6. \A k \in 1 .. q : list[k] \in SuccSet(g, h)
  BY <1>4, ToSetFacts
<1>7. \A c \in SuccSet(g, h) : \E k \in 1 .. q : list[k] = c
  BY <1>4, ToSetFacts
<1> HIDE DEF list, q, mm, tt
<1>8. ASSUME NEW k \in 1 .. Len(tt)
      PROVE  \/ k \in 1 .. q /\ ~tt[k].leave /\ tt[k].bb \in SuccSet(g, h)
             \/ k = q + 1 /\ tt[k].leave /\ tt[k].bb = h
             \/ \E i \in 1 .. Len(r) : k = q + 1 + i /\ tt[k] = r[i]
  <2>1. CASE k \in 1 .. q
    BY <1>5, <1>6, <2>1, ItemFacts
  <2>2. CASE k = q + 1
    BY <1>5, <2>2, ItemFacts
  <2>3. CASE k \notin 1 .. q /\ k # q + 1
    <3>1. k - (q + 1) \in 1 .. Len(r) /\ k = q + 1 + (k - (q + 1))
      BY <1>2, <1>4, <1>5, <2>3
    <3> QED
      BY <1>5, <3>1
  <2> QED
    BY <2>1, <2>2, <2>3
<1>9. \A i \in 1 .. Len(r) : q + 1 + i \in 1 .. Len(tt) /\ tt[q + 1 + i] = r[i]
  <2>1. \A i \in 1 .. Len(r) : q + 1 + i \in 1 .. Len(tt)
    BY <1>2, <1>4, <1>5
  <2> QED
    BY <1>5, <2>1
<1>10. \A i \in 1 .. Len(r) : r[i].leave => r[i].bb \in m
  <2> SUFFICES ASSUME NEW i \in 1 .. Len(r), r[i].leave PROVE r[i].bb \in m
    OBVIOUS
  <2>1. i + 1 \in 1 .. Len(t) /\ t[i + 1] = r[i]
    BY <1>2
  <2> QED
    BY <1>1, <2>1 DEF ToLeave
<1>11. ToLeave(tt) = ToLeave(t) \cup {h}
  <2>1. ASSUME NEW k \in 1 .. Len(tt), tt[k].leave PROVE tt[k].bb \in ToLeave(t) \cup {h}
    <3>1. CASE tt[k].bb = h
      BY <3>1
    <3>2. CASE tt[k].bb # h
      <4>1. PICK i \in 1 .. Len(r) : tt[k] = r[i]
        BY <1>8, <2>1, <3>2
      <4>2. i + 1 \in 1 .. Len(t) /\ t[i + 1] = r[i]
        BY <1>2
      <4> QED
        BY <2>1, <4>1, <4>2 DEF ToLeave
    <3> QED
      BY <3>1, <3>2
  <2>2. ASSUME NEW k \in 1 .. Len(t), t[k].leave PROVE t[k].bb \in ToLeave(tt)
    <3>1. k - 1 \in 1 .. Len(r) /\ t[k] = r[k - 1]
      BY <1>2, <1>3, <2>2
    <3>2. q + 1 + (k - 1) \in 1 .. Len(tt) /\ tt[q + 1 + (k - 1)] = r[k - 1]
      BY <1>9, <3>1
    <3> QED
      BY <2>2, <3>1, <3>2 DEF ToLeave
  <2>3. h \in ToLeave(tt)
    <3>1. q + 1 \in 1 .. Len(tt) /\ tt[q + 1].leave /\ tt[q + 1].bb = h
      BY <1>2, <1>4, <1>5, ItemFacts
    <3> QED
      BY <3>1 DEF ToLeave
  <2>4. ToLeave(tt) \subseteq ToLeave(t) \cup {h}
    BY <2>1 DEF ToLeave
  <2>5. ToLeave(t) \subseteq ToLeave(tt)
    BY <2>2 DEF ToLeave
  <2> QED
    BY <2>3, <2>4, <2>5
<1>12. h = Start \/ \E b \in m : h \in SuccSet(g, b)
  BY <1>1, <1>3
<1>13. mm \in SUBSET Ids /\ mm \subseteq Reachable(g)
  <2>1. Start \in Reachable(g) /\ \A b \in Reachable(g) : SuccSet(g, b) \subseteq Reachable(g)
    BY ReachableFacts
  <2> QED
    BY <1>1, <1>3, <1>12, <2>1 DEF mm
<1>14. mm = ToSet(l) \cup ToLeave(tt) /\ ToSet(l) \cap ToLeave(tt) = {}
  BY <1>1, <1>11 DEF mm
<1>15. LeavesNested(g, tt)
  <2> SUFFICES ASSUME NEW j \in 1 .. Len(tt), NEW k \in 1 .. Len(tt), j < k, tt[j].leave, tt[k].leave
               PROVE  tt[k].bb \in ReachAvoiding(g, Start, {tt[j].bb})
    BY DEF LeavesNested
  <2>1. PICK i \in 1 .. Len(r) : k = q + 1 + i /\ tt[k] = r[i]
    <3>1. ~(k \in 1 .. q)
      <4>1. \A x \in 1 .. q : ~tt[x].leave
        BY <1>5, ItemFacts
      <4> QED
        BY <4>1
    <3>2. k # q + 1
      <4>1. ~(j \in 1 .. q)
        <5>1. \A x \in 1 .. q : ~tt[x].leave
          BY <1>5, ItemFacts
        <5> QED
          BY <5>1
      <4> QED
        BY <1>4, <4>1
    <3> QED
      BY <1>8, <3>1, <3>2
  <2>2. CASE tt[j].bb = h
    <3>1. m \subseteq ReachAvoiding(g, Start, {h})
      BY <1>1, <1>3
    <3> QED
      BY <1>10, <2>1, <2>2, <3>1
  <2>3. CASE tt[j].bb # h
    <3>1. PICK i2 \in 1 .. Len(r) : j = q + 1 + i2 /\ tt[j] = r[i2]
      <4>1. \A x \in 1 .. q : ~tt[x].leave
        BY <1>5, ItemFacts
      <4> QED
        BY <1>8, <2>3, <4>1
    <3>2. /\ i2 + 1 \in 1 .. Len(t) /\ i + 1 \in 1 .. Len(t) /\ i2 + 1 < i + 1
          /\ t[i2 + 1] = r[i2] /\ t[i + 1] = r[i]
      BY <1>2, <1>4, <2>1, <3>1
    <3> QED
      BY <1>1, <2>1, <3>1, <3>2 DEF LeavesNested
  <2> QED
    BY <2>2, <2>3
<1>16. EntersFirst(g, mm, tt)
  <2> SUFFICES ASSUME NEW k \in 1 .. Len(tt), tt[k].leave, NEW c \in SuccSet(g, tt[k].bb), c \notin mm
               PROVE  \E j \in 1 .. k - 1 : tt[j] = Entering(c)
    BY DEF EntersFirst
  <2>1. CASE k = q + 1
    <3>1. tt[k].bb = h
      BY <1>5, <2>1, ItemFacts
    <3>2. PICK j \in 1 .. q : list[j] = c
      BY <1>7, <3>1
    <3>3. j \in 1 .. k - 1
      BY <1>4, <2>1
    <3> QED
      BY <1>5, <3>2, <3>3
  <2>2. CASE k # q + 1
    <3>1. PICK i \in 1 .. Len(r) : k = q + 1 + i /\ tt[k] = r[i]
      BY <1>8, <2>2
    <3>2. i + 1 \in 1 .. Len(t) /\ t[i + 1] = r[i]
      BY <1>2
    <3>3. PICK j \in 1 .. (i + 1) - 1 : t[j] = Entering(c)
      BY <1>1, <3>1, <3>2 DEF EntersFirst, mm
    <3>4. j \in 1 .. Len(t) /\ j # 1
      <4>1. Entering(c).bb = c /\ c # h
        BY ItemFacts DEF mm
      <4> QED
        BY <1>2, <1>3, <3>3, <4>1
    <3>5. r[j - 1] = Entering(c) /\ j - 1 \in 1 .. Len(r)
      BY <1>2, <3>3, <3>4
    <3>6. tt[q + 1 + (j - 1)] = Entering(c)
      BY <1>5, <3>5
    <3>7. q + 1 + (j - 1) \in 1 .. k - 1
      BY <1>4, <3>1, <3>3, <3>4
    <3> QED
      BY <3>6, <3>7
  <2> QED
    BY <2>1, <2>2
<1>17. \A b \in ToSet(l) : SuccSet(g, b) \subseteq mm
  BY <1>1 DEF mm
<1>18. \A k \in 1 .. Len(tt) : ~tt[k].leave => tt[k].bb = Start \/ \E b \in mm : tt[k].bb \in SuccSet(g, b)
  <2> SUFFICES ASSUME NEW k \in 1 .. Len(tt), ~tt[k].leave
               PROVE  tt[k].bb = Start \/ \E b \in mm : tt[k].bb \in SuccSet(g, b)
    OBVIOUS
  <2>1. CASE tt[k].bb \in SuccSet(g, h)
    BY <2>1 DEF mm
  <2>2. CASE tt[k].bb \notin SuccSet(g, h)
    <3>1. PICK i \in 1 .. Len(r) : tt[k] = r[i]
      BY <1>8, <2>2
    <3>2. i + 1 \in 1 .. Len(t) /\ t[i + 1] = r[i]
      BY <1>2
    <3> QED
      BY <1>1, <3>1, <3>2 DEF mm
  <2> QED
    BY <2>1, <2>2
<1>19. Start \in mm \/ \E k \in 1 .. Len(tt) : tt[k] = Entering(Start)
  <2> SUFFICES ASSUME Start \notin mm PROVE \E k \in 1 .. Len(tt) : tt[k] = Entering(Start)
    OBVIOUS
  <2>1. PICK k \in 1 .. Len(t) : t[k] = Entering(Start)
    BY <1>1 DEF mm
  <2>2. k # 1
    <3>1. Entering(Start).bb = Start
      BY ItemFacts
    <3> QED
      BY <1>3, <2>1, <3>1 DEF mm
  <2>3. k - 1 \in 1 .. Len(r) /\ r[k - 1] = Entering(Start)
    BY <1>2, <2>1, <2>2
  <2>4. PICK i \in 1 .. Len(r) : r[i] = Entering(Start)
    BY <2>3
  <2>5. q + 1 + i \in 1 .. Len(tt) /\ tt[q + 1 + i] = r[i]
    BY <1>9
  <2>6. PICK x : x = q + 1 + i
    OBVIOUS
  <2>7. x \in 1 .. Len(tt) /\ tt[x] = Entering(Start)
    BY <2>4, <2>5, <2>6
  <2> QED
    BY <2>7, Zenon
<1>20. ASSUME NEW x \in Ids \ mm PROVE mm \subseteq ReachAvoiding(g, Start, {x})
  <2>1. h # x /\ x \in Ids \ m
    BY DEF mm
  <2>2. /\ Start \notin {x} => Start \in ReachAvoiding(g, Start, {x})
        /\ \A c \in ReachAvoiding(g, Start, {x}) : SuccSet(g, c) \ {x} \subseteq ReachAvoiding(g, Start, {x})
    BY FlowGraphAssumption, ReachCloses
  <2>3. m \subseteq ReachAvoiding(g, Start, {x})
    BY <1>1, <2>1
  <2>4. h \in ReachAvoiding(g, Start, {x})
    BY <1>12, <2>1, <2>2, <2>3
  <2> QED
    BY <2>3, <2>4 DEF mm
<1>21. (n + 1) + Len(tt) <= 3 * Cardinality(mm) + 1
  <2>1. IsFiniteSet(m) /\ Cardinality(m) \in Nat
    BY <1>1, FiniteIds, FS_Subset, FS_CardinalityType
  <2>2. Cardinality(mm) = Cardinality(m) + 1
    BY <2>1, FS_AddElement DEF mm
  <2>3. n + Len(t) <= 3 * Cardinality(m) + 1
    BY <1>1, <1>3
  <2>4. Len(tt) = q + Len(t) /\ Len(t) \in Nat
    BY <1>2, <1>4, <1>5
  <2> QED
    BY <1>4, <2>1, <2>2, <2>3, <2>4
<1>22. PostOK(g, n + 1, mm, l, tt)
  BY <1>1, <1>5, <1>13, <1>14, <1>15, <1>16, <1>17, <1>18, <1>19, <1>20, <1>21, Zenon DEF PostOK
<1> QED
  BY <1>22 DEF mm, tt, list

LEMMA PostWalkStep ==
  ASSUME NEW g \in Graphs, NEW n \in Nat, NEW m, NEW l, NEW t, PostOK(g, n, m, l, t)
  PROVE  \E mm, ll, tt : /\ PostStep(g, PostState(m, l, t)) = PostState(mm, ll, tt)
                         /\ PostOK(g, n + 1, mm, ll, tt)
<1>1. CASE t = <<>>
  <2>1. PostOK(g, n + 1, m, l, t)
    BY <1>1 DEF PostOK
  <2> QED
    BY <1>1, <2>1, PostStays
<1>2. CASE t # <<>>
  <2>1. PICK i, r : i = Head(t) /\ r = Tail(t)
    OBVIOUS
  <2>2. Splits(t, i, r)
    BY <1>2, <2>1 DEF Splits
  <2>3. i \in Items
    BY <1>2, <2>1, HeadTailFacts DEF PostOK
  <2>4. PICK b : i = Entering(b) \/ i = Leaving(b)
    BY <2>3, ItemFacts
  <2>5. CASE i = Leaving(b)
    <3>1. Splits(t, Leaving(b), r)
      BY <2>2, <2>5
    <3>2. PostStep(g, PostState(m, l, t)) = PostState(m, Append(l, b), r)
      BY <3>1, PostLeaves
    <3>3. PostOK(g, n + 1, m, Append(l, b), r)
      BY <3>1, LeaveKeeps
    <3> QED
      BY <3>2, <3>3
  <2>6. CASE i = Entering(b) /\ b \in m
    <3>1. Splits(t, Entering(b), r)
      BY <2>2, <2>6
    <3>2. PostStep(g, PostState(m, l, t)) = PostState(m, l, r)
      BY <2>6, <3>1, PostPasses
    <3>3. PostOK(g, n + 1, m, l, r)
      BY <2>6, <3>1, PassKeeps
    <3> QED
      BY <3>2, <3>3
  <2>7. CASE i = Entering(b) /\ b \notin m
    <3>1. Splits(t, Entering(b), r)
      BY <2>2, <2>7
    <3>2. PostStep(g, PostState(m, l, t))
          = PostState(m \cup {b}, l, Pending(b, GetSuccessors(g, b)) \o r)
      BY <2>7, <3>1, PostMeets
    <3>3. PostOK(g, n + 1, m \cup {b}, l, Pending(b, GetSuccessors(g, b)) \o r)
      BY <2>7, <3>1, MeetKeeps
    <3> QED
      BY <3>2, <3>3
  <2> QED
    BY <2>4, <2>5, <2>6, <2>7
<1> QED
  BY <1>1, <1>2

\* Postorder lists the blocks that can be reached, each once, and each behind those it
\* dominates.
LEMMA PostorderLists ==
  ASSUME NEW g \in Graphs
  PROVE  /\ Postorder(g) \in Seq(Ids) /\ ToSet(Postorder(g)) = Reachable(g)
         /\ IsInjective(Postorder(g)) /\ DominatedFirst(g, Postorder(g))
<1>1. PICK W : IsPostWalk(g, W) /\ Postorder(g) = W[3 * Cardinality(Ids) + 1].left
  BY PostorderWalk
<1> DEFINE A == {n \in Nat : \E m, l, t : W[n] = PostState(m, l, t) /\ PostOK(g, n, m, l, t)}
<1>2. 0 \in A
  <2> DEFINE l == <<>>
             t == <<Entering(Start)>>
  <2>1. /\ l \in Seq(Ids) /\ t \in Seq(Items) /\ Len(t) = 1 /\ Len(l) = 0 /\ ToSet(l) = {}
        /\ t[1] = Entering(Start) /\ 1 .. 1 = {1} /\ 1 .. 0 = {} /\ ~t[1].leave /\ t[1].bb = Start
    BY FlowGraphAssumption, ItemFacts DEF ToSet
  <2>2. W[0] = PostState({}, l, t) /\ Cardinality({}) = 0
    BY <1>1, FS_EmptySet DEF IsPostWalk
  <2>4. IsInjective(l)
    BY DEF IsInjective
  <2> HIDE DEF l, t
  <2>5. DominatedFirst(g, l) /\ LeavesNested(g, t) /\ EntersFirst(g, {}, t) /\ ToLeave(t) = {}
    BY <2>1 DEF DominatedFirst, LeavesNested, EntersFirst, ToLeave
  <2>3. PostOK(g, 0, {}, l, t)
    BY <2>1, <2>2, <2>4, <2>5 DEF PostOK
  <2> QED
    BY <2>2, <2>3
<1>3. ASSUME NEW n \in Nat, n \in A PROVE n + 1 \in A
  <2>1. PICK m, l, t : W[n] = PostState(m, l, t) /\ PostOK(g, n, m, l, t)
    BY <1>3
  <2>2. W[n + 1] = PostStep(g, W[n])
    BY <1>1 DEF IsPostWalk
  <2>3. PICK mm, ll, tt : /\ PostStep(g, PostState(m, l, t)) = PostState(mm, ll, tt)
                          /\ PostOK(g, n + 1, mm, ll, tt)
    BY <2>1, PostWalkStep
  <2>4. W[n + 1] = PostState(mm, ll, tt)
    BY <2>1, <2>2, <2>3
  <2> QED
    BY <2>3, <2>4
<1>4. Nat \subseteq A
  <2> HIDE DEF A
  <2> QED
    BY <1>2, <1>3, SetInduction
<1> DEFINE N == 3 * Cardinality(Ids) + 1
<1>5. Cardinality(Ids) \in Nat /\ N \in Nat
  BY FiniteIds, FS_CardinalityType
<1>6. PICK m, l, t : W[N] = PostState(m, l, t) /\ PostOK(g, N, m, l, t)
  BY <1>4, <1>5
<1>7. Postorder(g) = l
  BY <1>1, <1>6 DEF PostState
<1>8. t = <<>>
  <2>1. m \subseteq Ids
    BY <1>6 DEF PostOK
  <2>2. Cardinality(m) <= Cardinality(Ids) /\ Cardinality(m) \in Nat
    BY <2>1, FiniteIds, FS_Subset, FS_CardinalityType
  <2>3. t \in Seq(Items) /\ (t = <<>> \/ N + Len(t) <= 3 * Cardinality(m) + 1)
    BY <1>6 DEF PostOK
  <2> QED
    BY <1>5, <2>2, <2>3
<1>9. ToLeave(t) = {} /\ Start \in m
  <2>1. 1 .. Len(t) = {}
    BY <1>8
  <2> QED
    BY <1>6, <2>1 DEF ToLeave, PostOK
<1>10. /\ m = ToSet(l) /\ m \subseteq Reachable(g) /\ m \in SUBSET Ids
       /\ \A b \in m : SuccSet(g, b) \subseteq m
       /\ l \in Seq(Ids) /\ IsInjective(l) /\ DominatedFirst(g, l)
  BY <1>6, <1>9 DEF PostOK
<1>11. Reachable(g) \subseteq m
  BY <1>9, <1>10, ReachableFacts
<1> QED
  BY <1>7, <1>10, <1>11

-----------------------------------------------------------------------------
\* Walks that avoid blocks: they can be joined, avoid less, and be cut at a block z.
LEMMA ReachJoins ==
  ASSUME NEW g \in Graphs, NEW b \in Ids, NEW A, NEW x \in ReachAvoiding(g, b, A),
         NEW y \in ReachAvoiding(g, x, A)
  PROVE  y \in ReachAvoiding(g, b, A)
<1>1. /\ ReachAvoiding(g, b, A) \in SUBSET Ids
      /\ \A c \in ReachAvoiding(g, b, A) : SuccSet(g, c) \ A \subseteq ReachAvoiding(g, b, A)
  BY ReachCloses
<1> QED
  BY <1>1, ReachInClosed

LEMMA ReachAvoidsLess ==
  ASSUME NEW g \in Graphs, NEW b \in Ids, NEW A, NEW B, A \subseteq B
  PROVE  ReachAvoiding(g, b, B) \subseteq ReachAvoiding(g, b, A)
<1>1. /\ ReachAvoiding(g, b, A) \in SUBSET Ids
      /\ b \notin A => b \in ReachAvoiding(g, b, A)
      /\ \A c \in ReachAvoiding(g, b, A) : SuccSet(g, c) \ A \subseteq ReachAvoiding(g, b, A)
  BY ReachCloses
<1>2. \A c \in ReachAvoiding(g, b, A) : SuccSet(g, c) \ B \subseteq ReachAvoiding(g, b, A)
  BY <1>1
<1>3. b \in ReachAvoiding(g, b, A) \/ b \in B
  BY <1>1
<1> QED
  BY <1>1, <1>2, <1>3, ReachInClosed

LEMMA ReachSplits ==
  ASSUME NEW g \in Graphs, NEW b \in Ids, NEW A, NEW z \in Ids, NEW e \in ReachAvoiding(g, b, A)
  PROVE  \/ e \in ReachAvoiding(g, b, A \cup {z})
         \/ z \in ReachAvoiding(g, b, A) /\ e \in ReachAvoiding(g, z, A)
<1> DEFINE P == ReachAvoiding(g, b, A \cup {z})
           Q == ReachAvoiding(g, z, A)
           R == ReachAvoiding(g, b, A)
<1>1. /\ P \in SUBSET Ids /\ (b \notin A \cup {z} => b \in P)
      /\ \A c \in P : SuccSet(g, c) \ (A \cup {z}) \subseteq P
  BY ReachCloses
<1>2. Q \in SUBSET Ids /\ (z \notin A => z \in Q) /\ \A c \in Q : SuccSet(g, c) \ A \subseteq Q
  BY ReachCloses
<1>3. R \in SUBSET Ids /\ (b \notin A => b \in R) /\ \A c \in R : SuccSet(g, c) \ A \subseteq R
  BY ReachCloses
<1>4. P \subseteq R
  BY ReachAvoidsLess, A \subseteq A \cup {z}
<1> HIDE DEF P, Q, R
<1>5. CASE z \in R
  <2> DEFINE C == P \cup Q
  <2>1. C \in SUBSET Ids /\ (b \in C \/ b \in A) /\ \A c \in C : SuccSet(g, c) \ A \subseteq C
    BY <1>1, <1>2
  <2>2. R \subseteq C
    <3> HIDE DEF C
    <3> QED
      BY <2>1, ReachInClosed DEF R
  <2> QED
    BY <1>5, <2>2 DEF P, Q, R
<1>6. CASE z \notin R
  <2>1. b \in P \/ b \in A
    BY <1>1, <1>3, <1>6
  <2>2. \A c \in P : SuccSet(g, c) \ A \subseteq P
    BY <1>1, <1>3, <1>4, <1>6
  <2>3. R \subseteq P
    BY <1>1, <2>1, <2>2, ReachInClosed DEF R
  <2> QED
    BY <2>3 DEF P, R
<1> QED
  BY <1>5, <1>6

-----------------------------------------------------------------------------
\* Dominance is an order, in which the dominators of a block form a chain.
LEMMA DominanceJoins ==
  ASSUME NEW g \in Graphs, NEW a, NEW b \in Ids, NEW c, Dominates(g, a, b), Dominates(g, b, c)
  PROVE  Dominates(g, a, c)
<1> SUFFICES ASSUME c \in ReachAvoiding(g, Start, {a}) PROVE FALSE
  BY DEF Dominates
<1>1. Start \in Ids
  BY FlowGraphAssumption
<1>2. b \notin ReachAvoiding(g, Start, {a}) /\ c \notin ReachAvoiding(g, Start, {b})
  BY DEF Dominates
<1>3. c \in ReachAvoiding(g, Start, {a} \cup {b})
  BY <1>1, <1>2, ReachSplits
<1>4. ReachAvoiding(g, Start, {a} \cup {b}) \subseteq ReachAvoiding(g, Start, {b})
  BY <1>1, ReachAvoidsLess, {b} \subseteq {a} \cup {b}
<1> QED
  BY <1>2, <1>3, <1>4

\* What contains the start block and has the successors of its blocks has what can
\* be reached.
LEMMA ReachableInClosed ==
  ASSUME NEW g \in Graphs, NEW C \in SUBSET Ids, Start \in C, \A b \in C : SuccSet(g, b) \subseteq C
  PROVE  Reachable(g) \subseteq C
  BY ReachableFacts

LEMMA DominatorsChain ==
  ASSUME NEW g \in Graphs, NEW c \in Reachable(g), NEW a, NEW b, Dominates(g, a, c), Dominates(g, b, c)
  PROVE  Dominates(g, a, b) \/ Dominates(g, b, a)
<1> SUFFICES ASSUME b \in ReachAvoiding(g, Start, {a}), a \in ReachAvoiding(g, Start, {b}) PROVE FALSE
  BY DEF Dominates
<1> DEFINE P == ReachAvoiding(g, Start, {a})
           Q == ReachAvoiding(g, Start, {b})
           C == P \cup Q
<1>1. Start \in Ids
  BY FlowGraphAssumption
<1>2. /\ P \in SUBSET Ids /\ (Start \notin {a} => Start \in P)
      /\ \A x \in P : SuccSet(g, x) \ {a} \subseteq P
  BY <1>1, ReachCloses
<1>3. /\ Q \in SUBSET Ids /\ (Start \notin {b} => Start \in Q)
      /\ \A x \in Q : SuccSet(g, x) \ {b} \subseteq Q
  BY <1>1, ReachCloses
<1>4. b \in P /\ a \in Q /\ c \notin P /\ c \notin Q
  BY DEF Dominates
<1>5. P \cap {a} = {}
  BY <1>1, ReachStaysOut
<1> HIDE DEF P, Q
<1>6. C \in SUBSET Ids /\ Start \in C /\ \A x \in C : SuccSet(g, x) \subseteq C
  BY <1>2, <1>3, <1>4, <1>5
<1>7. Reachable(g) \subseteq C
  <2> HIDE DEF C
  <2> QED
    BY <1>6, ReachableInClosed
<1> QED
  BY <1>4, <1>7

LEMMA DominanceOneWay ==
  ASSUME NEW g \in Graphs, NEW a \in Reachable(g), NEW b \in Reachable(g),
         Dominates(g, a, b), Dominates(g, b, a)
  PROVE  a = b
<1> SUFFICES ASSUME a # b PROVE FALSE
  OBVIOUS
<1> DEFINE C == ReachAvoiding(g, Start, {a, b})
<1>1. Start \in Ids
  BY FlowGraphAssumption
<1>2. /\ C \in SUBSET Ids /\ (Start \notin {a, b} => Start \in C)
      /\ \A x \in C : SuccSet(g, x) \ {a, b} \subseteq C
  BY <1>1, ReachCloses
<1>3. C \subseteq ReachAvoiding(g, Start, {a}) /\ C \subseteq ReachAvoiding(g, Start, {b})
  BY <1>1, ReachAvoidsLess, {a} \subseteq {a, b}, {b} \subseteq {a, b}
<1>4. b \notin ReachAvoiding(g, Start, {a}) /\ a \notin ReachAvoiding(g, Start, {b})
  BY DEF Dominates
<1>5. /\ Start \notin {a} => Start \in ReachAvoiding(g, Start, {a})
      /\ \A x \in ReachAvoiding(g, Start, {a}) : SuccSet(g, x) \ {a} \subseteq ReachAvoiding(g, Start, {a})
  BY <1>1, ReachCloses
<1>6. /\ Start \notin {b} => Start \in ReachAvoiding(g, Start, {b})
      /\ \A x \in ReachAvoiding(g, Start, {b}) : SuccSet(g, x) \ {b} \subseteq ReachAvoiding(g, Start, {b})
  BY <1>1, ReachCloses
<1>7. C \cap {a, b} = {}
  BY <1>1, ReachStaysOut
<1> HIDE DEF C
<1>8. Start \in C
  BY <1>2, <1>4, <1>5, <1>6
<1>9. \A x \in C : SuccSet(g, x) \subseteq C
  BY <1>2, <1>3, <1>4, <1>5, <1>6
<1>10. Reachable(g) \subseteq C
  BY <1>2, <1>8, <1>9, ReachableInClosed
<1> QED
  BY <1>7, <1>10

\* From b on to what b dominates there is a way without a strict dominator of b.
LEMMA WayBelow ==
  ASSUME NEW g \in Graphs, NEW b \in Reachable(g), NEW c \in Reachable(g), Dominates(g, b, c),
         NEW a \in Reachable(g), a # b, Dominates(g, a, b)
  PROVE  c \in ReachAvoiding(g, b, {a})
<1> DEFINE P == ReachAvoiding(g, Start, {b})
           Q == ReachAvoiding(g, b, {a})
           C == P \cup Q
<1>1. Start \in Ids /\ b \in Ids
  BY FlowGraphAssumption, ReachableFacts
<1>2. /\ P \in SUBSET Ids /\ (Start \notin {b} => Start \in P)
      /\ \A x \in P : SuccSet(g, x) \ {b} \subseteq P
  BY <1>1, ReachCloses
<1>3. /\ Q \in SUBSET Ids /\ b \in Q
      /\ \A x \in Q : SuccSet(g, x) \ {a} \subseteq Q
  BY <1>1, ReachCloses
<1>4. a \in P
  BY DominanceOneWay DEF Dominates
<1>5. c \notin P
  BY DEF Dominates
<1> HIDE DEF P, Q
<1>6. C \in SUBSET Ids /\ Start \in C /\ \A x \in C : SuccSet(g, x) \subseteq C
  BY <1>2, <1>3, <1>4
<1>7. Reachable(g) \subseteq C
  <2> HIDE DEF C
  <2> QED
    BY <1>6, ReachableInClosed
<1> QED
  BY <1>5, <1>7 DEF Q

-----------------------------------------------------------------------------
\* The edge from e to h leads back to a block that dominates e, and the loop it
\* makes has more than one block.
LeadsBack(g, h, e) ==
  h \in Reachable(g) /\ e \in Reachable(g) /\ h \in SuccSet(g, e) /\ Dominates(g, h, e) /\ e # h

\* The natural loop of that edge.
LoopOf(g, h, e) == {b \in Reachable(g) : b = h \/ e \in ReachAvoiding(g, b, {h})}

LEMMA HeaderDominates ==
  ASSUME NEW g \in Graphs, NEW h, NEW e, LeadsBack(g, h, e), NEW b \in LoopOf(g, h, e)
  PROVE  Dominates(g, h, b)
<1>1. Start \in Ids /\ e \notin ReachAvoiding(g, Start, {h})
  BY FlowGraphAssumption DEF LeadsBack, Dominates
<1>2. CASE b = h
  <2>1. h \notin ReachAvoiding(g, Start, {h})
    BY <1>1, ReachStaysOut
  <2> QED
    BY <1>2, <2>1 DEF Dominates
<1>3. CASE e \in ReachAvoiding(g, b, {h})
  <2> SUFFICES ASSUME b \in ReachAvoiding(g, Start, {h}) PROVE FALSE
    BY DEF Dominates
  <2> QED
    BY <1>1, <1>3, ReachJoins
<1> QED
  BY <1>2, <1>3 DEF LoopOf

\* A loop whose header lies in another is part of it.
LEMMA LoopInside ==
  ASSUME NEW g \in Graphs, NEW h, NEW e, LeadsBack(g, h, e), NEW k, NEW f, LeadsBack(g, k, f),
         h # k, h \in LoopOf(g, k, f)
  PROVE  LoopOf(g, h, e) \subseteq LoopOf(g, k, f)
<1> SUFFICES ASSUME NEW b \in LoopOf(g, h, e), b # h PROVE b \in LoopOf(g, k, f)
  OBVIOUS
<1>1. /\ h \in Reachable(g) /\ e \in Reachable(g) /\ h \in SuccSet(g, e)
      /\ k \in Reachable(g) /\ b \in Reachable(g) /\ e \in ReachAvoiding(g, b, {h})
      /\ f \in ReachAvoiding(g, h, {k})
  BY DEF LeadsBack, LoopOf
<1>2. h \in Ids /\ k \in Ids /\ b \in Ids /\ e \in Ids
  BY <1>1, ReachableFacts
<1>3. ~Dominates(g, h, k)
  <2>1. Dominates(g, k, h)
    BY HeaderDominates
  <2> QED
    BY <1>1, <2>1, DominanceOneWay
<1>4. e \notin ReachAvoiding(g, k, {h})
  <2> SUFFICES ASSUME e \in ReachAvoiding(g, k, {h}) PROVE FALSE
    OBVIOUS
  <2>1. k \in LoopOf(g, h, e)
    BY <1>1 DEF LoopOf
  <2> QED
    BY <1>3, <2>1, HeaderDominates
<1>5. e \in ReachAvoiding(g, b, {h} \cup {k})
  BY <1>1, <1>2, <1>4, ReachSplits
<1>6. e \in ReachAvoiding(g, b, {k})
  BY <1>2, <1>5, ReachAvoidsLess, {k} \subseteq {h} \cup {k}
<1>7. h \in ReachAvoiding(g, b, {k})
  BY <1>1, <1>2, <1>6, ReachCloses
<1>8. f \in ReachAvoiding(g, b, {k})
  BY <1>1, <1>2, <1>7, ReachJoins
<1> QED
  BY <1>1, <1>8 DEF LoopOf

\* Of two loops with different headers that share a block, one has the other's header.
LEMMA LoopsNested ==
  ASSUME NEW g \in Graphs, NEW h, NEW e, LeadsBack(g, h, e), NEW k, NEW f, LeadsBack(g, k, f),
         h # k, NEW b, b \in LoopOf(g, h, e), b \in LoopOf(g, k, f)
  PROVE  h \in LoopOf(g, k, f) \/ k \in LoopOf(g, h, e)
<1>1. h \in Reachable(g) /\ k \in Reachable(g) /\ b \in Reachable(g) /\ h \in Ids /\ k \in Ids /\ b \in Ids
  BY ReachableFacts DEF LeadsBack, LoopOf
<1>2. Dominates(g, h, b) /\ Dominates(g, k, b)
  BY HeaderDominates
<1>3. ASSUME NEW x, NEW u, LeadsBack(g, x, u), NEW y, NEW v, LeadsBack(g, y, v), x # y,
             x \in Reachable(g), y \in Reachable(g), y \in Ids,
             b \in LoopOf(g, x, u), Dominates(g, x, b), Dominates(g, y, b), Dominates(g, x, y)
      PROVE  y \in LoopOf(g, x, u)
  <2>1. b # x
    BY <1>1, <1>3, DominanceOneWay
  <2>2. u \in ReachAvoiding(g, b, {x})
    BY <1>3, <2>1 DEF LoopOf
  <2>3. b \in ReachAvoiding(g, y, {x})
    BY <1>1, <1>3, WayBelow
  <2>4. u \in ReachAvoiding(g, y, {x})
    BY <1>3, <2>2, <2>3, ReachJoins
  <2> QED
    BY <1>3, <2>4 DEF LoopOf
<1>4. CASE Dominates(g, h, k)
  BY <1>1, <1>2, <1>3, <1>4
<1>5. CASE Dominates(g, k, h)
  BY <1>1, <1>2, <1>3, <1>5
<1> QED
  BY <1>1, <1>2, <1>4, <1>5, DominatorsChain

-----------------------------------------------------------------------------
\* Some of what led to t in g leads to x in h, and x leads to t.
Detoured(g, h, x, t) ==
  /\ \A c \in g.blocks \ {x}, s \in Slots :
       \/ h.succs[c][s] = g.succs[c][s]
       \/ g.succs[c][s] = t /\ h.succs[c][s] = x
  /\ h.succs[x][0] = t /\ SuccSet(h, x) = {t}

\* h is g with a block j between b and one of its successors, F.
Bypasses(g, h, b, F, j) ==
  /\ F \in SuccSet(h, j) /\ SuccSet(h, j) \subseteq {F} /\ F \in SuccSet(g, b) /\ j \in SuccSet(h, b)
  /\ SuccSet(h, b) \subseteq SuccSet(g, b) \cup {j} /\ SuccSet(g, b) \subseteq SuccSet(h, b) \cup {F}
  /\ \A c \in Ids \ {b, j} : SuccSet(h, c) = SuccSet(g, c)

\* The blocks that can be reached are blocks of the graph.
LEMMA ReachableBlocks ==
  ASSUME NEW g, WF(g), Start \in g.blocks
  PROVE  g \in Graphs /\ Reachable(g) \subseteq g.blocks /\ g.blocks \subseteq Ids
<1>1. g \in Graphs /\ g.blocks \in SUBSET Ids /\ \A b \in g.blocks : SuccSet(g, b) \subseteq g.blocks
  BY DEF WF, Shape, Graphs, NoDangling
<1> QED
  BY <1>1, ReachableFacts

\* The same edges lead to the same blocks, and a list stays led.
LEMMA SameEdges ==
  ASSUME NEW g \in Graphs, NEW h \in Graphs, \A c \in Ids : SuccSet(h, c) = SuccSet(g, c)
  PROVE  /\ Reachable(h) = Reachable(g)
         /\ \A L \in Seq(Ids) : Led(g, L) => Led(h, L)
<1>1. Reachable(h) = Reachable(g)
  BY ReachableFacts
<1>2. ASSUME NEW L \in Seq(Ids), Led(g, L) PROVE Led(h, L)
  <2> SUFFICES ASSUME NEW k \in 1 .. Len(L), L[k] # Start
               PROVE  \E i \in 1 .. k - 1 : L[k] \in SuccSet(h, L[i])
    BY DEF Led
  <2>1. PICK i \in 1 .. k - 1 : L[k] \in SuccSet(g, L[i])
    BY <1>2 DEF Led
  <2>2. L[i] \in Ids
    BY <1>2
  <2> QED
    BY <2>1, <2>2
<1> QED
  BY <1>1, <1>2

\* A block that another dominates is listed after it.
LEMMA LedByDominators ==
  ASSUME NEW g \in Graphs, NEW L \in Seq(Ids), IsInjective(L), Led(g, L),
         NEW j \in 1 .. Len(L), NEW k \in 1 .. Len(L), j # k, Dominates(g, L[j], L[k])
  PROVE  j < k
<1> SUFFICES ASSUME k < j PROVE FALSE
  OBVIOUS
<1> DEFINE R == ReachAvoiding(g, Start, {L[j]})
           T == {i \in 1 .. j - 1 : L[i] \notin R}
<1>1. Start \in Ids /\ DOMAIN L = 1 .. Len(L)
  BY FlowGraphAssumption
<1>2. {Start} \ {L[j]} \subseteq R /\ \A c \in R : SuccSet(g, c) \ {L[j]} \subseteq R
  <2> DEFINE avoid == {L[j]}
  <2> HIDE DEF avoid
  <2>1. /\ {Start} \ avoid \subseteq ReachAvoiding(g, Start, avoid)
        /\ \A c \in ReachAvoiding(g, Start, avoid) : SuccSet(g, c) \ avoid \subseteq ReachAvoiding(g, Start, avoid)
    BY <1>1, ReachAvoidingLeast
  <2> QED
    BY <2>1 DEF avoid
<1>3. k \in T
  BY DEF Dominates
<1>4. PICK i \in T : \A x \in T : i <= x
  <2>1. T \subseteq Nat
    <3> HIDE DEF R
    <3> QED
      OBVIOUS
  <2> HIDE DEF T
  <2>2. T # {}
    BY <1>3
  <2> QED
    BY <2>1, <2>2, Least
<1> HIDE DEF R
<1>5. L[i] # L[j]
  BY <1>1, <1>4 DEF IsInjective
<1>6. L[i] # Start
  BY <1>2, <1>4, <1>5
<1>7. PICK x \in 1 .. i - 1 : L[i] \in SuccSet(g, L[x])
  BY <1>4, <1>6 DEF Led
<1>8. L[x] \in R
  BY <1>4, <1>7
<1> QED
  BY <1>2, <1>4, <1>5, <1>7, <1>8

\* From L to M, j is put behind the k-th element.
IsInserted(L, k, j, M) ==
  /\ M \in Seq(Ids) /\ Len(M) = Len(L) + 1 /\ M[k + 1] = j
  /\ \A i \in 1 .. k : M[i] = L[i]
  /\ \A i \in k + 1 .. Len(L) : M[i + 1] = L[i]

\* It joins the elements, each of which stays there once.
LEMMA InsertedElements ==
  ASSUME NEW L \in Seq(Ids), NEW k \in 0 .. Len(L), NEW j, NEW M, IsInserted(L, k, j, M),
         IsInjective(L), j \notin ToSet(L)
  PROVE  /\ ToSet(M) = ToSet(L) \cup {j} /\ IsInjective(M)
<1>1. /\ ToSet(L) = {L[i] : i \in 1 .. Len(L)} /\ DOMAIN L = 1 .. Len(L) /\ Len(L) \in Nat
  BY ToSetFacts
<1>2. /\ ToSet(M) = {M[i] : i \in 1 .. Len(M)} /\ DOMAIN M = 1 .. Len(M) /\ Len(M) = Len(L) + 1
  <2>1. M \in Seq(Ids) /\ Len(M) = Len(L) + 1
    BY DEF IsInserted
  <2> QED
    BY <2>1, ToSetFacts
<1>3. \A i \in 1 .. Len(M) : \/ i = k + 1 /\ M[i] = j
                             \/ i \in 1 .. k /\ M[i] = L[i]
                             \/ i - 1 \in k + 1 .. Len(L) /\ M[i] = L[i - 1]
  BY <1>1, <1>2 DEF IsInserted
<1>4. ToSet(M) \subseteq ToSet(L) \cup {j}
  BY <1>1, <1>2, <1>3
<1>5. ToSet(L) \cup {j} \subseteq ToSet(M)
  <2>1. j \in ToSet(M)
    BY <1>1, <1>2 DEF IsInserted
  <2>2. ASSUME NEW i \in 1 .. Len(L) PROVE L[i] \in ToSet(M)
    <3>1. CASE i \in 1 .. k
      BY <1>1, <1>2, <3>1 DEF IsInserted
    <3>2. CASE i \in k + 1 .. Len(L)
      BY <1>1, <1>2, <3>2 DEF IsInserted
    <3> QED
      BY <1>1, <3>1, <3>2
  <2> QED
    BY <1>1, <2>1, <2>2
<1>6. ASSUME NEW x \in 1 .. Len(M), NEW y \in 1 .. Len(M), M[x] = M[y] PROVE x = y
  <2>1. \A i \in 1 .. Len(L) : L[i] # j
    BY <1>1
  <2>2. \A u, v \in 1 .. Len(L) : L[u] = L[v] => u = v
    BY <1>1 DEF IsInjective
  <2> QED
    BY <1>1, <1>2, <1>3, <1>6, <2>1, <2>2
<1> QED
  BY <1>2, <1>4, <1>5, <1>6 DEF IsInjective

\* A block between a reached block and its successor is reached, and nothing else is.
LEMMA BypassReach ==
  ASSUME NEW g, NEW h, WF(g), h \in Graphs, Start \in g.blocks, NEW b \in Reachable(g), NEW F,
         NEW j \in Ids \ g.blocks, Bypasses(g, h, b, F, j)
  PROVE  Reachable(h) = Reachable(g) \cup {j}
<1>1. g \in Graphs /\ Reachable(g) \subseteq g.blocks /\ g.blocks \subseteq Ids /\ b \in g.blocks
      /\ \A c \in g.blocks : SuccSet(g, c) \subseteq g.blocks
  BY ReachableBlocks DEF WF, Shape, NoDangling
<1>2. /\ Start \in Reachable(h) /\ Reachable(h) \subseteq Ids
      /\ \A c \in Reachable(h) : SuccSet(h, c) \subseteq Reachable(h)
      /\ \A C \in SUBSET Ids : Start \in C /\ (\A c \in C : SuccSet(h, c) \subseteq C)
                             => Reachable(h) \subseteq C
  BY ReachableFacts
<1>3. /\ Start \in Reachable(g)
      /\ \A c \in Reachable(g) : SuccSet(g, c) \subseteq Reachable(g)
      /\ \A C \in SUBSET Ids : Start \in C /\ (\A c \in C : SuccSet(g, c) \subseteq C)
                             => Reachable(g) \subseteq C
  BY <1>1, ReachableFacts
<1>4. Reachable(g) \subseteq Reachable(h) /\ j \in Reachable(h)
  <2> DEFINE C == Reachable(h) \cap g.blocks
  <2>1. C \in SUBSET Ids /\ Start \in C
    BY <1>1, <1>2
  <2>2. ASSUME NEW c \in C PROVE SuccSet(g, c) \subseteq C
    <3>1. CASE c = b
      BY <1>1, <1>2, <3>1 DEF Bypasses
    <3>2. CASE c # b
      BY <1>1, <1>2, <3>2 DEF Bypasses
    <3> QED
      BY <3>1, <3>2
  <2>3. Reachable(g) \subseteq C
    BY <1>3, <2>1, <2>2
  <2> QED
    BY <1>2, <2>3 DEF Bypasses
<1>5. Reachable(h) \subseteq Reachable(g) \cup {j}
  <2> DEFINE C == Reachable(g) \cup {j}
  <2>1. C \in SUBSET Ids /\ Start \in C
    BY <1>1, <1>3
  <2>2. ASSUME NEW c \in C PROVE SuccSet(h, c) \subseteq C
    <3>1. CASE c = b \/ c = j
      BY <1>1, <1>3, <3>1 DEF Bypasses
    <3>2. CASE c # b /\ c # j
      BY <1>1, <1>3, <3>2 DEF Bypasses
    <3> QED
      BY <3>1, <3>2
  <2> QED
    BY <1>2, <2>1, <2>2
<1> QED
  BY <1>4, <1>5

\* Listed right behind the block it was put behind, it keeps the list led.
LEMMA BypassLed ==
  ASSUME NEW g, NEW h, NEW L \in Seq(Ids), IsInjective(L), Led(g, L), NEW k \in 1 .. Len(L),
         NEW F, NEW j \in Ids, j \notin ToSet(L), Bypasses(g, h, L[k], F, j),
         NEW M, IsInserted(L, k, j, M)
  PROVE  Led(h, M)
<1>1. /\ ToSet(L) = {L[i] : i \in 1 .. Len(L)} /\ DOMAIN L = 1 .. Len(L) /\ Len(L) \in Nat
      /\ \A i \in 1 .. Len(L) : L[i] \in Ids /\ L[i] # j
  BY ToSetFacts
<1>2. \A i \in 1 .. Len(L) : L[i] = L[k] => i = k
  BY <1>1 DEF IsInjective
<1>3. ASSUME NEW i \in 1 .. Len(L), i # k PROVE SuccSet(h, L[i]) = SuccSet(g, L[i])
  BY <1>1, <1>2, <1>3 DEF Bypasses
<1>4. ASSUME NEW x \in 1 .. Len(M), M[x] # Start
      PROVE  \E i \in 1 .. x - 1 : M[x] \in SuccSet(h, M[i])
  <2>1. CASE x \in 1 .. k
    <3>1. M[x] = L[x] /\ x \in 1 .. Len(L)
      BY <2>1 DEF IsInserted
    <3>2. PICK i \in 1 .. x - 1 : L[x] \in SuccSet(g, L[i])
      BY <1>4, <3>1 DEF Led
    <3>3. i \in 1 .. Len(L) /\ i # k /\ M[i] = L[i]
      BY <2>1, <3>2 DEF IsInserted
    <3> QED
      BY <1>3, <3>1, <3>2, <3>3
  <2>2. CASE x = k + 1
    <3>1. M[x] = j /\ M[k] = L[k] /\ k \in 1 .. x - 1
      BY <2>2 DEF IsInserted
    <3> QED
      BY <3>1 DEF Bypasses
  <2>3. CASE x > k + 1
    <3>1. x - 1 \in k + 1 .. Len(L) /\ x - 1 \in 1 .. Len(L) /\ M[x] = L[x - 1]
      BY <1>1, <2>3 DEF IsInserted
    <3>2. PICK i \in 1 .. (x - 1) - 1 : L[x - 1] \in SuccSet(g, L[i])
      BY <1>4, <3>1 DEF Led
    <3>3. CASE i = k
      <4>1. M[k] = L[k] /\ M[k + 1] = j /\ k \in 1 .. x - 1 /\ k + 1 \in 1 .. x - 1
        BY <2>3 DEF IsInserted
      <4>2. L[x - 1] \in SuccSet(h, L[k]) \/ L[x - 1] \in SuccSet(h, j)
        BY <3>2, <3>3 DEF Bypasses
      <4> QED
        BY <3>1, <4>1, <4>2
    <3>4. CASE i < k
      <4>1. M[i] = L[i] /\ i \in 1 .. x - 1 /\ i \in 1 .. Len(L)
        BY <3>1, <3>2, <3>4 DEF IsInserted
      <4> QED
        BY <1>3, <3>1, <3>2, <3>4, <4>1
    <3>5. CASE i > k
      <4>1. M[i + 1] = L[i] /\ i + 1 \in 1 .. x - 1 /\ i \in 1 .. Len(L)
        BY <1>1, <3>1, <3>2, <3>5 DEF IsInserted
      <4> QED
        BY <1>3, <3>1, <3>2, <3>5, <4>1
    <3> QED
      BY <3>2, <3>3, <3>4, <3>5
  <2> QED
    BY <1>1, <2>1, <2>2, <2>3
<1> QED
  BY <1>4 DEF Led

-----------------------------------------------------------------------------
\* The last element of the first part.
LEMMA LastOfFirst ==
  ASSUME NEW s \in Seq(Ids), NEW t \in Seq(Ids), s # <<>>
  PROVE  /\ Len(s) \in Nat \ {0} /\ Len(s) <= Len(s \o t) /\ Last(s) = (s \o t)[Len(s)]
         /\ t # <<>> => Len(s) < Len(s \o t) /\ (s \o t)[Len(s) + 1] = Head(t)
         /\ t = <<>> => Len(s) = Len(s \o t) /\ s \o t = s
<1>1. /\ s \o t \in Seq(Ids) /\ Len(s \o t) = Len(s) + Len(t) /\ Len(t) \in Nat
      /\ \A k \in 1 .. Len(s) : (s \o t)[k] = s[k]
      /\ \A k \in 1 .. Len(t) : (s \o t)[Len(s) + k] = t[k]
  BY ConcatFacts
<1>2. Len(s) \in Nat \ {0} /\ Last(s) = s[Len(s)]
  BY FrontFacts
<1>3. t # <<>> => Len(t) \in Nat \ {0} /\ Head(t) = t[1]
  BY HeadTailFacts
<1>4. t = <<>> => s \o t = s
  BY ConcatEmptySeq
<1> QED
  BY <1>1, <1>2, <1>3, <1>4

\* Two lists without repetitions of the same blocks are equally long.
LEMMA LengthOfList ==
  ASSUME NEW L \in Seq(Ids), IsInjective(L)
  PROVE  Len(L) = Cardinality(ToSet(L))
<1>1. /\ ToSet(L) = {L[k] : k \in 1 .. Len(L)} /\ DOMAIN L = 1 .. Len(L) /\ Len(L) \in Nat
  BY ToSetFacts
<1> DEFINE T == ToSet(L)
<1>2. L \in [1 .. Len(L) -> T]
  <2>1. L = [k \in 1 .. Len(L) |-> L[k]]
    OBVIOUS
  <2>2. \A k \in 1 .. Len(L) : L[k] \in T
    BY <1>1
  <2> HIDE DEF T
  <2> QED
    BY <2>1, <2>2
<1>3. L \in Bijection(1 .. Len(L), T)
  <2>1. \A i, k \in 1 .. Len(L) : L[i] = L[k] => i = k
    BY <1>1 DEF IsInjective
  <2>2. \A b \in T : \E k \in 1 .. Len(L) : L[k] = b
    BY <1>1
  <2> HIDE DEF T
  <2> QED
    BY <1>2, <2>1, <2>2 DEF Bijection, Injection, Surjection, IsInjective
<1>4. ExistsBijection(1 .. Len(L), T)
  BY <1>3 DEF ExistsBijection
<1> QED
  BY <1>1, <1>4, FS_CountingElements

\* The loops themselves: what the analysis does to paths, cycles and loop headers.

-----------------------------------------------------------------------------
\* From each slot of a block of A, the way in g through blocks of I leads where A says:
\* d is where the way from a block ends, r how long it may take.
Ways(A, g, I, d, r) ==
  /\ I \subseteq g.blocks /\ A.blocks \cap I = {}
  /\ r \in [Ids \cup {None} -> Nat]
  /\ \A c \in A.blocks \cup {None} : d[c] = c /\ r[c] = 0
  /\ \A b \in A.blocks, s \in Slots : d[g.succs[b][s]] = A.succs[b][s]
  /\ \A c \in I : /\ d[c] = d[g.succs[c][0]] /\ r[g.succs[c][0]] < r[c]
                  /\ r[c] <= Cardinality(I)

\* There are such ways, and what is no part of them has no edges.
WaysLead(A, g, I) ==
  /\ A.blocks \subseteq g.blocks
  /\ \A c \in g.blocks \ (A.blocks \cup I) : Isolated(g, c)
  /\ \E d, r : Ways(A, g, I, d, r)

\* A detour changes no way: x joins the blocks the ways go through.
LEMMA DetourKeepsWays ==
  ASSUME NEW A, NEW g, WF(g), NEW h, h.blocks = g.blocks, NEW I, WaysLead(A, g, I),
         NEW x \in g.blocks \ (A.blocks \cup I), NEW t \in A.blocks \cup I,
         Detoured(g, h, x, t), \A c \in g.blocks \ {x} : Isolated(g, c) => Isolated(h, c)
  PROVE  WaysLead(A, h, I \cup {x})
<1>1. PICK d, r : Ways(A, g, I, d, r)
  BY DEF WaysLead
<1>2. g.blocks \subseteq Ids /\ I \subseteq g.blocks /\ A.blocks \subseteq g.blocks /\ A.blocks \cap I = {}
      /\ t \in Ids /\ t # x /\ x \in Ids /\ None \notin Ids
  BY <1>1, FlowGraphAssumption DEF Ways, WaysLead, WF, Shape, Graphs
<1>3. Isolated(g, x)
  BY DEF WaysLead
<1>4. ASSUME NEW c \in g.blocks, NEW s \in Slots PROVE g.succs[c][s] \in g.blocks \cup {None} /\ g.succs[c][s] # x
  <2>1. SuccSet(g, c) \subseteq g.blocks
    BY DEF WF, Shape, NoDangling
  <2>2. x \notin SuccSet(g, c)
    BY <1>3 DEF WF, Shape, Symmetric, Isolated
  <2> QED
    BY <1>2, <2>1, <2>2 DEF SuccSet
<1> DEFINE e == [c \in Ids \cup {None} |-> IF c = x THEN d[t] ELSE d[c]]
           q == [c \in Ids \cup {None} |-> IF c = x THEN r[t] + 1
                                          ELSE IF r[c] > r[t] THEN r[c] + 1 ELSE r[c]]
<1>5. IsFiniteSet(I) /\ Cardinality(I) \in Nat /\ Cardinality(I \cup {x}) = Cardinality(I) + 1
  BY <1>2, FiniteIds, FS_Subset, FS_CardinalityType, FS_AddElement
<1>6. r[t] \in Nat /\ r[t] <= Cardinality(I)
  BY <1>1, <1>2, <1>5 DEF Ways
<1>7. q \in [Ids \cup {None} -> Nat]
  BY <1>1, <1>6 DEF Ways
<1>8. ASSUME NEW c \in A.blocks \cup {None} PROVE e[c] = c /\ q[c] = 0
  BY <1>1, <1>2, <1>6 DEF Ways
<1>9. ASSUME NEW b \in A.blocks, NEW s \in Slots PROVE e[h.succs[b][s]] = A.succs[b][s]
  <2>1. g.succs[b][s] \in Ids \cup {None} /\ g.succs[b][s] # x /\ d[g.succs[b][s]] = A.succs[b][s]
    BY <1>1, <1>2, <1>4 DEF Ways
  <2>2. h.succs[b][s] = g.succs[b][s] \/ (g.succs[b][s] = t /\ h.succs[b][s] = x)
    BY <1>2 DEF Detoured
  <2> QED
    BY <1>2, <2>1, <2>2
<1>10. ASSUME NEW c \in I \cup {x}
       PROVE  /\ e[c] = e[h.succs[c][0]] /\ q[h.succs[c][0]] < q[c]
              /\ q[c] <= Cardinality(I \cup {x})
  <2>1. CASE c = x
    BY <1>2, <1>5, <1>6, <2>1 DEF Detoured
  <2>2. CASE c # x
    <3> DEFINE v == g.succs[c][0]
    <3>1. c \in Ids /\ v \in Ids \cup {None} /\ v # x
      BY <1>2, <1>4, <2>2, SlotFacts
    <3>2. d[c] = d[v] /\ r[v] < r[c] /\ r[c] <= Cardinality(I) /\ r[v] \in Nat /\ r[c] \in Nat
      BY <1>1, <1>2, <2>2, <3>1 DEF Ways
    <3>3. h.succs[c][0] = v \/ (v = t /\ h.succs[c][0] = x)
      BY <1>2, <2>2, SlotFacts DEF Detoured
    <3> HIDE DEF v
    <3>4. CASE h.succs[c][0] = v
      BY <1>5, <1>6, <2>2, <3>1, <3>2, <3>4
    <3>5. CASE v = t /\ h.succs[c][0] = x
      BY <1>2, <1>5, <1>6, <2>2, <3>1, <3>2, <3>5
    <3> QED
      BY <3>3, <3>4, <3>5
  <2> QED
    BY <2>1, <2>2
<1>11. Ways(A, h, I \cup {x}, e, q)
  <2> HIDE DEF e, q
  <2> QED
    BY <1>2, <1>7, <1>8, <1>9, <1>10 DEF Ways
<1>12. \A c \in h.blocks \ (A.blocks \cup (I \cup {x})) : Isolated(h, c)
  BY DEF WaysLead
<1> HIDE DEF e, q
<1> QED
  BY <1>2, <1>11, <1>12 DEF WaysLead

\* SelectInSeq returns a number.
LEMMA LeastIndex ==
  ASSUME NEW I, I \subseteq Nat
  PROVE  (IF I # {} THEN Min(I) ELSE 0) \in Nat
<1>1. I # {} => \E x \in I : \A y \in I : x <= y
  BY Least
<1> QED
  BY <1>1 DEF Min

\* Where there were edges, they are as they were; what is new has none.
Extends(g, h) ==
  /\ g.blocks \subseteq h.blocks
  /\ \A c \in g.blocks : h.succs[c] = g.succs[c]
  /\ \A c \in h.blocks \ g.blocks : Isolated(h, c)

\* New blocks without edges change no way.
LEMMA ExtendedWays ==
  ASSUME NEW A, NEW g, NEW h, Extends(g, h), \A c \in g.blocks : h.preds[c] = g.preds[c],
         NEW I, WaysLead(A, g, I)
  PROVE  WaysLead(A, h, I)
<1>1. PICK d, r : Ways(A, g, I, d, r)
  BY DEF WaysLead
<1>2. /\ I \subseteq g.blocks /\ A.blocks \cap I = {} /\ r \in [Ids \cup {None} -> Nat]
      /\ \A c \in A.blocks \cup {None} : d[c] = c /\ r[c] = 0
      /\ A.blocks \subseteq g.blocks
  BY <1>1 DEF Ways, WaysLead
<1>3. /\ \A b \in A.blocks, s \in Slots : d[h.succs[b][s]] = A.succs[b][s]
      /\ \A c \in I : /\ d[c] = d[h.succs[c][0]] /\ r[h.succs[c][0]] < r[c]
                      /\ r[c] <= Cardinality(I)
  BY <1>1, <1>2 DEF Ways, Extends
<1>4. I \subseteq h.blocks /\ A.blocks \subseteq h.blocks
  BY <1>2 DEF Extends
<1>5. Ways(A, h, I, d, r)
  BY <1>2, <1>3, <1>4, Zenon DEF Ways
<1>6. ASSUME NEW c \in h.blocks \ (A.blocks \cup I) PROVE Isolated(h, c)
  <2>1. CASE c \in g.blocks
    <3>1. Isolated(g, c)
      BY <2>1 DEF WaysLead
    <3> QED
      BY <2>1, <3>1 DEF Isolated, Extends
  <2>2. CASE c \notin g.blocks
    BY <2>2 DEF Extends
  <2> QED
    BY <2>1, <2>2
<1> QED
  BY <1>4, <1>5, <1>6 DEF WaysLead

\* Every step of a walk through B goes to a block of H or down in rank.
CyclesCut(g, H) ==
  \E B \in SUBSET g.blocks, r \in [Ids -> Nat] :
    /\ Start \in B /\ H \ {None} \subseteq B
    /\ \A b \in B : \A c \in SuccSet(g, b) : c \in B /\ (c \in H \/ r[c] < r[b])

\* A detour to a block of H closes no cycle.
LEMMA DetourKeepsCut ==
  ASSUME NEW g, WF(g), NEW h, h.blocks = g.blocks, NEW H, NEW M, CyclesCut(g, H),
         NEW x \in g.blocks, NEW t \in H \ {None}, Detoured(g, h, x, t),
         M = H \/ M = H \cup {x}
  PROVE  CyclesCut(h, M)
<1>1. PICK B \in SUBSET g.blocks, r \in [Ids -> Nat] :
        /\ Start \in B /\ H \ {None} \subseteq B
        /\ \A b \in B : \A c \in SuccSet(g, b) : c \in B /\ (c \in H \/ r[c] < r[b])
  BY DEF CyclesCut
<1> DEFINE C == B \cup {x}
           q == [c \in Ids |-> IF c = x THEN 0 ELSE r[c] + 1]
<1>2. g.blocks \subseteq Ids /\ C \in SUBSET h.blocks /\ q \in [Ids -> Nat]
  BY DEF WF, Shape, Graphs
<1>3. Start \in C /\ M \ {None} \subseteq C /\ t \in C /\ t \in M
  BY <1>1
<1>4. ASSUME NEW b \in C, NEW c \in SuccSet(h, b) PROVE c \in C /\ (c \in M \/ q[c] < q[b])
  <2>1. CASE b = x
    BY <1>3, <1>4, <2>1 DEF Detoured
  <2>2. CASE b # x
    <3>1. PICK s \in Slots : c = h.succs[b][s] /\ c # None
      BY <1>4 DEF SuccSet
    <3>2. b \in B /\ (c = g.succs[b][s] \/ c = x)
      BY <2>2, <3>1 DEF Detoured
    <3>3. CASE c = x
      BY <1>2, <2>2, <3>2, <3>3
    <3>4. CASE c # x
      <4>1. c \in SuccSet(g, b)
        BY <3>1, <3>2, <3>4 DEF SuccSet
      <4>2. c \in B /\ (c \in H \/ r[c] < r[b]) /\ b \in Ids /\ c \in Ids
        BY <1>1, <1>2, <3>2, <4>1
      <4> QED
        BY <2>2, <3>4, <4>2
    <3> QED
      BY <3>3, <3>4
  <2> QED
    BY <2>1, <2>2
<1> HIDE DEF C, q
<1> QED
  BY <1>2, <1>3, <1>4 DEF CyclesCut

\* New blocks without edges close no cycle.
LEMMA ExtendedCut ==
  ASSUME NEW g, NEW h, Extends(g, h), NEW H, CyclesCut(g, H)
  PROVE  CyclesCut(h, H)
<1>1. PICK B \in SUBSET g.blocks, r \in [Ids -> Nat] :
        /\ Start \in B /\ H \ {None} \subseteq B
        /\ \A b \in B : \A c \in SuccSet(g, b) : c \in B /\ (c \in H \/ r[c] < r[b])
  BY DEF CyclesCut
<1>2. B \in SUBSET h.blocks /\ \A b \in B : SuccSet(h, b) = SuccSet(g, b)
  BY DEF Extends, SuccSet
<1> QED
  BY <1>1, <1>2 DEF CyclesCut

\* What the cut says of the walks that avoid H.
LEMMA CutEndsWalks ==
  ASSUME NEW g, WF(g), NEW H, CyclesCut(g, H), NEW b \in Reachable(g) \ H, NEW c \in SuccSet(g, b)
  PROVE  b \notin ReachAvoiding(g, c, H)
<1>1. PICK B \in SUBSET g.blocks, r \in [Ids -> Nat] :
        /\ Start \in B
        /\ \A x \in B : \A y \in SuccSet(g, x) : y \in B /\ (y \in H \/ r[y] < r[x])
  BY DEF CyclesCut
<1>2. g \in Graphs /\ B \subseteq Ids
  BY DEF WF, Shape, Graphs
<1>3. b \in B /\ c \in B /\ c \in Ids /\ b \in Ids
  <2>1. Reachable(g) \subseteq B
    BY <1>1, <1>2, ReachableFacts
  <2> QED
    BY <1>1, <1>2, <2>1
<1> DEFINE C == {x \in B : x \notin H /\ r[x] <= r[c]}
<1>4. ASSUME c \notin H PROVE ReachAvoiding(g, c, H) \subseteq C
  <2>1. C \in SUBSET Ids /\ {c} \ H \subseteq C
    BY <1>2, <1>3
  <2>2. ASSUME NEW x \in C PROVE SuccSet(g, x) \ H \subseteq C
    <3> SUFFICES ASSUME NEW y \in SuccSet(g, x), y \notin H PROVE y \in C
      OBVIOUS
    <3>1. y \in B /\ r[y] < r[x] /\ y \in Ids /\ x \in Ids
      BY <1>1, <1>2
    <3> QED
      BY <1>3, <3>1
  <2> HIDE DEF C
  <2> QED
    BY <1>2, <1>3, <2>1, <2>2, ReachAvoidingLeast
<1>5. ASSUME c \in H PROVE ReachAvoiding(g, c, H) = {}
  <2>1. {} \in SUBSET Ids /\ {c} \ H = {}
    BY <1>5
  <2> QED
    BY <1>2, <1>3, <2>1, ReachAvoidingLeast
<1>6. c \notin H => r[c] < r[b]
  BY <1>1, <1>3
<1> QED
  BY <1>3, <1>4, <1>5, <1>6

\* A list of one back edge.
LEMMA OneBackEdge == ASSUME NEW b PROVE <<b>> # <<>> /\ ToSet(<<b>>) = {b} /\ Len(<<b>>) = 1
<1>1. <<b>> \in Seq({b}) /\ Len(<<b>>) = 1 /\ <<b>>[1] = b /\ 1 .. 1 = {1}
  OBVIOUS
<1>2. ToSet(<<b>>) = {<<b>>[k] : k \in 1 .. Len(<<b>>)}
  BY <1>1, ToSetFacts
<1> QED
  BY <1>1, <1>2

-----------------------------------------------------------------------------
\* The list that SplitBackEdges and AddPreHeaders go through.
LEMMA CountUp ==
  ASSUME NEW n \in Nat, n # 0
  PROVE  LET s == [l \in 1 .. n |-> l]
         IN  /\ s \in Seq(1 .. n) /\ Tail(s) \in Seq(1 .. n \ {1}) /\ ToSet(Tail(s)) = 1 .. n \ {1}
<1> DEFINE s == [l \in 1 .. n |-> l]
<1>1. s \in Seq(1 .. n) /\ Len(s) = n /\ s # <<>> /\ \A k \in 1 .. n : s[k] = k
  BY SMT
<1> HIDE DEF s
<1>2. /\ Tail(s) \in Seq(1 .. n) /\ Len(Tail(s)) = n - 1
      /\ \A k \in 1 .. n - 1 : Tail(s)[k] = k + 1
  <2>1. /\ Tail(s) \in Seq(1 .. n) /\ Len(Tail(s)) = n - 1
        /\ \A k \in 1 .. n - 1 : Tail(s)[k] = s[k + 1]
    BY <1>1, HeadTailFacts
  <2>2. \A k \in 1 .. n - 1 : k + 1 \in 1 .. n
    OBVIOUS
  <2> QED
    BY <1>1, <2>1, <2>2
<1>3. \A k \in 1 .. n - 1 : Tail(s)[k] \in 1 .. n \ {1}
  <2>0. PICK t : t = Tail(s)
    OBVIOUS
  <2>1. ASSUME NEW k \in 1 .. n - 1 PROVE k + 1 \in 1 .. n /\ k + 1 # 1
    OBVIOUS
  <2>2. \A k \in 1 .. n - 1 : t[k] = k + 1
    BY <1>2, <2>0
  <2>3. \A k \in 1 .. n - 1 : t[k] \in 1 .. n \ {1}
    BY <2>1, <2>2
  <2> QED
    BY <2>0, <2>3
<1>4. Tail(s) \in Seq(1 .. n \ {1})
  <2>0. PICK t : t = Tail(s)
    OBVIOUS
  <2>1. t \in Seq(1 .. n) /\ Len(t) = n - 1 /\ \A k \in 1 .. n - 1 : t[k] \in 1 .. n \ {1}
    BY <1>2, <1>3, <2>0
  <2>2. n - 1 \in Nat
    OBVIOUS
  <2>3. t \in [1 .. n - 1 -> 1 .. n \ {1}]
    BY <2>1, <2>2
  <2>4. \A j \in Nat : \A S : [1 .. j -> S] \subseteq Seq(S)
    OBVIOUS
  <2> QED
    BY <2>0, <2>2, <2>3, <2>4
<1>5. ToSet(Tail(s)) = 1 .. n \ {1}
  <2>1. ToSet(Tail(s)) = {Tail(s)[k] : k \in 1 .. n - 1}
    BY <1>2, ToSetFacts
  <2>2. ASSUME NEW k \in 1 .. n \ {1} PROVE k - 1 \in 1 .. n - 1 /\ Tail(s)[k - 1] = k
    <3>1. k - 1 \in 1 .. n - 1 /\ (k - 1) + 1 = k
      OBVIOUS
    <3> QED
      BY <1>2, <3>1
  <2>3. 1 .. n \ {1} \subseteq ToSet(Tail(s))
    BY <2>1, <2>2
  <2>4. ToSet(Tail(s)) \subseteq 1 .. n \ {1}
    BY <1>3, <2>1
  <2> QED
    BY <2>3, <2>4
<1> QED
  BY <1>1, <1>4, <1>5 DEF s

-----------------------------------------------------------------------------
\* No search from a back edge to a dominating header comes to the start block.
LEMMA StartOutside ==
  ASSUME NEW g \in Graphs, NEW h, NEW e, LeadsBack(g, h, e), h # Start
  PROVE  Start \notin LoopOf(g, h, e)
<1>1. e \in Ids /\ e \notin ReachAvoiding(g, Start, {h})
  BY ReachableFacts DEF LeadsBack, Dominates
<1> QED
  BY <1>1 DEF LoopOf

\* What is known of the blocks that PopulateLoops still has before it: no block is in
\* front of one it dominates, and those that dominate one of them are there too.
ToCome(g, L) ==
  /\ L \in Seq(Ids) /\ ToSet(L) \subseteq Reachable(g) /\ IsInjective(L)
  /\ \A j, k \in 1 .. Len(L) : j < k => ~Dominates(g, L[j], L[k])
  /\ \A b \in ToSet(L), d \in Reachable(g) : Dominates(g, d, b) => d \in ToSet(L)

\* At first it has the list of PO.
LEMMA PostorderToCome ==
  ASSUME NEW g \in Graphs
  PROVE  ToCome(g, Postorder(g)) /\ ToSet(Postorder(g)) = Reachable(g)
<1> DEFINE L == Postorder(g)
<1>1. /\ L \in Seq(Ids) /\ ToSet(L) = Reachable(g) /\ IsInjective(L) /\ DominatedFirst(g, L)
      /\ DOMAIN L = 1 .. Len(L) /\ Len(L) \in Nat /\ ToSet(L) = {L[k] : k \in 1 .. Len(L)}
  BY PostorderLists, ToSetFacts
<1> HIDE DEF L
<1>2. ASSUME NEW j \in 1 .. Len(L), NEW k \in 1 .. Len(L), j < k, Dominates(g, L[j], L[k]) PROVE FALSE
  <2>1. L[k] \in Reachable(g) \ {L[j]}
    BY <1>1, <1>2 DEF IsInjective
  <2>2. PICK i \in 1 .. j - 1 : L[i] = L[k]
    BY <1>2, <2>1, <1>1 DEF DominatedFirst
  <2>3. i \in 1 .. Len(L) /\ i # k
    BY <1>1, <1>2, <2>2
  <2> QED
    BY <1>1, <2>2, <2>3 DEF IsInjective
<1> QED
  BY <1>1, <1>2 DEF ToCome, L

\* The next block does not dominate any of those behind it.
LEMMA NextToCome ==
  ASSUME NEW g \in Graphs, NEW L, ToCome(g, L), L # <<>>
  PROVE  /\ Head(L) \in ToSet(L) /\ Head(L) \in Reachable(g)
         /\ ToCome(g, Tail(L)) /\ ToSet(Tail(L)) = ToSet(L) \ {Head(L)}
         /\ \A b \in ToSet(L) : Dominates(g, Head(L), b) => b = Head(L)
<1> DEFINE T == Tail(L)
<1>1. /\ L \in Seq(Ids) /\ ToSet(L) \subseteq Reachable(g) /\ IsInjective(L)
      /\ \A j, k \in 1 .. Len(L) : j < k => ~Dominates(g, L[j], L[k])
      /\ \A b \in ToSet(L), d \in Reachable(g) : Dominates(g, d, b) => d \in ToSet(L)
  BY DEF ToCome
<1>2. /\ Head(L) = L[1] /\ T \in Seq(Ids) /\ Len(T) = Len(L) - 1 /\ Len(L) \in Nat \ {0}
      /\ \A k \in 1 .. Len(L) - 1 : T[k] = L[k + 1]
      /\ ToSet(L) = {Head(L)} \cup ToSet(T)
  BY <1>1, HeadTailFacts
<1>3. /\ ToSet(L) = {L[k] : k \in 1 .. Len(L)} /\ DOMAIN L = 1 .. Len(L)
      /\ ToSet(T) = {T[k] : k \in 1 .. Len(T)} /\ DOMAIN T = 1 .. Len(T)
  BY <1>1, <1>2, ToSetFacts
<1> HIDE DEF T
<1>4. \A j, k \in 1 .. Len(L) : L[j] = L[k] => j = k
  BY <1>1, <1>3 DEF IsInjective
<1>5. \A k \in 1 .. Len(T) : k + 1 \in 1 .. Len(L) /\ T[k] = L[k + 1] /\ k + 1 # 1 /\ k \in Nat
  BY <1>2
<1>6. Head(L) \notin ToSet(T)
  <2> SUFFICES ASSUME NEW k \in 1 .. Len(T), T[k] = Head(L) PROVE FALSE
    BY <1>3
  <2>1. k + 1 \in 1 .. Len(L) /\ L[k + 1] = L[1] /\ k + 1 # 1 /\ 1 \in 1 .. Len(L)
    BY <1>2, <1>5
  <2> QED
    BY <1>4, <2>1
<1>7. IsInjective(T)
  <2> SUFFICES ASSUME NEW j \in 1 .. Len(T), NEW k \in 1 .. Len(T), T[j] = T[k] PROVE j = k
    BY <1>3 DEF IsInjective
  <2>1. j + 1 \in 1 .. Len(L) /\ k + 1 \in 1 .. Len(L) /\ L[j + 1] = L[k + 1] /\ j \in Nat /\ k \in Nat
    BY <1>5
  <2>2. j + 1 = k + 1
    BY <1>4, <2>1
  <2> QED
    BY <2>1, <2>2
<1>8. ASSUME NEW j \in 1 .. Len(T), NEW k \in 1 .. Len(T), j < k PROVE ~Dominates(g, T[j], T[k])
  <2>1. j + 1 \in 1 .. Len(L) /\ k + 1 \in 1 .. Len(L) /\ j + 1 < k + 1 /\ T[j] = L[j + 1] /\ T[k] = L[k + 1]
    BY <1>2, <1>5, <1>8
  <2> QED
    BY <1>1, <2>1
<1>9. ASSUME NEW b \in ToSet(L), Dominates(g, Head(L), b) PROVE b = Head(L)
  <2>1. PICK k \in 1 .. Len(L) : b = L[k]
    BY <1>3
  <2>2. 1 \in 1 .. Len(L) /\ (k = 1 \/ 1 < k)
    BY <1>2
  <2>3. CASE k = 1
    BY <1>2, <2>1, <2>3
  <2>4. CASE 1 < k
    BY <1>1, <1>2, <1>9, <2>1, <2>2, <2>4
  <2> QED
    BY <2>2, <2>3, <2>4
<1>10. ASSUME NEW b \in ToSet(T), NEW d \in Reachable(g), Dominates(g, d, b) PROVE d \in ToSet(T)
  <2>1. d \in ToSet(L) /\ b \in ToSet(L)
    BY <1>1, <1>2, <1>10
  <2>2. d # Head(L)
    BY <1>6, <1>9, <1>10, <2>1
  <2> QED
    BY <1>2, <2>1, <2>2
<1>11. ToSet(T) \subseteq Reachable(g) /\ T \in Seq(Ids)
  BY <1>1, <1>2
<1>12. ToCome(g, T)
  BY <1>7, <1>8, <1>10, <1>11 DEF ToCome
<1>13. Head(L) \in ToSet(L) /\ Head(L) \in Reachable(g) /\ ToSet(T) = ToSet(L) \ {Head(L)}
  BY <1>1, <1>2, <1>6
<1> QED
  BY <1>9, <1>12, <1>13 DEF T

-----------------------------------------------------------------------------
\* What can be reached from the start block round some blocks are blocks.
LEMMA ReachedBlocks ==
  ASSUME NEW g, WF(g), Start \in g.blocks, NEW A
  PROVE  /\ g \in Graphs /\ Start \in Ids /\ g.blocks \in SUBSET Ids
         /\ ReachAvoiding(g, Start, A) \subseteq g.blocks
<1>1. g \in Graphs /\ Reachable(g) \subseteq g.blocks /\ g.blocks \subseteq Ids
  BY ReachableBlocks
<1>2. Start \in Reachable(g) /\ Start \in Ids
  BY <1>1, ReachableFacts
<1>3. ReachAvoiding(g, Start, A) \subseteq Reachable(g)
  BY <1>1, <1>2, ReachStaysOut
<1> QED
  BY <1>1, <1>2, <1>3

\* A detour leads to what the edges led to, whatever is to be avoided.
LEMMA DetourKeepsReach ==
  ASSUME NEW g, WF(g), NEW h, WF(h), h.blocks = g.blocks, Start \in g.blocks,
         NEW x \in g.blocks, x # Start, Isolated(g, x), NEW t, t # None, Detoured(g, h, x, t),
         NEW A, x \notin A
  PROVE  ReachAvoiding(h, Start, A) \ {x} = ReachAvoiding(g, Start, A)
<1> DEFINE G == ReachAvoiding(g, Start, A)
           H == ReachAvoiding(h, Start, A)
<1>1. /\ g \in Graphs /\ h \in Graphs /\ Start \in Ids /\ g.blocks \in SUBSET Ids
      /\ G \subseteq g.blocks /\ H \subseteq g.blocks
  BY ReachedBlocks
<1>2. /\ Start \notin A => Start \in G
      /\ \A c \in G : SuccSet(g, c) \ A \subseteq G
      /\ Start \notin A => Start \in H
      /\ \A c \in H : SuccSet(h, c) \ A \subseteq H
  BY <1>1, ReachCloses
<1>3. \A c \in g.blocks : x \notin SuccSet(g, c)
  BY DEF WF, Shape, Symmetric, Isolated
<1>4. /\ SuccSet(h, x) = {t}
      /\ \A c \in g.blocks \ {x}, s \in Slots :
           \/ h.succs[c][s] = g.succs[c][s]
           \/ g.succs[c][s] = t /\ h.succs[c][s] = x
  BY DEF Detoured
<1>5. x # None
  BY <1>1, FlowGraphAssumption
<1>6. G \subseteq H \ {x}
  <2> DEFINE Q == H \ {x}
  <2>1. ASSUME NEW c \in Q, NEW d \in SuccSet(g, c) \ A PROVE d \in Q
    <3>1. c \in g.blocks \ {x} /\ d # x
      BY <1>1, <1>3
    <3>2. PICK s \in Slots : d = g.succs[c][s] /\ d # None
      BY DEF SuccSet
    <3>3. CASE h.succs[c][s] = d
      <4>1. d \in SuccSet(h, c)
        BY <3>2, <3>3 DEF SuccSet
      <4> QED
        BY <1>2, <3>1, <4>1
    <3>4. CASE d = t /\ h.succs[c][s] = x
      <4>1. x \in SuccSet(h, c)
        BY <1>5, <3>4 DEF SuccSet
      <4>2. x \in H
        BY <1>2, <4>1
      <4> QED
        BY <1>2, <1>4, <3>1, <3>4, <4>2
    <3> QED
      BY <1>4, <3>1, <3>2, <3>3, <3>4
  <2>2. Q \in SUBSET Ids /\ (Start \in Q \/ Start \in A)
    BY <1>1, <1>2
  <2> HIDE DEF Q
  <2>3. ReachAvoiding(g, Start, A) \subseteq Q
    BY <1>1, <2>1, <2>2, ReachInClosed
  <2> QED
    BY <2>3 DEF Q
<1>7. H \subseteq G \cup {x}
  <2> DEFINE Q == {c \in G \cup {x} : c = x => t \in G \cup A}
  <2>1. ASSUME NEW c \in Q, NEW d \in SuccSet(h, c) \ A PROVE d \in Q
    <3>1. CASE c = x
      BY <1>4, <3>1
    <3>2. CASE c # x
      <4>1. c \in G /\ c \in g.blocks \ {x}
        BY <1>1, <3>2
      <4>2. PICK s \in Slots : d = h.succs[c][s] /\ d # None
        BY DEF SuccSet
      <4>3. CASE d = g.succs[c][s]
        <5>1. d \in SuccSet(g, c)
          BY <4>2, <4>3 DEF SuccSet
        <5> QED
          BY <1>2, <1>3, <4>1, <5>1
      <4>4. CASE g.succs[c][s] = t /\ d = x
        <5>1. t \in SuccSet(g, c)
          BY <4>4 DEF SuccSet
        <5> QED
          BY <1>2, <4>1, <4>4, <5>1
      <4> QED
        BY <1>4, <4>1, <4>2, <4>3, <4>4
    <3> QED
      BY <3>1, <3>2
  <2>2. Q \in SUBSET Ids /\ (Start \in Q \/ Start \in A)
    BY <1>1, <1>2
  <2> HIDE DEF Q
  <2>3. ReachAvoiding(h, Start, A) \subseteq Q
    BY <1>1, <2>1, <2>2, ReachInClosed
  <2> QED
    BY <2>3 DEF Q
<1>8. x \notin G
  BY <1>6
<1> QED
  BY <1>6, <1>7, <1>8

\* New blocks without edges are not reached.
LEMMA ExtendKeepsReach ==
  ASSUME NEW g, WF(g), NEW h, WF(h), Extends(g, h), Start \in g.blocks, NEW A
  PROVE  ReachAvoiding(h, Start, A) = ReachAvoiding(g, Start, A)
<1> DEFINE G == ReachAvoiding(g, Start, A)
           H == ReachAvoiding(h, Start, A)
<1>1. g.blocks \subseteq h.blocks /\ \A c \in g.blocks : SuccSet(h, c) = SuccSet(g, c)
  BY DEF Extends, SuccSet
<1>2. /\ g \in Graphs /\ h \in Graphs /\ Start \in Ids /\ g.blocks \in SUBSET Ids
      /\ G \subseteq g.blocks /\ H \subseteq Ids
  <2>1. Start \in h.blocks
    BY <1>1
  <2>2. h \in Graphs /\ h.blocks \in SUBSET Ids /\ H \subseteq h.blocks
    BY <2>1, ReachedBlocks
  <2> QED
    BY <2>2, ReachedBlocks
<1>3. /\ Start \notin A => Start \in G
      /\ \A c \in G : SuccSet(g, c) \ A \subseteq G
      /\ Start \notin A => Start \in H
      /\ \A c \in H : SuccSet(h, c) \ A \subseteq H
  BY <1>2, ReachCloses
<1>4. H \subseteq G
  <2>1. G \in SUBSET Ids /\ (Start \in G \/ Start \in A) /\ \A c \in G : SuccSet(h, c) \ A \subseteq G
    BY <1>1, <1>2, <1>3
  <2> HIDE DEF G
  <2>2. ReachAvoiding(h, Start, A) \subseteq G
    BY <1>2, <2>1, ReachInClosed
  <2> QED
    BY <2>2
<1>5. G \subseteq H
  <2> DEFINE Q == H \cap g.blocks
  <2>1. \A c \in g.blocks : SuccSet(g, c) \subseteq g.blocks
    BY DEF WF, Shape, NoDangling
  <2>2. Q \in SUBSET Ids /\ (Start \in Q \/ Start \in A) /\ \A c \in Q : SuccSet(g, c) \ A \subseteq Q
    BY <1>1, <1>2, <1>3, <2>1
  <2> HIDE DEF Q
  <2>3. ReachAvoiding(g, Start, A) \subseteq Q
    BY <1>2, <2>2, ReachInClosed
  <2> QED
    BY <2>3 DEF Q
<1> QED
  BY <1>4, <1>5
=============================================================================
