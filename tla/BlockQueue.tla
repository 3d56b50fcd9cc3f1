----------------------------- MODULE BlockQueue -----------------------------
(***************************************************************************)
(* LivenessAnalysis::LinearizeBlocks: the blocks in an order in which a    *)
(* block comes after all that lead to it, back edges aside, and a loop is  *)
(* in one piece.  A queue holds the blocks that may come next.             *)
(*                                                                         *)
(* What the dominators and the loop analysis left is a record:             *)
(*   headers     the blocks with is_loop_header_                           *)
(*   loop        BasicBlock::loop_                                         *)
(*   outer       Loop::outer_loop_                                         *)
(*   dominators  for each block, those on the way up from it               *)
(* and the state of the loop another: the queue and linear_blocks_.        *)
(***************************************************************************)
EXTENDS CfgShapes

\* GetOuterLoop of l, of that loop, and so on, None at the end if there is one.
Outers(nest, l) ==
  LET Up   == [m \in {None} \cup DOMAIN nest.outer |-> IF m = None THEN None ELSE nest.outer[m]]
      R[n \in Nat] == IF n = 0 THEN l ELSE Up[R[n - 1]]
  IN  {R[n] : n \in 1 .. Cardinality(DOMAIN nest.outer)}

\* Loop::Inside, and that its walk never comes to an end.
Inside(nest, l, other) == other \in Outers(nest, l)
NeverEnds(nest, l, other) == {other, None} \cap Outers(nest, l) = {}

-----------------------------------------------------------------------------
\* Mutated: the header of a loop waits for its back edge; what may come next waits
\* behind all the others.
WaitsForBackEdges(g, nest, listed, b) == g.preds[b] \subseteq listed
AtBack(nest, queue, b) == Len(queue) + 1

AllForwardEdgesVisited(g, nest, listed, b) ==
  \A p \in g.preds[b] \ listed : b \in nest.headers /\ (b = p \/ b \in nest.dominators[p])

\* Before the first block of the queue that is not in a loop inside the one of b.
PlaceInQueue(nest, queue, b) ==
  LET IsInner(c) == Inside(nest, nest.loop[c], nest.loop[b])
      k == SelectInSeq(queue, LAMBDA c : ~IsInner(c))
  IN  IF k = 0 THEN Len(queue) + 1 ELSE k

\* The comparison with one of the blocks in front of that place does not end.
SearchNeverEnds(nest, queue, b) ==
  LET k == PlaceInQueue(nest, queue, b)
  IN  k <= Len(queue) /\ NeverEnds(nest, nest.loop[queue[k]], nest.loop[b])

-----------------------------------------------------------------------------
Beginning == [queue |-> <<Start>>, linear_blocks_ |-> <<>>]

\* What a turn of the loop puts into the queue, in this order.
MayComeNext(g, nest, order) ==
  LET bb     == Head(order.queue)
      listed == ToSet(order.linear_blocks_) \cup {bb}
  IN  SelectSeq(Reverse(GetSuccessors(g, bb)),
                LAMBDA s : s \notin listed /\ AllForwardEdgesVisited(g, nest, listed, s))

Turn(g, nest, order) ==
  [linear_blocks_ |-> Append(order.linear_blocks_, Head(order.queue)),
   queue |-> FoldLeft(LAMBDA q, s : InsertAt(q, PlaceInQueue(nest, q, s), s),
                      Tail(order.queue), MayComeNext(g, nest, order))]

TurnNeverEnds(g, nest, order) ==
  LET new == MayComeNext(g, nest, order)
      Q[n \in 0 .. Len(new)] ==
        IF n = 0 THEN Tail(order.queue)
        ELSE InsertAt(Q[n - 1], PlaceInQueue(nest, Q[n - 1], new[n]), new[n])
  IN  \E n \in DOMAIN new : SearchNeverEnds(nest, Q[n - 1], new[n])

\* All turns.
LinearizeBlocks(g, nest) ==
  LET R[n \in Nat] ==
        IF n = 0 THEN Beginning
        ELSE LET order == R[n - 1]
             IN  IF order.queue = <<>> THEN order ELSE Turn(g, nest, order)
  IN  R[Cardinality(g.blocks)].linear_blocks_
=============================================================================
