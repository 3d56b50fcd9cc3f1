----------------------------- MODULE CfgShapes -----------------------------
(***************************************************************************)
(* Whole graphs, as the graph builder hands them to the passes: each block *)
(* gets its list of successors (GraphBuilder::SetSuccessors), which fixes  *)
(* what kind of instruction ends it. Also what reachability and dominance  *)
(* mean, from their definitions, for the passes to be compared with.       *)
(***************************************************************************)
EXTENDS FlowGraph, Sequences, SequencesExt

\* No edge leads to the start block and no branch has two equal targets: the
\* code cannot represent either.
SuccLists ==
  LET Targets == Ids \ {Start}
      Pairs   == {p \in Targets \X Targets : p[1] # p[2]}
  IN  {<<>>} \cup {<<t>> : t \in Targets} \cup Pairs

Shapes == [Ids -> SuccLists]

SlotsOf(list) == [s \in Slots |-> IF s < Len(list) THEN list[s + 1] ELSE None]

TermOf(list) == CASE Len(list) = 0 -> "ret" [] Len(list) = 1 -> "none" [] Len(list) = 2 -> "cond"

GraphOf(shape) ==
  [blocks |-> Ids,
   succs  |-> [b \in Ids |-> SlotsOf(shape[b])],
   preds  |-> [b \in Ids |-> {p \in Ids : \E k \in DOMAIN shape[p] : shape[p][k] = b}],
   term   |-> [b \in Ids |-> TermOf(shape[b])]]

-----------------------------------------------------------------------------
\* The successors of a block but for those in skip, in the order of their slots.
SuccessorsBut(g, b, skip) ==
  LET Slot(s) == IF g.succs[b][s] \in skip THEN <<>> ELSE <<g.succs[b][s]>>
  IN  Slot(FALLTHROUGH) \o Slot(BRANCH_TRUE)

\* GetSuccessors: the slots that are set, in their order.
GetSuccessors(g, b) == SuccessorsBut(g, b, {None})

\* The blocks in the order a depth-first walk meets them, what RPO and DFS list:
\* what has been met n steps on and what the walk still has to look at.
Preorder(g) ==
  LET Walk[n \in Nat] ==
        IF n = 0 THEN [met |-> <<>>, todo |-> <<Start>>]
        ELSE LET w == Walk[n - 1] IN
             IF w.todo = <<>> THEN w
             ELSE IF Head(w.todo) \in ToSet(w.met) THEN [w EXCEPT !.todo = Tail(@)]
             ELSE [met  |-> Append(w.met, Head(w.todo)),
                   todo |-> GetSuccessors(g, Head(w.todo)) \o Tail(w.todo)]
  IN  Walk[2 * Cardinality(Ids) + 1].met

\* The blocks in the order the walk leaves them, what PO lists: a block that is
\* entered is left when all that the walk then still has to look at was there.
Postorder(g) ==
  LET Enter(b) == [bb |-> b, leave |-> FALSE]
      Walk[n \in Nat] ==
        IF n = 0 THEN [met |-> {}, left |-> <<>>, todo |-> <<Enter(Start)>>]
        ELSE LET w  == Walk[n - 1]
                 bb == Head(w.todo).bb
             IN  IF w.todo = <<>> THEN w
                 ELSE IF Head(w.todo).leave
                      THEN [met |-> w.met, left |-> Append(w.left, bb), todo |-> Tail(w.todo)]
                 ELSE IF bb \in w.met THEN [w EXCEPT !.todo = Tail(@)]
                 ELSE [met  |-> w.met \cup {bb},
                       left |-> w.left,
                       todo |-> [k \in DOMAIN GetSuccessors(g, bb) |-> Enter(GetSuccessors(g, bb)[k])]
                                \o <<[bb |-> bb, leave |-> TRUE]>> \o Tail(w.todo)]
  IN  Walk[3 * Cardinality(Ids) + 1].left

\* The blocks that control can reach from block b, itself included, without
\* passing through a block of avoid.
ReachAvoiding(g, b, avoid) ==
  LET R[n \in Nat] ==
        IF n = 0 THEN {b} \ avoid
        ELSE LET P == R[n - 1] IN P \cup ((UNION {SuccSet(g, c) : c \in P}) \ avoid)
  IN  R[Cardinality(Ids)]

Reachable(g) == ReachAvoiding(g, Start, {})

\* Every path from the start block to b passes through d.
Dominates(g, d, b) == b \notin ReachAvoiding(g, Start, {d})
=============================================================================
