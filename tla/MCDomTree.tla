----------------------------- MODULE MCDomTree -----------------------------
(***************************************************************************)
(* Dominators on every graph of five blocks, up to renaming: the blocks    *)
(* that can be reached are numbered as DFS meets them, and the targets of  *)
(* a branch are in order, which loses no graph as a branch whose targets   *)
(* are both new meets the lower one first.                                 *)
(***************************************************************************)
EXTENDS DomTree
MCIds == 0 .. 4

Ordered(list) == Len(list) = 2 => list[1] < list[2]
OrderedShapes ==
  {s \in [Ids -> {list \in SuccLists : Ordered(list)}] : s[0] # <<>> /\ s[0][1] = 1}

InOrder(seq) == \A k \in DOMAIN seq : seq[k] = k - 1

\* Blocks that cannot be reached have no successors, or lead back into the rest.
MCInputs ==
  {g \in {GraphOf(shape) : shape \in OrderedShapes} :
     LET n == Preorder(g) IN
     /\ InOrder(n)
     /\ Len(n) >= 3
     /\ \A b \in Ids \ ToSet(n) : GetNumSuccessors(g, b) < 2}
=============================================================================
