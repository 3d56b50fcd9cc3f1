------------------------------ MODULE DomTree ------------------------------
(***************************************************************************)
(* pass/dom_tree.cpp: immediate dominators by the algorithm of Lengauer    *)
(* and Tarjan.  The pass asks for the DFS pass, whose run is Traversal's   *)
(* (the specification contains the runs of the other three as well);       *)
(* goes through the graph once more to build its spanning tree (FillTree); *)
(* takes the tree's nodes backwards to compute their semidominators, with  *)
(* a forest whose paths are compressed while it is searched; and forwards  *)
(* to turn these into immediate dominators.  A Node is known by its block. *)
(***************************************************************************)
EXTENDS Traversal

VARIABLES
  phase,     \* the call of DomTree::Run that is active
  parent, ancestor, label, semi, dom,   \* the fields of Node, None for null
  bucket, pred,
  at,        \* the position in tree_ the loop of the phase is at
  imm_dominator_   \* BasicBlock::imm_dominator_

nodes == <<parent, ancestor, label, semi, dom, bucket, pred>>

domVars == <<vars, phase, nodes, at, imm_dominator_>>

AllNull == [b \in Ids |-> None]

\* Graph::ClearDominators and ResetState have run, whatever an earlier run left
\* behind, and the nodes of tree_ are fresh.
ClearDominators == AllNull

DomInit ==
  /\ Init
  /\ phase = "DFS"
  /\ parent = AllNull /\ ancestor = AllNull /\ label = AllNull
  /\ semi = AllNull /\ dom = AllNull
  /\ bucket = [b \in Ids |-> <<>>] /\ pred = [b \in Ids |-> <<>>]
  /\ at = 0
  /\ imm_dominator_ = ClearDominators

dfs_idx(b) == Position(b)

-----------------------------------------------------------------------------
RunDFS ==
  /\ phase = "DFS"
  /\ Next
  /\ UNCHANGED <<phase, nodes, at, imm_dominator_>>

\* FillTree enters the root.  The other three passes end where they are done.
FillTree ==
  /\ phase = "DFS"
  /\ pass = "DFS"
  /\ Done
  /\ phase' = "FillTree"
  /\ stack' = <<Call(Start)>>
  /\ label' = [label EXCEPT ![Start] = Start]
  /\ semi' = [semi EXCEPT ![Start] = Start]
  /\ UNCHANGED <<graph, pass, queue, visited, blocks, parent, ancestor, dom, bucket, pred,
                 at, imm_dominator_>>

\* The loop of FillTree_ at a successor that has not been entered.
FillDescend ==
  /\ phase = "FillTree"
  /\ stack # <<>>
  /\ Top.todo # <<>>
  /\ LET w == Head(Top.todo) IN
       /\ semi[w] = None
       /\ parent' = [parent EXCEPT ![w] = Top.bb]
       /\ label' = [label EXCEPT ![w] = w]
       /\ semi' = [semi EXCEPT ![w] = w]
       /\ stack' = Append(stack, Call(w))
  /\ UNCHANGED <<graph, pass, queue, visited, blocks, phase, ancestor, dom, bucket, pred,
                 at, imm_dominator_>>

\* The same loop after the call, or at a successor that needs none.
FillPred ==
  /\ phase = "FillTree"
  /\ stack # <<>>
  /\ Top.todo # <<>>
  /\ LET w == Head(Top.todo) IN
       /\ semi[w] # None
       /\ pred' = [pred EXCEPT ![w] = Append(@, Top.bb)]
  /\ stack' = Append(Front(stack), [Top EXCEPT !.todo = Tail(@)])
  /\ UNCHANGED <<graph, pass, queue, visited, blocks, phase, parent, ancestor, label, semi,
                 dom, bucket, at, imm_dominator_>>

FillReturn ==
  /\ phase = "FillTree"
  /\ stack # <<>>
  /\ Top.todo = <<>>
  /\ stack' = Front(stack)
  /\ IF Len(stack) = 1
     THEN phase' = "ComputeSdoms" /\ at' = Len(blocks)
     ELSE UNCHANGED <<phase, at>>
  /\ UNCHANGED <<graph, pass, queue, visited, blocks, nodes, imm_dominator_>>

-----------------------------------------------------------------------------
\* Link builds a forest and Compress flattens it.
SemiIdx(s, v) == dfs_idx(s[v])

\* The better of two labels; an older one wins a draw.
BetterLabel(s, l, above) == IF SemiIdx(s, above) < SemiIdx(s, l) THEN above ELSE l

\* Compress(v): every node on the way from v to the root of its tree, the root
\* excepted, hangs from the root afterwards, labelled with the best of the
\* labels from it upward.
Compress(f, s, v) ==
  LET Above[x \in Ids] == IF f.ancestor[x] = None THEN {} ELSE {x} \cup Above[f.ancestor[x]]
      NearRoot(x)      == f.ancestor[x] = None \/ f.ancestor[f.ancestor[x]] = None
      Root[x \in Ids]  == IF NearRoot(x) THEN f.ancestor[x] ELSE Root[f.ancestor[x]]
      Best[x \in Ids]  == IF NearRoot(x) THEN f.label[x]
                          ELSE BetterLabel(s, f.label[x], Best[f.ancestor[x]])
  IN  [ancestor |-> [x \in Ids |-> IF x \in Above[v] THEN Root[x] ELSE f.ancestor[x]],
       label    |-> [x \in Ids |-> IF x \in Above[v] THEN Best[x] ELSE f.label[x]]]

\* Eval(v): the node it returns, and the forest it leaves behind.
Eval(f, s, v) ==
  IF f.ancestor[v] = None THEN [node |-> v, forest |-> f]
  ELSE LET c == Compress(f, s, v) IN [node |-> c.label[v], forest |-> c]

\* Mutated: the node's own number is compared, not its semidominator's.
IsSmallerItself(s, u, w) == dfs_idx(u) < SemiIdx(s, w)

IsSmaller(s, u, w) == SemiIdx(s, u) < SemiIdx(s, w)

\* The first inner loop of ComputeSdoms: what w's predecessors say of its semi.
OverPreds(f, s, w, vs) ==
  FoldLeft(LAMBDA acc, v :
             LET e == Eval(acc.forest, acc.semi, v) IN
             [forest |-> e.forest,
              semi   |-> IF IsSmaller(acc.semi, e.node, w)
                         THEN [acc.semi EXCEPT ![w] = acc.semi[e.node]] ELSE acc.semi],
           [forest |-> f, semi |-> s], vs)

DomOf(s, u, v, p) == IF SemiIdx(s, u) < SemiIdx(s, v) THEN u ELSE p

\* The second: what can be said of the nodes in the bucket of w's parent p.
OverBucket(f, s, d, p, vs) ==
  FoldLeft(LAMBDA acc, v :
             LET e == Eval(acc.forest, s, v) IN
             [forest |-> e.forest, dom |-> [acc.dom EXCEPT ![v] = DomOf(s, e.node, v, p)]],
           [forest |-> f, dom |-> d], vs)

\* One turn of the loop of ComputeSdoms, from the last node to the second.
ComputeSdom ==
  /\ phase = "ComputeSdoms"
  /\ at > 1
  /\ LET w == blocks[at]
         p == parent[w]
         one == OverPreds([ancestor |-> ancestor, label |-> label], semi, w, pred[w])
         linked == [one.forest EXCEPT !.ancestor[w] = p]
         new_bucket == [bucket EXCEPT ![one.semi[w]] = Append(@, w)]
         two == OverBucket(linked, one.semi, dom, p, new_bucket[p])
     IN  /\ semi' = one.semi
         /\ bucket' = new_bucket
         /\ dom' = two.dom
         /\ ancestor' = two.forest.ancestor
         /\ label' = two.forest.label
  /\ at' = at - 1
  /\ UNCHANGED <<vars, phase, parent, pred, imm_dominator_>>

SdomsDone ==
  /\ phase = "ComputeSdoms"
  /\ at <= 1
  /\ phase' = "ComputeDoms"
  /\ at' = 2
  /\ UNCHANGED <<vars, nodes, imm_dominator_>>

\* Mutated: a dominator that was left relative is taken as it is.
RelativeDom(w) == dom[w]

FinalDom(w) == IF dfs_idx(dom[w]) # dfs_idx(semi[w]) THEN dom[dom[w]] ELSE dom[w]

\* One turn of the loop of ComputeDoms, from the second node on.
ComputeDom ==
  /\ phase = "ComputeDoms"
  /\ at <= Len(blocks)
  /\ LET w == blocks[at] IN
       /\ dom' = [dom EXCEPT ![w] = FinalDom(w)]
       /\ imm_dominator_' = [imm_dominator_ EXCEPT ![w] = FinalDom(w)]
  /\ at' = at + 1
  /\ UNCHANGED <<vars, phase, parent, ancestor, label, semi, bucket, pred>>

DomsDone ==
  /\ phase = "ComputeDoms"
  /\ at > Len(blocks)
  /\ phase' = "done"
  /\ UNCHANGED <<vars, nodes, at, imm_dominator_>>

DomNext ==
  \/ RunDFS
  \/ FillTree \/ FillDescend \/ FillPred \/ FillReturn
  \/ ComputeSdom \/ SdomsDone
  \/ ComputeDom \/ DomsDone

DomSpec == DomInit /\ [][DomNext]_domVars

-----------------------------------------------------------------------------
StrictDominators(b) == {d \in Reachable(graph) \ {b} : Dominates(graph, d, b)}

\* When the pass is done, every block that can be reached has its immediate
\* dominator, the strict dominator that all the others dominate; the start block
\* and the blocks that cannot be reached have none.
ImmDominatorsExact ==
  phase = "done" => \A b \in Ids :
    imm_dominator_[b] =
      IF b = Start \/ b \notin Reachable(graph) THEN None
      ELSE CHOOSE d \in StrictDominators(b) :
             \A c \in StrictDominators(b) : Dominates(graph, c, d)

\* The blocks numbered lower than b from which a path leads to b through blocks
\* that are all numbered higher.
Semidominators(b) ==
  LET low == {c \in Reachable(graph) : dfs_idx(c) <= dfs_idx(b)}
  IN  {a \in low \ {b} : \E c \in SuccSet(graph, a) :
         c = b \/ b \in ReachAvoiding(graph, c, low \ {b})}

\* While the nodes are taken backwards, each that has been taken has the
\* semidominator of the literature: the lowest block from which it is reached
\* through higher ones.
SemidominatorsExact ==
  phase = "ComputeSdoms" => \A k \in at + 1 .. Len(blocks) :
    LET b == blocks[k] IN
    /\ semi[b] \in Semidominators(b)
    /\ \A a \in Semidominators(b) : dfs_idx(semi[b]) <= dfs_idx(a)
=============================================================================
