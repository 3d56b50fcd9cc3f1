------------------------------- MODULE Loops -------------------------------
(***************************************************************************)
(* pass/loop_analysis.cpp with ir/loop.cpp, run for the first time on a    *)
(* graph: find the edges that lead back (CollectBackEdges), give each of   *)
(* those that share a header a header of its own (SplitBackEdges), put a   *)
(* block before each header (AddPreHeaders), say which blocks are in which *)
(* loop (PopulateLoops) and which loop in which other (BuildLoopTree).     *)
(* A Loop is known by its position in loops_; the first is the root.       *)
(* inner_loops_ is the inverse of outer_loop_ and is left out, and so are  *)
(* the phis.                                                               *)
(*                                                                         *)
(* A failed ASSERT stops the program: those of Check end in "aborted", any *)
(* other would be a deadlock.                                              *)
(***************************************************************************)
EXTENDS CfgShapes

CONSTANT Inputs   \* the graphs the pass is run on

\* What is known of them: the ends of the edges agree, they lead to blocks that are
\* there, but never to the start block (BasicBlock::IsStartBlock takes a block for it
\* that has no predecessors), and no slot is set that the last instruction does not reach.
ASSUME InputsAssumption ==
  \A g \in Inputs : /\ g \in Graphs /\ Start \in g.blocks /\ HasNoPredecessors(g, Start)
                    /\ Symmetric(g) /\ NoHiddenSlots(g) /\ NoDangling(g) /\ NoParallel(g)

\* The null Loop*, for which None stands as well, is the position of no loop.
ASSUME NullLoopAssumption == None \notin Nat

VARIABLES
  graph,           \* the Graph
  phase,           \* the call of LoopAnalysis::Run that is active, or how it ended
  stack,           \* the calls of CollectBackEdges: the block, its successors to come
  grey, black,     \* the blocks with GREY, with BLACK
  id_to_dfs_idx_,  \* the blocks, in the order of their indices
  loops_,          \* LoopAnalysis::loops_
  todo,            \* what the loop of the phase has not come to yet
  moved,           \* the elements of loops_ were moved while a range-for walks them
  loop_,           \* loop_[b]: BasicBlock::loop_
  is_loop_header,  \* the blocks with BasicBlock::is_loop_header_
  dominators,      \* dominators[b]: the chain of imm_dominator_ from b upward
  dom_valid,       \* Pass::is_valid_ of DomTree
  given            \* history: the graph the pass was given

collecting == <<stack, grey, black, id_to_dfs_idx_>>
domTree == <<dominators, dom_valid>>
blockLoops == <<loop_, is_loop_header>>

vars == <<graph, phase, collecting, loops_, todo, moved, blockLoops, domTree, given>>

Root == 1

LoopIds == DOMAIN loops_

-----------------------------------------------------------------------------
\* Dominators as DomTree computes them: none for a block that cannot be reached.
DomTree(g) ==
  [b \in Ids |-> IF b \in Reachable(g) THEN {d \in Reachable(g) \ {b} : Dominates(g, d, b)}
                 ELSE {}]

\* BasicBlock::Dominates
DominatesIn(doms, a, b) == a = b \/ a \in doms[b]

NullLoop == [header |-> None, pre_header |-> None, back_edges |-> <<>>, blocks |-> {},
             outer_loop |-> None, is_reducible |-> TRUE]

AddBackEdge(l, bb) ==
  [l EXCEPT !.back_edges = Append(@, bb),
            !.is_reducible = @ /\ DominatesIn(dominators, l.header, bb)]

CalculateReducibility(doms, l) ==
  IF l.header = None \/ l.back_edges = <<>> THEN l
  ELSE [l EXCEPT !.is_reducible = \A bck \in ToSet(l.back_edges) :
                                    DominatesIn(doms, l.header, bck)]

NewLoop(header, back_edge) ==
  CalculateReducibility(dominators, AddBackEdge([NullLoop EXCEPT !.header = header], back_edge))

\* The storage of a vector that grew to n elements one at a time.
Capacity(n) == CHOOSE c \in {1, 2, 4, 8, 16, 32} : c >= n /\ 2 * n > c

-----------------------------------------------------------------------------
Call(b) == [bb |-> b, todo |-> GetSuccessors(graph, b)]

\* ResetState has run, the DomTree is valid, and no block has been in a loop.
Init ==
  /\ graph \in Inputs
  /\ given = graph
  /\ phase = "CollectBackEdges"
  /\ stack = <<Call(Start)>>
  /\ grey = {Start} /\ black = {Start}
  /\ id_to_dfs_idx_ = <<Start>>
  /\ loops_ = <<NullLoop>>
  /\ todo = <<>> /\ moved = FALSE
  /\ loop_ = [b \in Ids |-> None] /\ is_loop_header = {}
  /\ dominators = DomTree(graph) /\ dom_valid = TRUE

Top  == Last(stack)
succ == Head(Top.todo)
NextSucc == Append(Front(stack), [Top EXCEPT !.todo = Tail(@)])

AtSuccessor == phase = "CollectBackEdges" /\ stack # <<>> /\ Top.todo # <<>>

\* The successor is a block that is being visited. It is BLACK as well.
BackEdge ==
  /\ AtSuccessor
  /\ succ \in grey
  /\ IF loop_[succ] = None
     THEN /\ loops_' = Append(loops_, NewLoop(succ, Top.bb))
          /\ loop_' = [loop_ EXCEPT ![succ] = Len(loops_')]
          /\ is_loop_header' = is_loop_header \cup {succ}
     ELSE /\ loops_' = [loops_ EXCEPT ![loop_[succ]] = AddBackEdge(@, Top.bb)]
          /\ UNCHANGED blockLoops
  /\ stack' = NextSucc
  /\ UNCHANGED <<graph, phase, grey, black, id_to_dfs_idx_, todo, moved, domTree, given>>

SkipBlack ==
  /\ AtSuccessor
  /\ succ \in black \ grey
  /\ stack' = NextSucc
  /\ UNCHANGED <<graph, phase, grey, black, id_to_dfs_idx_, loops_, todo, moved, blockLoops,
                 domTree, given>>

Visit ==
  /\ AtSuccessor
  /\ succ \notin grey \cup black
  /\ stack' = Append(NextSucc, Call(succ))
  /\ grey' = grey \cup {succ} /\ black' = black \cup {succ}
  /\ id_to_dfs_idx_' = Append(id_to_dfs_idx_, succ)
  /\ UNCHANGED <<graph, phase, loops_, todo, moved, blockLoops, domTree, given>>

Leave ==
  /\ phase = "CollectBackEdges"
  /\ stack # <<>> /\ Top.todo = <<>>
  /\ stack' = Front(stack)
  /\ grey' = grey \ {Top.bb}
  /\ IF Len(stack) = 1
     THEN phase' = "SplitBackEdges" /\ todo' = [l \in LoopIds |-> l]
     ELSE UNCHANGED <<phase, todo>>
  /\ UNCHANGED <<graph, black, id_to_dfs_idx_, loops_, moved, blockLoops, domTree, given>>

-----------------------------------------------------------------------------
\* The ids of new blocks are consecutive, and no block was destroyed before.
NewIds(n) == [i \in 1 .. n |-> Cardinality(graph.blocks) + i - 1]

\* The back edges of a loop, sorted by the depth first index of their blocks: the
\* one list there is.
SortedBackEdges(l) ==
  LET bcks   == {b \in Ids : b \in ToSet(loops_[l].back_edges)}
      idx(b) == SelectInSeq(id_to_dfs_idx_, LAMBDA c : c = b)
  IN  {s \in [1 .. Cardinality(bcks) -> bcks] :
         \A i, j \in DOMAIN s : i < j => idx(s[i]) < idx(s[j])}

\* A turn of the last loop of SplitBackEdge: the new header gets all the edges of
\* the one before it, but for the back edge of that one.
CanInsertHeader(g, head, prev_head, edge) ==
  /\ CanInsertBefore(g, head, prev_head)
  /\ CanReplaceSuccessor(InsertBlockBefore(g, head, prev_head), edge, head, prev_head)

InsertHeader(g, head, prev_head, edge) ==
  ReplaceSuccessor(InsertBlockBefore(g, head, prev_head), edge, head, prev_head)

\* The graph after n turns.
HeadersInserted(edges, heads) ==
  LET G[n \in Nat] ==
        IF n = 0 THEN NewBlocks(graph, ToSet(Tail(heads)))
        ELSE InsertHeader(G[n - 1], heads[n + 1], heads[n], edges[n])
  IN  [n \in 0 .. Len(heads) - 1 |-> G[n]]

\* The loop keeps its first back edge; the others get loops of their own, which do
\* not count as reducible until the dominators are computed again.
SplitBackEdge ==
  /\ phase = "SplitBackEdges" /\ todo # <<>> /\ ~moved
  /\ loops_[Head(todo)].is_reducible
  /\ \E edges \in SortedBackEdges(Head(todo)) :
       LET l     == Head(todo)
           n     == Len(loops_)
           new   == NewIds(Len(edges) - 1)
           heads == <<loops_[l].header>> \o new
           G     == HeadersInserted(edges, heads)
       IN  /\ Len(edges) > 1
           /\ \A i \in DOMAIN new : CanNewBlock(graph, new[i])
           /\ \A i \in DOMAIN new : CanInsertHeader(G[i - 1], heads[i + 1], heads[i], edges[i])
           /\ graph' = G[Len(new)]
           /\ loops_' = [loops_ EXCEPT ![l] = AddBackEdge([@ EXCEPT !.back_edges = <<>>], edges[1])]
                          \o [i \in DOMAIN new |-> NewLoop(new[i], edges[i + 1])]
           /\ loop_' = [b \in Ids |-> IF b \in ToSet(new)
                                      THEN n + CHOOSE i \in DOMAIN new : new[i] = b ELSE loop_[b]]
           /\ is_loop_header' = is_loop_header \cup ToSet(new)
           /\ moved' = (Len(loops_') > Capacity(n))
  /\ todo' = Tail(todo)
  /\ dom_valid' = FALSE
  /\ UNCHANGED <<phase, collecting, dominators, given>>

KeepBackEdges ==
  /\ phase = "SplitBackEdges" /\ todo # <<>> /\ ~moved
  /\ ~loops_[Head(todo)].is_reducible \/ Len(loops_[Head(todo)].back_edges) <= 1
  /\ todo' = Tail(todo)
  /\ UNCHANGED <<graph, phase, collecting, loops_, moved, blockLoops, domTree, given>>

\* The range-for goes on in the storage the elements were moved out of: whatever
\* happens now, it is not the analysis any more.
ReadMoved ==
  /\ phase = "SplitBackEdges" /\ todo # <<>> /\ moved
  /\ phase' = "undefined"
  /\ UNCHANGED <<graph, collecting, loops_, todo, moved, blockLoops, domTree, given>>

\* Mutated: the loops keep the reducibility they had.
KeepReducibility(doms, loops) == loops

Recalculated(doms, loops) == [l \in DOMAIN loops |-> CalculateReducibility(doms, loops[l])]

RecalculateLoopsReducibility ==
  /\ phase = "SplitBackEdges" /\ todo = <<>>
  /\ IF dom_valid THEN UNCHANGED <<loops_, domTree>>
     ELSE /\ dominators' = DomTree(graph)
          /\ dom_valid' = TRUE
          /\ loops_' = Recalculated(dominators', loops_)
  /\ phase' = "AddPreHeaders"
  /\ todo' = Tail([l \in LoopIds |-> l])
  /\ UNCHANGED <<graph, collecting, moved, blockLoops, given>>

-----------------------------------------------------------------------------
\* Mutated: the back edge is led to the pre-header too.
AllPredecessors(l) == graph.preds[l.header]

\* The predecessors of the header from outside the loop.
EntryPredecessors(l) == graph.preds[l.header] \ ToSet(l.back_edges)

\* AddPreHeader, and what PropagatePhis asserts after it.
AddPreHeader ==
  /\ phase = "AddPreHeaders" /\ todo # <<>>
  /\ LET l     == loops_[Head(todo)]
         pred  == EntryPredecessors(l)
         pre   == NewIds(1)[1]
         g     == NewBlock(graph, pre, "none")
         moved_edges == ReplaceSuccessors(g, pred, l.header, pre)
     IN  /\ l.is_reducible
         /\ pred # {}
         /\ CanNewBlock(graph, pre)
         /\ \A p \in pred : CanReplaceSuccessor(g, p, l.header, pre)
         /\ CanAddEdge(moved_edges, pre, l.header, FALLTHROUGH)
         /\ Len(loops_[loop_[l.header]].back_edges) = 1
         /\ graph' = AddEdgeTo(moved_edges, pre, l.header, FALLTHROUGH)
         /\ loops_' = [loops_ EXCEPT ![Head(todo)].pre_header = pre]
  /\ dom_valid' = FALSE
  /\ todo' = Tail(todo)
  /\ UNCHANGED <<phase, collecting, moved, blockLoops, dominators, given>>

NoPreHeader ==
  /\ phase = "AddPreHeaders" /\ todo # <<>>
  /\ ~loops_[Head(todo)].is_reducible
  /\ todo' = Tail(todo)
  /\ UNCHANGED <<graph, phase, collecting, loops_, moved, blockLoops, domTree, given>>

PreHeadersDone ==
  /\ phase = "AddPreHeaders" /\ todo = <<>>
  /\ phase' = "PopulateLoops"
  /\ todo' = Postorder(graph)
  /\ UNCHANGED <<graph, collecting, loops_, moved, blockLoops, domTree, given>>

-----------------------------------------------------------------------------
\* The blocks RunLoopSearch is called for: against the edges, from the back edge on.
\* The header is GREEN before the search starts, and so it is not entered from a
\* successor; the search does start in it when it is its own back edge.
Searched(l) ==
  LET R[n \in Nat] ==
        IF n = 0 THEN ToSet(l.back_edges)
        ELSE LET P == R[n - 1]
             IN  P \cup ((UNION {graph.preds[b] : b \in P}) \ {l.header})
  IN  R[Cardinality(Ids)]

\* Blocks that are in no loop join this one; loops met on the way, if they are in no
\* loop, lie in this one.
PopulateLoop ==
  /\ phase = "PopulateLoops" /\ todo # <<>>
  /\ LET cur  == loop_[Head(todo)]
         S    == Searched(loops_[cur])
         free == {b \in S : loop_[b] = None}
         met  == {loop_[b] : b \in S} \ {None, cur}
     IN  /\ Head(todo) \in is_loop_header
         /\ loops_[cur].is_reducible
         /\ loops_' = [l \in LoopIds |->
                         CASE l = cur -> [loops_[l] EXCEPT !.blocks = @ \cup free]
                           [] l \in met /\ loops_[l].outer_loop = None ->
                                [loops_[l] EXCEPT !.outer_loop = cur]
                           [] OTHER -> loops_[l]]
         /\ loop_' = [b \in Ids |-> IF b \in free THEN cur ELSE loop_[b]]
  /\ todo' = Tail(todo)
  /\ UNCHANGED <<graph, phase, collecting, moved, is_loop_header, domTree, given>>

\* The header of an irreducible loop goes back to the loop around.
DropIrreducible ==
  /\ phase = "PopulateLoops" /\ todo # <<>>
  /\ LET h == Head(todo) IN
       /\ h \in is_loop_header
       /\ ~loops_[loop_[h]].is_reducible
       /\ loop_' = [loop_ EXCEPT ![h] = loops_[loop_[h]].outer_loop]
       /\ is_loop_header' = is_loop_header \ {h}
  /\ todo' = Tail(todo)
  /\ UNCHANGED <<graph, phase, collecting, loops_, moved, domTree, given>>

PassNoHeader ==
  /\ phase = "PopulateLoops" /\ todo # <<>>
  /\ Head(todo) \notin is_loop_header
  /\ todo' = Tail(todo)
  /\ UNCHANGED <<graph, phase, collecting, loops_, moved, blockLoops, domTree, given>>

\* What is left belongs to the root, of the blocks those that RPO lists.
BuildLoopTree ==
  /\ phase = "PopulateLoops" /\ todo = <<>>
  /\ LET free == {b \in Reachable(graph) : loop_[b] = None} IN
       /\ loop_' = [b \in Ids |-> IF b \in free THEN Root ELSE loop_[b]]
       /\ loops_' = [l \in LoopIds |->
                       IF l = Root THEN [loops_[l] EXCEPT !.blocks = @ \cup free]
                       ELSE IF loops_[l].outer_loop = None
                            THEN [loops_[l] EXCEPT !.outer_loop = Root]
                            ELSE loops_[l]]
  /\ phase' = "Check"
  /\ UNCHANGED <<graph, collecting, todo, moved, is_loop_header, domTree, given>>

\* The ASSERTs of LoopAnalysis::Check.
ChecksHold ==
  LET reducible == {l \in LoopIds : loops_[l].is_reducible}
      headed    == {l \in reducible : loops_[l].outer_loop # None}
      Listed(l) == loops_[l].blocks \cup (IF l \in headed THEN {loops_[l].header} ELSE {})
  IN  /\ \A l \in headed : /\ loop_[loops_[l].header] = l
                           /\ loops_[l].header \notin loops_[l].blocks
      /\ \A l \in reducible : \A b \in loops_[l].blocks : loop_[b] = l
      /\ \A l, m \in reducible : l # m => Listed(l) \cap Listed(m) = {}
      /\ Cardinality(UNION {Listed(l) : l \in reducible}) = Cardinality(Reachable(graph))
      /\ \A b \in Reachable(graph) : loop_[b] \in reducible

Check ==
  /\ phase = "Check"
  /\ phase' = IF ChecksHold THEN "done" ELSE "aborted"
  /\ UNCHANGED <<graph, collecting, loops_, todo, moved, blockLoops, domTree, given>>

Terminated == phase \in {"done", "aborted", "undefined"} /\ UNCHANGED vars

Next ==
  \/ BackEdge \/ SkipBlack \/ Visit \/ Leave
  \/ SplitBackEdge \/ KeepBackEdges \/ ReadMoved
  \/ RecalculateLoopsReducibility
  \/ AddPreHeader \/ NoPreHeader \/ PreHeadersDone
  \/ PopulateLoop \/ DropIrreducible \/ PassNoHeader
  \/ BuildLoopTree \/ Check
  \/ Terminated

Spec == Init /\ [][Next]_vars

-----------------------------------------------------------------------------
\* The loops that have been populated, the root excepted.
Natural == {l \in LoopIds \ {Root} : loops_[l].is_reducible}

\* The natural loop of the back edges of l: the header, and what can get to a back
\* edge without passing it.
NaturalLoop(l) ==
  {b \in Reachable(graph) :
     b = loops_[l].header \/
     \E x \in ToSet(loops_[l].back_edges) : x \in ReachAvoiding(graph, b, {loops_[l].header})}

\* l, the loop it is in, and so on to the root; Inside walks there.
Enclosing(l) ==
  LET R[n \in Nat] ==
        IF n = 0 THEN {l}
        ELSE LET P == R[n - 1] IN P \cup ({loops_[m].outer_loop : m \in P} \ {None})
  IN  R[Len(loops_)]

NestsAsInGraph ==
  /\ Natural = {l \in LoopIds \ {Root} : \A x \in ToSet(loops_[l].back_edges) :
                                           Dominates(graph, loops_[l].header, x)}
  /\ \A l \in LoopIds \ {Root} : Root \in Enclosing(l) /\ l \notin Enclosing(loops_[l].outer_loop)
  /\ \A l \in Natural : {b \in Reachable(graph) : l \in Enclosing(loop_[b])} = NaturalLoop(l)

\* The reducible loops that have their header for a back edge.
SingleBlockLoops == {l \in Natural : loops_[l].header \in ToSet(loops_[l].back_edges)}

\* The blocks that cannot be reached and yet were taken into a loop: the search goes
\* against all edges.
Strays == {b \in Ids \ Reachable(graph) : loop_[b] # None}

\* The tree of loops is the tree of natural loops of the graph as the analysis leaves
\* it: the loops said to be reducible are those whose headers dominate, no loop is
\* around itself, and a block is in a loop or in one inside it exactly when it is in
\* the natural loop of that header. All that fails if and only if a loop is a single
\* block: what is in front of it is taken for a part. Otherwise Check finds fault
\* only with blocks that cannot be reached and lead into a loop.
LoopsNestAsInGraph ==
  /\ phase = "aborted" => SingleBlockLoops # {} \/ Strays # {}
  /\ phase = "done" => (NestsAsInGraph <=> SingleBlockLoops = {})

\* Every natural loop ends up with one back edge and is entered through its
\* pre-header only, which is outside and leads nowhere else.
EnteredThroughPreHeader ==
  phase = "done" => \A l \in Natural :
    LET h   == loops_[l].header
        pre == loops_[l].pre_header
    IN  /\ Len(loops_[l].back_edges) = 1
        /\ graph.preds[h] = {pre, loops_[l].back_edges[1]}
        /\ SuccSet(graph, pre) = {h}
        /\ pre \notin NaturalLoop(l)

\* Where control gets to from a block of the given graph when it is to leave by slot
\* s, the inserted blocks being part of the way.
LeadsTo(b, s) ==
  LET Through[n \in Nat] ==
        IF n = 0 THEN graph.succs[b][s]
        ELSE LET c == Through[n - 1] IN
             IF c \in given.blocks \cup {None} THEN c ELSE graph.succs[c][FALLTHROUGH]
  IN  Through[Cardinality(Ids)]

\* The edits change no path: in every state, each slot of a block of the given graph
\* leads where it led, and what cuts a cycle of the graph is found: without the edges
\* into loop headers there is none.
KeepsPathsAndCycles ==
  /\ phase # "layout" =>
       \A b \in given.blocks, s \in Slots : LeadsTo(b, s) = given.succs[b][s]
  /\ phase = "done" =>
       LET headers == {loops_[l].header : l \in LoopIds}
       IN  \A b \in Reachable(graph) \ headers : \A c \in SuccSet(graph, b) :
             b \notin ReachAvoiding(graph, c, headers)
=============================================================================
