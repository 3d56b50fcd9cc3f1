----------------------------- MODULE Traversal -----------------------------
(***************************************************************************)
(* The passes that number the blocks: pass/po.cpp, rpo.cpp, dfs.cpp and    *)
(* bfs.cpp.  The first three are recursive functions: stack holds their    *)
(* activation records, each with the successors that its loop has not come *)
(* to.  RPO and DFS list a block when they enter it, PO when it leaves it. *)
(***************************************************************************)
EXTENDS CfgShapes

CONSTANT Inputs   \* the graphs the passes are run on

\* They are graphs as Cfg leaves them.
ASSUME InputsAssumption ==
  \A g \in Inputs : g \in Graphs /\ Start \in g.blocks /\ NoDangling(g) /\ NoParallel(g)

VARIABLES
  graph,     \* the Graph
  pass,      \* which of the four passes runs
  stack,     \* the active calls of Run_: the block and its successors to come
  queue,     \* the local queue of BFS::Run
  visited,   \* the blocks with Marks::VISITED
  blocks     \* po_bb_, rpo_bb_, dfs_bb_ or bfs_bb_

vars == <<graph, pass, stack, queue, visited, blocks>>

Passes == {"PO", "RPO", "DFS", "BFS"}

Call(b) == [bb |-> b, todo |-> GetSuccessors(graph, b)]

\* Mutated: nothing is listed, every pass lists a block at once.
ListsNothingAtExit(b) == <<>>
ListsAtEntryAlways(b) == <<b>>

ListedAtEntry(b) == IF pass \in {"RPO", "DFS"} THEN <<b>> ELSE <<>>
ListedAtExit(b)  == IF pass = "PO" THEN <<b>> ELSE <<>>

\* Run has reset the list and entered the start block.
Init ==
  /\ graph \in Inputs
  /\ pass \in Passes
  /\ visited = {Start}
  /\ stack = IF pass = "BFS" THEN <<>> ELSE <<Call(Start)>>
  /\ queue = IF pass = "BFS" THEN <<Start>> ELSE <<>>
  /\ blocks = ListedAtEntry(Start)

-----------------------------------------------------------------------------
\* SetMark and ProbeMark answer whether the block had been visited.
IsFresh(b) == b \notin visited

Top == Last(stack)

\* The loop of the topmost call comes to its next successor.
Descend ==
  /\ stack # <<>>
  /\ Top.todo # <<>>
  /\ LET succ == Head(Top.todo)
         rest == Append(Front(stack), [Top EXCEPT !.todo = Tail(@)])
     IN  /\ IsFresh(succ)
         /\ visited' = visited \cup {succ}
         /\ stack' = Append(rest, Call(succ))
         /\ blocks' = blocks \o ListedAtEntry(succ)
  /\ UNCHANGED <<graph, pass, queue>>

Skip ==
  /\ stack # <<>>
  /\ Top.todo # <<>>
  /\ ~IsFresh(Head(Top.todo))
  /\ stack' = Append(Front(stack), [Top EXCEPT !.todo = Tail(@)])
  /\ UNCHANGED <<graph, pass, queue, visited, blocks>>

Return ==
  /\ stack # <<>>
  /\ Top.todo = <<>>
  /\ stack' = Front(stack)
  /\ blocks' = blocks \o ListedAtExit(Top.bb)
  /\ UNCHANGED <<graph, pass, queue, visited>>

\* Mutated: the queue is used as a stack.
EnqueueInFront(rest, new) == new \o rest

Enqueue(rest, new) == rest \o new

\* One turn of the loop of BFS::Run.
Dequeue ==
  /\ queue # <<>>
  /\ LET bb  == Head(queue)
         new == SuccessorsBut(graph, bb, visited \cup {None})
     IN  /\ queue' = Enqueue(Tail(queue), new)
         /\ visited' = visited \cup ToSet(new)
         /\ blocks' = Append(blocks, bb)
  /\ UNCHANGED <<graph, pass, stack>>

Next == Descend \/ Skip \/ Return \/ Dequeue

Spec == Init /\ [][Next]_vars

-----------------------------------------------------------------------------
Done == stack = <<>> /\ queue = <<>>

Position(b) == CHOOSE k \in DOMAIN blocks : blocks[k] = b

Before(b, c) == Position(b) < Position(c)

\* A pass lists every block that can be reached and no other, each of them
\* once, on graphs with cycles and unreachable blocks too; RPO, its name
\* notwithstanding, lists them depth first, as DFS does. The later passes are
\* modelled with the two orders this compares the traversals with.
ListsReachableOnce ==
  Done => /\ ToSet(blocks) = Reachable(graph) /\ IsInjective(blocks)
          /\ pass \in {"RPO", "DFS"} => blocks = Preorder(graph)
          /\ pass = "PO" => blocks = Postorder(graph)

\* In PO's order an edge that does not lead to an earlier block closes a cycle:
\* without cycles it is a topological order, from the end.
PostorderClosesCycles ==
  Done /\ pass = "PO" =>
    \A b \in ToSet(blocks) : \A c \in SuccSet(graph, b) :
      Before(c, b) \/ b \in ReachAvoiding(graph, c, {})

\* BFS lists the blocks by the number of edges it takes to reach them.
Distance(b) ==
  LET R[n \in Nat] == IF n = 0 THEN {Start}
                      ELSE LET P == R[n - 1] IN P \cup UNION {SuccSet(graph, c) : c \in P}
  IN  CHOOSE n \in 0 .. Cardinality(Ids) : b \in R[n] /\ \A m \in 0 .. n - 1 : b \notin R[m]

ListedByDistance ==
  Done /\ pass = "BFS" =>
    \A j, k \in DOMAIN blocks : j < k => Distance(blocks[j]) <= Distance(blocks[k])
=============================================================================
