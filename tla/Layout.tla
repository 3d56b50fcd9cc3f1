------------------------------- MODULE Layout -------------------------------
(***************************************************************************)
(* What is done with a graph once its loops are known: LivenessAnalysis    *)
(* puts the blocks in an order of its own, or LinearOrder lays them out as *)
(* code.  Both start from what LoopAnalysis leaves, wrong loops and loops  *)
(* with several entries included; neither looks at what the other made.    *)
(***************************************************************************)
EXTENDS Loops, BlockQueue

VARIABLES
  order,       \* LivenessAnalysis::linear_blocks_, and the queue of LinearizeBlocks
  inverted,    \* the blocks whose condition code is the negation of the given one
  linear_bb_,  \* LinearOrder::linear_bb_
  finished,    \* LinearOrder has come to its Check
  analysed     \* history: the graph LinearOrder was given

layoutVars == <<inverted, linear_bb_, finished, analysed>>

LO == INSTANCE LinearOrder WITH Inputs <- {}, given <- analysed

allVars == <<vars, order, layoutVars>>

LayoutInit ==
  /\ Init
  /\ order = Beginning
  /\ inverted = {} /\ linear_bb_ = <<>> /\ finished = FALSE /\ analysed = graph

\* The analysis itself, until it ends well or not.
AnalyseLoops == Next /\ phase # "done" /\ ~Terminated /\ UNCHANGED <<order, layoutVars>>

-----------------------------------------------------------------------------
\* What LinearizeBlocks reads of the loops and of the dominators, which nobody has
\* computed again since the pre-headers were added.
Nest == [headers |-> is_loop_header, loop |-> loop_, dominators |-> dominators,
         outer |-> [l \in LoopIds |-> loops_[l].outer_loop]]

Enter(p) ==
  /\ phase' = p
  /\ UNCHANGED <<graph, collecting, loops_, todo, moved, blockLoops, domTree, given>>

BeginLinearizeBlocks == phase = "done" /\ Enter("LinearizeBlocks") /\ UNCHANGED <<order, layoutVars>>

PlaceBlock ==
  /\ phase = "LinearizeBlocks" /\ order.queue # <<>>
  /\ IF TurnNeverEnds(graph, Nest, order)
     THEN Enter("endless") /\ UNCHANGED order
     ELSE order' = Turn(graph, Nest, order) /\ UNCHANGED vars
  /\ UNCHANGED layoutVars

\* The ASSERTs of CheckLinearOrder. RPO was computed again, the dominators were not.
CheckLinearOrder ==
  LET place(b) == SelectInSeq(order.linear_blocks_, LAMBDA c : c = b)
  IN  /\ Len(order.linear_blocks_) = Len(Preorder(graph))
      /\ \A b \in ToSet(order.linear_blocks_) : \A d \in dominators[b] : place(d) <= place(b)

\* Once it has found as many blocks as RPO has, it indexes bb_to_lin_number, which has
\* an entry for each of them, by their ids.
WritesPastEnd ==
  LET listed == order.linear_blocks_
  IN  Len(listed) = Len(Preorder(graph)) /\ \E b \in ToSet(listed) : b >= Len(listed)

EndLinearizeBlocks ==
  /\ phase = "LinearizeBlocks" /\ order.queue = <<>>
  /\ Enter(CASE WritesPastEnd                       -> "pastEnd"
             [] ~WritesPastEnd /\ CheckLinearOrder  -> "linearized"
             [] ~WritesPastEnd /\ ~CheckLinearOrder -> "unordered")
  /\ UNCHANGED <<order, layoutVars>>

-----------------------------------------------------------------------------
\* The blocks of the program that have one successor may end in a jump already.
BeginLayout ==
  /\ phase = "done"
  /\ phase' = "layout"
  /\ \E jumps \in {{}, {b \in given.blocks : graph.term[b] = "none"}} :
       graph' = [graph EXCEPT !.term = [b \in Ids |-> IF b \in jumps THEN "jump" ELSE @[b]]]
  /\ analysed' = graph'
  /\ todo' = Preorder(graph)
  /\ UNCHANGED <<collecting, loops_, moved, blockLoops, domTree, given, order, inverted,
                 linear_bb_, finished>>

LayOut ==
  /\ phase = "layout" /\ ~finished
  /\ LO!Next
  /\ UNCHANGED <<phase, collecting, loops_, moved, blockLoops, domTree, given, order>>

\* The ASSERTs of LinearOrder::Check hold, or this is a deadlock.
Ended ==
  /\ \/ phase \in {"aborted", "undefined", "endless", "pastEnd", "linearized", "unordered"}
     \/ phase = "layout" /\ LO!Terminated
  /\ UNCHANGED allVars

LayoutNext ==
  \/ AnalyseLoops
  \/ BeginLinearizeBlocks \/ PlaceBlock \/ EndLinearizeBlocks
  \/ BeginLayout \/ LayOut
  \/ Ended

\* Nothing takes the thread away from LinearizeBlocks: it goes on while it can.
LayoutSpec ==
  /\ LayoutInit /\ [][LayoutNext]_allVars
  /\ WF_allVars(PlaceBlock)

-----------------------------------------------------------------------------
\* The code, laid out, does what the graph that the loop analysis left said: from
\* every block, whatever its comparison yields, control gets to the successor the
\* graph names.
LayoutRunsProgram == phase = "layout" => LO!LayoutRunsProgram

\* Every block that can be reached, inserted ones included, is laid out exactly once,
\* of which LinearOrder::Check compares the number only; and a block never comes
\* before its dominators.
LaidOutOnce == phase = "layout" => LO!LaidOutOnce

\* No cycle is entered at several places: all loops that were found are reducible.
AllReducible == Natural = LoopIds \ {Root}

\* An edge from a block that cannot be reached to one that can: the one waits for the
\* other, which is never listed.
DeadEdges == \E b \in graph.blocks \ Reachable(graph) : SuccSet(graph, b) \cap Reachable(graph) # {}

PlaceOf(b) == SelectInSeq(order.linear_blocks_, LAMBDA c : c = b)

\* What the live ranges are computed by: every block is listed once, after its
\* dominators; a loop is in one piece, and its back edge, up to which the values that
\* live around the loop are said to live, comes last in it unless it leads out of a
\* loop inside. The dominators that CheckLinearOrder compares with know nothing of the
\* pre-headers. There is no such order where control enters a cycle at several places,
\* and blocks are missing behind an edge from one that cannot be reached; the ASSERT of
\* CheckLinearOrder fails there only. A search for a place never ends where a loop was
\* made an outer loop of itself, which takes a loop of a single block. And the ids fit
\* the table that CheckLinearOrder makes unless some block cannot be reached.
OrderFitsLiveness ==
  /\ phase = "linearized" /\ SingleBlockLoops = {} =>
       /\ IsInjective(order.linear_blocks_)
       /\ \A b, d \in Reachable(graph) : Dominates(graph, d, b) => PlaceOf(d) <= PlaceOf(b)
       /\ \A l \in Natural :
            LET places == {PlaceOf(b) : b \in NaturalLoop(l)}
                bck    == loops_[l].back_edges[1]
            IN  /\ places = Min(places) .. Max(places)
                /\ loop_[bck] = l => PlaceOf(bck) = Max(places)
  /\ phase = "unordered" /\ SingleBlockLoops = {} => ~AllReducible \/ DeadEdges
  /\ phase = "endless" => SingleBlockLoops # {}
  /\ phase = "pastEnd" => graph.blocks # Reachable(graph)

\* The queue always has a block that may come next until all have come, and no search
\* for a place in it goes round in circles: when every cycle has its header, no loop is
\* a single block and nothing waits for a block that cannot be reached, every block
\* gets its place and the queue becomes empty.
EveryBlockListed ==
  (phase = "LinearizeBlocks" /\ AllReducible /\ ~DeadEdges /\ SingleBlockLoops = {})
    ~> (order.queue = <<>> /\ ToSet(order.linear_blocks_) = Reachable(graph))
=============================================================================
