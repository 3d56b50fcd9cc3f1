-------------------------------- MODULE Dbe --------------------------------
(***************************************************************************)
(* pass/dbe.cpp: dead block elimination.  The blocks of a snapshot of RPO  *)
(* are visited one after the other; one without instructions is taken out  *)
(* of the graph by sending each of its predecessors to its successor, with *)
(* calls that assert what they need: one that fails stops the program.     *)
(***************************************************************************)
EXTENDS CfgShapes

CONSTANT Inputs   \* the graphs the pass is run on

\* They are graphs as the builder hands them over: no edge leads to the start
\* block, and a block has as many successors as its last instruction asks for.
ASSUME InputsAssumption ==
  \A g \in Inputs :
    /\ g \in Graphs /\ Start \in g.blocks /\ HasNoPredecessors(g, Start)
    /\ Symmetric(g) /\ NoHiddenSlots(g) /\ NoDangling(g) /\ NoParallel(g)
    /\ \A b \in g.blocks, s \in Slots : s < GetNumSuccessors(g, b) => g.succs[b][s] # None

VARIABLES
  graph,     \* the Graph
  empty,     \* the blocks for which IsEmpty holds
  todo,      \* the blocks of the loop of DBE::Run, from the current one on
  succ,      \* the local of RemoveEmpty
  preds,     \* the predecessors the loop of RemoveEmpty has not come to
  removing,  \* RemoveEmpty is in that loop
  aborted,   \* an ASSERT has failed
  given      \* history: the graph the pass was given

vars == <<graph, empty, todo, succ, preds, removing, aborted, given>>

\* Any of the blocks that end in no branch may have no instructions at all.
Init ==
  /\ graph \in Inputs
  /\ empty \in SUBSET {b \in graph.blocks : graph.term[b] = "none"}
  /\ given = graph
  /\ todo = Preorder(graph)
  /\ succ = None
  /\ preds = {}
  /\ removing = FALSE
  /\ aborted = FALSE

bb == Head(todo)

-----------------------------------------------------------------------------
\* Mutated: a block with one predecessor is taken for the start block; the edge
\* into an empty block is cut; it is sent on without being taken away here.
TakesOneForNone(g, b) == Cardinality(g.preds[b]) <= 1
CutsOff(g, p, b, s) == ReplaceSuccessor(g, p, b, None)
KeepsOldPred(g, p, b, s) ==
  [g EXCEPT !.succs[p] = ReplacedSuccs(g, p, b, s), !.preds[s] = @ \cup {p}]

\* The start block is told by having no predecessors.
IsStartBlock(g, b) == HasNoPredecessors(g, b)

\* The start block and blocks with contents are passed over. (RemoveUnlinked is
\* asked about the latter, but they have a predecessor, or they would have been
\* taken for the start block.)
PassOver ==
  /\ ~aborted /\ ~removing /\ todo # <<>>
  /\ IsStartBlock(graph, bb) \/ bb \notin empty
  /\ todo' = Tail(todo)
  /\ UNCHANGED <<graph, empty, succ, preds, removing, aborted, given>>

RemoveEmpty ==
  /\ ~aborted /\ ~removing /\ todo # <<>>
  /\ ~IsStartBlock(graph, bb) /\ bb \in empty
  /\ removing' = TRUE
  /\ succ' = graph.succs[bb][FALLTHROUGH]
  /\ preds' = graph.preds[bb]
  /\ UNCHANGED <<graph, empty, todo, aborted, given>>

\* The first call of the loop's body; the second takes the block's own edge away.
Rewired(g, p, b, s) == ReplaceSuccessor(g, p, b, s)

CanRewire(p) ==
  /\ CanReplaceSuccessor(graph, p, bb, succ)
  /\ CanReplaceSuccessor(Rewired(graph, p, bb, succ), bb, succ, None)

RewirePred(p) ==
  /\ ~aborted /\ removing /\ p \in preds
  /\ IF CanRewire(p)
     THEN /\ graph' = ReplaceSuccessor(Rewired(graph, p, bb, succ), bb, succ, None)
          /\ preds' = preds \ {p}
          /\ UNCHANGED aborted
     ELSE aborted' = TRUE /\ UNCHANGED <<graph, preds>>
  /\ UNCHANGED <<empty, todo, succ, removing, given>>

\* The asserts behind the loop are those of DestroyBasicBlock.
DestroyEmpty ==
  /\ ~aborted /\ removing /\ preds = {}
  /\ IF CanDestroy(graph, bb)
     THEN graph' = DestroyBlock(graph, bb) /\ UNCHANGED aborted
     ELSE aborted' = TRUE /\ UNCHANGED graph
  /\ removing' = FALSE
  /\ todo' = Tail(todo)
  /\ UNCHANGED <<empty, succ, preds, given>>

Next == PassOver \/ RemoveEmpty \/ (\E p \in Ids : RewirePred(p)) \/ DestroyEmpty

Spec == Init /\ [][Next]_vars

-----------------------------------------------------------------------------
Finished == todo = <<>> /\ ~aborted

\* The blocks that stay are connected as they were.
KeepsPaths ==
  Finished => \A b \in graph.blocks :
    ReachedFrom(graph, b) = ReachedFrom(given, b) \cap graph.blocks

\* Control reaches no empty block any more; one left behind by an iteration over
\* a snapshot, or for having lost its predecessors, would break this.
EmptyBlocksGone == Finished => Reachable(graph) \cap empty \subseteq {Start}

\* The first block with contents on the way from b.
Landing(b) ==
  LET Walk[n \in Nat] ==
        IF n = 0 THEN b
        ELSE LET c == Walk[n - 1] IN IF c \in empty THEN given.succs[c][FALLTHROUGH] ELSE c
  IN  Walk[Cardinality(Ids)]

\* What the pass cannot cope with: an empty block where paths meet, or a branch
\* whose sides come together again after nothing but empty blocks. On all other
\* graphs no assertion fails.
AbortsAtMergesOnly ==
  aborted =>
    \/ \E b \in empty \ {Start} : Cardinality(given.preds[b]) > 1
    \/ \E b \in Ids : /\ given.term[b] = "cond"
                      /\ Landing(given.succs[b][FALLTHROUGH]) = Landing(given.succs[b][BRANCH_TRUE])
=============================================================================
