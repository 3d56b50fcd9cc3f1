---------------------------- MODULE LinearOrder ----------------------------
(***************************************************************************)
(* pass/linear_order.cpp: the blocks in the order in which they are to be  *)
(* laid out as code.  They come as RPO lists them; where the next block is *)
(* not the one that control falls through to, the branch is inverted, or a *)
(* jump is appended, or a block with nothing but a jump is put in between. *)
(*                                                                         *)
(* A failed ASSERT stops the program; here it would be a deadlock.         *)
(***************************************************************************)
EXTENDS CfgShapes

CONSTANT Inputs   \* the graphs the pass is run on

VARIABLES
  graph,       \* the Graph
  inverted,    \* the blocks whose condition code is the negation of the given one
  todo,        \* the blocks of the loop of Linearize, from the current one on
  linear_bb_,  \* LinearOrder::linear_bb_
  finished,    \* ProcessLast has returned
  given        \* history: the graph the pass was given

vars == <<graph, inverted, todo, linear_bb_, finished, given>>

\* Blocks with one successor may have been given a jump by an earlier run.
Init ==
  /\ \E g \in Inputs :
       \E jumps \in SUBSET {b \in g.blocks : g.term[b] = "none"} :
         graph = [g EXCEPT !.term = [b \in Ids |-> IF b \in jumps THEN "jump" ELSE g.term[b]]]
  /\ given = graph
  /\ inverted = {}
  /\ todo = Preorder(graph)
  /\ linear_bb_ = <<>>
  /\ finished = FALSE

-----------------------------------------------------------------------------
\* Mutated: the condition is kept; the jump block is not listed.
KeepsCondition(b) == inverted
ForgetsInserted(list, inserted, b) == Append(list, b)

\* The ids of new blocks are consecutive, and no block is destroyed here.
NewId == Cardinality(graph.blocks)

AppendJump(g, b) == [g EXCEPT !.term[b] = "jump"]

WithJumpBlock(g, jmp, b, next) == InsertBlock(NewBlock(g, jmp, "jump"), jmp, b, next)

\* (The new block also joins the loop of b, which nothing here looks at.)
InsertJumpBasicBlock(b, next) ==
  /\ CanNewBlock(graph, NewId)
  /\ CanInsertBlock(NewBlock(graph, NewId, "jump"), NewId, b, next)
  /\ graph' = WithJumpBlock(graph, NewId, b, next)
  /\ UNCHANGED inverted

\* Conditional::Invert is its own inverse.
Negated(b) == IF b \in inverted THEN inverted \ {b} ELSE inverted \cup {b}

InvertCondition(b) ==
  /\ CanSwapSuccessors(graph, b)
  /\ graph' = SwapTwoSuccessors(graph, b)
  /\ inverted' = Negated(b)

-----------------------------------------------------------------------------
bb   == Head(todo)
prev == Last(linear_bb_)

\* What was inserted comes between the last block and the next.
PushedBack(list, inserted, b) == list \o inserted \o <<b>>

\* The end of an iteration.
PlaceWith(inserted) ==
  /\ linear_bb_' = PushedBack(linear_bb_, inserted, bb)
  /\ todo' = Tail(todo)
  /\ UNCHANGED <<finished, given>>

\* The first block has none before it, and a block that returns is followed by
\* any other.
AppendFreely ==
  /\ todo # <<>>
  /\ linear_bb_ # <<>> => GetNumSuccessors(graph, prev) = 0
  /\ PlaceWith(<<>>)
  /\ UNCHANGED <<graph, inverted>>

ProcessSingleSuccessor ==
  /\ todo # <<>> /\ linear_bb_ # <<>>
  /\ GetNumSuccessors(graph, prev) = 1
  /\ graph' = IF bb # graph.succs[prev][FALLTHROUGH] /\ graph.term[prev] # "jump"
              THEN AppendJump(graph, prev) ELSE graph
  /\ PlaceWith(<<>>)
  /\ UNCHANGED inverted

ProcessTwoSuccessors ==
  /\ todo # <<>> /\ linear_bb_ # <<>>
  /\ GetNumSuccessors(graph, prev) = 2
  /\ LET bb_f == graph.succs[prev][FALLTHROUGH]
         bb_t == graph.succs[prev][BRANCH_TRUE]
     IN  \/ bb = bb_t /\ InvertCondition(prev) /\ PlaceWith(<<>>)
         \/ bb = bb_f /\ PlaceWith(<<>>) /\ UNCHANGED <<graph, inverted>>
         \/ bb \notin {bb_t, bb_f} /\ InsertJumpBasicBlock(prev, bb_f) /\ PlaceWith(<<NewId>>)

\* AppendJump leaves a jump that is already there alone.
ProcessLast ==
  /\ todo = <<>> /\ ~finished
  /\ CASE GetNumSuccessors(graph, prev) = 0 -> UNCHANGED <<graph, inverted, linear_bb_>>
       [] GetNumSuccessors(graph, prev) = 1 ->
            graph' = AppendJump(graph, prev) /\ UNCHANGED <<inverted, linear_bb_>>
       [] GetNumSuccessors(graph, prev) = 2 ->
            /\ InsertJumpBasicBlock(prev, graph.succs[prev][FALLTHROUGH])
            /\ linear_bb_' = Append(linear_bb_, NewId)
  /\ finished' = TRUE
  /\ UNCHANGED <<todo, given>>

\* The ASSERTs of LinearOrder::Check. RPO is computed again for it.
ChecksHold ==
  /\ Len(linear_bb_) = Len(Preorder(graph))
  /\ \A i \in DOMAIN linear_bb_ :
       LET b    == linear_bb_[i]
           next == IF i < Len(linear_bb_) THEN linear_bb_[i + 1] ELSE None
       IN  /\ GetNumSuccessors(graph, b) = 2 => /\ next = graph.succs[b][FALLTHROUGH]
                                                /\ next # graph.succs[b][BRANCH_TRUE]
           /\ GetNumSuccessors(graph, b) = 1 /\ graph.term[b] # "jump" =>
                next = graph.succs[b][FALLTHROUGH]

Terminated == finished /\ ChecksHold /\ UNCHANGED vars

Next ==
  \/ AppendFreely \/ ProcessSingleSuccessor \/ ProcessTwoSuccessors \/ ProcessLast
  \/ Terminated

Spec == Init /\ [][Next]_vars

-----------------------------------------------------------------------------
\* What a machine does that runs the blocks in the order of linear_bb_: where it
\* goes from block b when the comparison b was given holds, or does not. It knows
\* jumps, taken branches and the next block in memory, no fallthrough edges.
Behind(b) ==
  LET k == CHOOSE k \in DOMAIN linear_bb_ : linear_bb_[k] = b
  IN  IF k < Len(linear_bb_) THEN linear_bb_[k + 1] ELSE None

RunsInto(b, holds) ==
  CASE graph.term[b] = "ret"  -> None
    [] graph.term[b] = "jump" -> graph.succs[b][FALLTHROUGH]
    [] graph.term[b] = "none" -> Behind(b)
    [] graph.term[b] = "cond" -> IF holds # (b \in inverted) THEN graph.succs[b][BRANCH_TRUE]
                                 ELSE Behind(b)

\* The same with the blocks that were inserted taken as part of the way.
RunsOnTo(b, holds) ==
  LET c == RunsInto(b, holds)
  IN  IF c \in given.blocks \cup {None} THEN c ELSE RunsInto(c, holds)

GivenTarget(b, holds) ==
  CASE GetNumSuccessors(given, b) = 0 -> None
    [] GetNumSuccessors(given, b) = 1 -> given.succs[b][FALLTHROUGH]
    [] GetNumSuccessors(given, b) = 2 -> given.succs[b][IF holds THEN BRANCH_TRUE ELSE FALLTHROUGH]

\* The code, laid out, does what the graph said: from every block, whatever its
\* comparison yields, control gets to the successor the given graph names.
LayoutRunsProgram ==
  finished => \A b \in Reachable(given), holds \in BOOLEAN :
                RunsOnTo(b, holds) = GivenTarget(b, holds)

\* Every block that can be reached, inserted ones included, is laid out exactly
\* once, of which LinearOrder::Check compares the number only; and a block never
\* comes before its dominators.
LaidOutOnce ==
  finished => /\ ToSet(linear_bb_) = Reachable(graph) /\ IsInjective(linear_bb_)
              /\ \A j, k \in DOMAIN linear_bb_ :
                   j # k /\ Dominates(graph, linear_bb_[j], linear_bb_[k]) => j < k
=============================================================================
