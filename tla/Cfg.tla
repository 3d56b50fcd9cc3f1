-------------------------------- MODULE Cfg --------------------------------
(***************************************************************************)
(* A Graph being built and edited: the operations of ir/graph.cpp in the   *)
(* orders its callers (the graph builder and the passes) may use them, the *)
(* condition codes that InvertCondition rewrites, and the flag that says   *)
(* whether the results of an edge-sensitive analysis may still be used.    *)
(*                                                                         *)
(* An operation whose ASSERT fails stops the program; here it is not       *)
(* taken.                                                                  *)
(***************************************************************************)
EXTENDS FlowGraph

CONSTANTS
  NewTerms,   \* the terminators of the blocks being built
  NewConds,   \* the condition codes of the branches being built, by block
  Branching   \* bound: the ids of the blocks that may end in a branch or return

ConditionCodes == {"EQ", "NEQ", "LEQ", "GEQ", "L", "G"}

ASSUME CfgAssumption ==
  /\ Ids \subseteq Nat
  /\ Start = 0
  /\ NewTerms \subseteq Terms
  /\ NewConds \in [Ids -> SUBSET ConditionCodes]
  /\ Branching \subseteq Ids

VARIABLES
  graph,            \* the Graph
  cond_,            \* cond_[b]: Conditional::cond_ of the branch that ends b, if one does
  bb_id_counter,    \* Graph::bb_id_counter_
  is_valid          \* Pass::is_valid_ of an edge-sensitive analysis

vars == <<graph, cond_, bb_id_counter, is_valid>>

TypeOK ==
  /\ graph \in Graphs
  /\ cond_ \in [Ids -> ConditionCodes \cup {None}]
  /\ bb_id_counter \in Nat
  /\ is_valid \in BOOLEAN

\* Only a branch has a condition code.
CodeOf(t, c) == IF t = "cond" THEN c ELSE None

Init ==
  /\ \E t \in NewTerms, c \in NewConds[Start] :
       /\ graph = [EmptyGraph EXCEPT !.term[Start] = t]
       /\ cond_ = [b \in Ids |-> IF b = Start THEN CodeOf(t, c) ELSE None]
  /\ bb_id_counter = 1
  /\ is_valid = FALSE

-----------------------------------------------------------------------------
\* Mutated: an edit leaves the results of the analyses valid.
InvalidateNothing == is_valid

InvalidateCFGSensitivePasses == FALSE

\* A block nothing is connected to yet.
Unlinked(b) ==
  /\ b \in graph.blocks \ {Start}
  /\ graph.preds[b] = {}
  /\ graph.succs[b] = NoSuccs

\* GraphBuilder::NewBlock and the instructions put into it, or a pass that makes
\* an empty block.
NewBasicBlock(t, c) ==
  /\ bb_id_counter \in Ids
  /\ t # "none" => bb_id_counter \in Branching
  /\ c \in NewConds[bb_id_counter]
  /\ graph' = NewBlock(graph, bb_id_counter, t)
  /\ cond_' = [cond_ EXCEPT ![bb_id_counter] = CodeOf(t, c)]
  /\ bb_id_counter' = bb_id_counter + 1
  /\ UNCHANGED is_valid

\* BasicBlock::IsStartBlock takes the block without predecessors for the start
\* block: no edge may lead back to it.
MayEnter(to) == to # Start

\* The builder fills the slots of a block in order; a pass fills the only slot
\* of a block that has none.
AddEdge(from, to, s) ==
  /\ MayEnter(to)
  /\ CanAddEdge(graph, from, to, s)
  /\ graph.succs[from][s] = None
  /\ \A t \in Slots : t < s => graph.succs[from][t] # None
  /\ graph' = AddEdgeTo(graph, from, to, s)
  /\ is_valid' = InvalidateCFGSensitivePasses
  /\ UNCHANGED <<cond_, bb_id_counter>>

InsertBasicBlock(b, from, to) ==
  /\ Unlinked(b)
  /\ CanInsertBlock(graph, b, from, to)
  /\ graph' = InsertBlock(graph, b, from, to)
  /\ is_valid' = InvalidateCFGSensitivePasses
  /\ UNCHANGED <<cond_, bb_id_counter>>

InsertBasicBlockBefore(b, before) ==
  /\ Unlinked(b)
  /\ graph.term[b] = "none"
  /\ CanInsertBefore(graph, b, before)
  /\ graph' = InsertBlockBefore(graph, b, before)
  /\ is_valid' = InvalidateCFGSensitivePasses
  /\ UNCHANGED <<cond_, bb_id_counter>>

\* Only an empty block is ever left without a successor.
ReplaceSuccessorOf(b, prev_succ, new_succ) ==
  /\ CanReplaceSuccessor(graph, b, prev_succ, new_succ)
  /\ MayEnter(new_succ)
  /\ new_succ = None => graph.term[b] = "none"
  /\ graph' = ReplaceSuccessor(graph, b, prev_succ, new_succ)
  /\ is_valid' = InvalidateCFGSensitivePasses
  /\ UNCHANGED <<cond_, bb_id_counter>>

\* Mutated: what is less is negated by turning the order round.
InvertTurnsLess(c) ==
  CASE c = "EQ" -> "NEQ" [] c = "NEQ" -> "EQ" [] c = "LEQ" -> "G"
    [] c = "GEQ" -> "L"  [] c = "L" -> "G"    [] c = "G" -> "LEQ"

\* Conditional::Invert
Invert(c) ==
  CASE c = "EQ" -> "NEQ" [] c = "NEQ" -> "EQ" [] c = "LEQ" -> "G"
    [] c = "GEQ" -> "L"  [] c = "L" -> "GEQ"  [] c = "G" -> "LEQ"

InvertCondition(b) ==
  /\ CanSwapSuccessors(graph, b)
  /\ graph' = SwapTwoSuccessors(graph, b)
  /\ cond_' = [cond_ EXCEPT ![b] = Invert(@)]
  /\ is_valid' = InvalidateCFGSensitivePasses
  /\ UNCHANGED bb_id_counter

SplitBasicBlock(b) ==
  /\ bb_id_counter \in Ids
  /\ CanSplit(graph, b, bb_id_counter)
  /\ graph' = SplitBlock(graph, b, bb_id_counter)
  /\ bb_id_counter' = bb_id_counter + 1
  /\ is_valid' = InvalidateCFGSensitivePasses
  /\ UNCHANGED cond_

DestroyBasicBlock(b) ==
  /\ b # Start
  /\ CanDestroy(graph, b)
  /\ graph' = DestroyBlock(graph, b)
  /\ is_valid' = InvalidateCFGSensitivePasses
  /\ UNCHANGED <<cond_, bb_id_counter>>

\* An analysis runs to its end and calls SetValid(true).
RunAnalysis ==
  /\ is_valid' = TRUE
  /\ UNCHANGED <<graph, cond_, bb_id_counter>>

Next ==
  \/ \E t \in NewTerms, c \in ConditionCodes : NewBasicBlock(t, c)
  \/ \E b, c \in Ids, s \in Slots : AddEdge(b, c, s)
  \/ \E b, from, to \in Ids : InsertBasicBlock(b, from, to)
  \/ \E b, before \in Ids : InsertBasicBlockBefore(b, before)
  \/ \E b, prev \in Ids, new \in graph.blocks \cup {None} : ReplaceSuccessorOf(b, prev, new)
  \/ \E b \in Ids : InvertCondition(b) \/ SplitBasicBlock(b) \/ DestroyBasicBlock(b)
  \/ RunAnalysis

Spec == Init /\ [][Next]_vars

-----------------------------------------------------------------------------
\* The two ends of an edge agree: each side is updated by calls of its own, and
\* the analyses walk some edges forward and others backward. A slot that the last
\* instruction does not reach is null: the traversals look at all slots, the editing
\* operations only at those below GetNumSuccessors, and an edge hidden from one of
\* them would be lost or resurrected. No edge leads to or from a block that was
\* destroyed: the pointer would dangle.
EdgesIntact == Symmetric(graph) /\ NoHiddenSlots(graph) /\ NoDangling(graph)

-----------------------------------------------------------------------------
\* Results of an analysis that are still flagged valid describe the edges as
\* they are now.
StaleIsInvalid == [][is_valid /\ is_valid' => graph'.succs = graph.succs]_vars

\* Inserting a block, splitting one and inverting a branch leave every path
\* between the other blocks as it was, and invent none.
SamePaths(g, h, B) == \A b \in B : ReachedFrom(g, b) \cap B = ReachedFrom(h, b) \cap B

Restructures ==
  \E b \in Ids : \/ SplitBasicBlock(b)
                 \/ InvertCondition(b)
                 \/ \E c, d \in Ids : InsertBasicBlock(b, c, d)
                 \/ \E c \in Ids : InsertBasicBlockBefore(b, c)

PathsKept ==
  [][ graph'.succs # graph.succs /\ Restructures =>
        SamePaths(graph, graph', {b \in graph.blocks : ~Unlinked(b)}) ]_vars

\* The outcome of comparing the two operands of a branch.
Outcomes == {"less", "equal", "greater"}

Holds(c, o) ==
  CASE c = "EQ" -> o = "equal"      [] c = "NEQ" -> o # "equal"
    [] c = "LEQ" -> o # "greater"   [] c = "GEQ" -> o # "less"
    [] c = "L" -> o = "less"        [] c = "G" -> o = "greater"

Target(g, c, b, o) ==
  g.succs[b][IF Holds(c[b], o) THEN BRANCH_TRUE ELSE FALLTHROUGH]

\* Inverting a branch changes its code and swaps its successors; the block that
\* runs next is the same for every outcome of the comparison.
BranchMeaningKept ==
  [][ graph'.succs # graph.succs => \A b \in Ids : InvertCondition(b) =>
        \A o \in Outcomes : Target(graph', cond_', b, o) = Target(graph, cond_, b, o) ]_vars
=============================================================================
