----------------------------- MODULE FlowGraph -----------------------------
(***************************************************************************)
(* ir/graph.cpp and the edge part of ir/bb.cpp, as operators on a graph    *)
(* value.  A graph is a record                                             *)
(*   blocks   the ids whose entry of Graph::bb_vector_ is not null         *)
(*   succs    succs[b][s]: BasicBlock::succs_, None for a null slot        *)
(*   preds    preds[b]: BasicBlock::preds_                                 *)
(*   term     term[b]: what the block's last instruction is, as far as     *)
(*            the edges care; it fixes the number of successor slots       *)
(* preds_ is a vector of which the code never holds two equal entries      *)
(* (AddPredecessor asserts it) and never uses the order: it is a set here. *)
(*                                                                         *)
(* For each operation there is its precondition, the conjunction of the    *)
(* ASSERTs it runs into, and the graph it leaves behind.                   *)
(***************************************************************************)
EXTENDS Naturals, FiniteSets

CONSTANTS
  Ids,      \* the block ids a graph may use
  Start,    \* Graph::BB_START_ID
  None      \* the null BasicBlock*

ASSUME FlowGraphAssumption == Start \in Ids /\ None \notin Ids

\* Graph::bb_vector_ has finitely many entries.
ASSUME FiniteIds == IsFiniteSet(Ids)

FALLTHROUGH == 0
BRANCH_TRUE == 1
Slots == {FALLTHROUGH, BRANCH_TRUE}

\* The last instruction of a block: none, or one that is no branch; JMP; IF or
\* IF_IMM; RET or RET_VOID.
Terms == {"none", "jump", "cond", "ret"}

Graphs == [blocks : SUBSET Ids,
           succs  : [Ids -> [Slots -> Ids \cup {None}]],
           preds  : [Ids -> SUBSET Ids],
           term   : [Ids -> Terms]]

NoSuccs == [s \in Slots |-> None]

EmptyGraph == [blocks |-> {Start},
               succs  |-> [b \in Ids |-> NoSuccs],
               preds  |-> [b \in Ids |-> {}],
               term   |-> [b \in Ids |-> "none"]]

GetNumSuccessors(g, b) ==
  CASE g.term[b] = "ret"  -> 0
    [] g.term[b] = "cond" -> 2
    [] OTHER              -> 1

HasNoPredecessors(g, b) == g.preds[b] = {}

HasNoSuccessors(g, b) ==
  \A s \in Slots : s < GetNumSuccessors(g, b) => g.succs[b][s] = None

\* GetSuccessors: the slots that are set, whatever the last instruction is.
SuccSet(g, b) == {g.succs[b][s] : s \in Slots} \ {None}

-----------------------------------------------------------------------------
\* BasicBlock::ReplaceSuccessor looks for the first slot that holds b_old and
\* asserts that the ones before it are set.
IsSlotOf(g, b, b_old, s) ==
  /\ s < GetNumSuccessors(g, b)
  /\ g.succs[b][s] = b_old
  /\ \A t \in Slots : t < s => g.succs[b][t] \notin {b_old, None}

HasSuccessor(g, b, b_old) == \E s \in Slots : IsSlotOf(g, b, b_old, s)

ReplacedSuccs(g, b, b_old, b_new) ==
  [s \in Slots |-> IF IsSlotOf(g, b, b_old, s) THEN b_new ELSE g.succs[b][s]]

-----------------------------------------------------------------------------
CanNewBlock(g, b) == b \in Ids \ g.blocks

NewBlock(g, b, t) ==
  [g EXCEPT !.blocks = @ \cup {b}, !.term[b] = t,
            !.succs[b] = NoSuccs, !.preds[b] = {}]

\* Several new blocks, the last instruction of which is no branch.
NewBlocks(g, B) ==
  [g EXCEPT !.blocks = @ \cup B,
            !.term = [c \in Ids |-> IF c \in B THEN "none" ELSE @[c]],
            !.succs = [c \in Ids |-> IF c \in B THEN NoSuccs ELSE @[c]],
            !.preds = [c \in Ids |-> IF c \in B THEN {} ELSE @[c]]]

CanAddEdge(g, from, to, s) ==
  /\ {from, to} \subseteq g.blocks
  /\ s < GetNumSuccessors(g, from)
  /\ from \notin g.preds[to]

AddEdgeTo(g, from, to, s) ==
  [g EXCEPT !.succs[from][s] = to, !.preds[to] = @ \cup {from}]

CanInsertBlock(g, b, from, to) ==
  /\ {b, from, to} \subseteq g.blocks
  /\ GetNumSuccessors(g, b) = 1
  /\ HasSuccessor(g, from, to)
  /\ from \notin g.preds[b]
  /\ from \in g.preds[to]

\* Mutated: the target keeps its old predecessor.
InsertKeepsPred(g, b, from, to) ==
  [g EXCEPT
    !.succs[from] = ReplacedSuccs(g, from, to, b),
    !.succs[b][FALLTHROUGH] = to,
    !.preds[b] = @ \cup {from},
    !.preds[to] = @ \cup {b}]

InsertBlock(g, b, from, to) ==
  [g EXCEPT
    !.succs = [c \in Ids |-> CASE c = from -> ReplacedSuccs(g, from, to, b)
                               [] c = b    -> [g.succs[b] EXCEPT ![FALLTHROUGH] = to]
                               [] OTHER    -> g.succs[c]],
    !.preds = [c \in Ids |-> CASE c = b  -> g.preds[b] \cup {from}
                               [] c = to -> (g.preds[to] \ {from}) \cup {b}
                               [] OTHER  -> g.preds[c]]]

\* The loop over the predecessors and the AddEdge that follows it.
CanInsertBefore(g, b, before) ==
  /\ {b, before} \subseteq g.blocks
  /\ ~HasNoPredecessors(g, before)
  /\ \A p \in g.preds[before] : HasSuccessor(g, p, before)
  /\ g.preds[before] \cap g.preds[b] = {}
  /\ GetNumSuccessors(g, b) > FALLTHROUGH

\* Mutated: the new block gets no successor.
InsertBeforeNoEdge(g, b, before) ==
  [g EXCEPT
    !.succs = [c \in Ids |-> IF c \in g.preds[before]
                             THEN ReplacedSuccs(g, c, before, b) ELSE g.succs[c]],
    !.preds[b] = @ \cup g.preds[before], !.preds[before] = {}]

InsertBlockBefore(g, b, before) ==
  [g EXCEPT
    !.succs = [c \in Ids |->
                 CASE c = b                  -> [g.succs[b] EXCEPT ![FALLTHROUGH] = before]
                   [] c \in g.preds[before] -> ReplacedSuccs(g, c, before, b)
                   [] OTHER                  -> g.succs[c]],
    !.preds = [c \in Ids |-> CASE c = b      -> g.preds[b] \cup g.preds[before]
                               [] c = before -> {b}
                               [] OTHER      -> g.preds[c]]]

CanReplaceSuccessor(g, b, prev_succ, new_succ) ==
  /\ {b, prev_succ} \subseteq g.blocks
  /\ HasSuccessor(g, b, prev_succ)
  /\ b \in g.preds[prev_succ]
  /\ new_succ # None => b \notin g.preds[new_succ] \/ new_succ = prev_succ

ReplaceSuccessor(g, b, prev_succ, new_succ) ==
  [g EXCEPT
    !.succs = [g.succs EXCEPT ![b] = ReplacedSuccs(g, b, prev_succ, new_succ)],
    !.preds = [c \in Ids |-> IF c = new_succ THEN g.preds[c] \cup {b}
                             ELSE IF c = prev_succ THEN g.preds[c] \ {b}
                             ELSE g.preds[c]]]

\* ReplaceSuccessor for every block of P, no two of which touch the same slots.
ReplaceSuccessors(g, P, prev_succ, new_succ) ==
  [g EXCEPT
    !.succs = [c \in Ids |-> IF c \in P THEN ReplacedSuccs(g, c, prev_succ, new_succ)
                             ELSE g.succs[c]],
    !.preds = [c \in Ids |-> CASE c = new_succ  -> g.preds[c] \cup P
                               [] c = prev_succ -> g.preds[c] \ P
                               [] OTHER         -> g.preds[c]]]

\* Both slots are read with GetSuccessor and written with SetSuccsessor, which
\* asserts that they were set.
CanSwapSuccessors(g, b) ==
  /\ b \in g.blocks
  /\ GetNumSuccessors(g, b) = 2
  /\ \A s \in Slots : g.succs[b][s] # None

SwapTwoSuccessors(g, b) ==
  [g EXCEPT !.succs[b] = [s \in Slots |-> g.succs[b][1 - s]]]

\* SplitBasicBlock takes the instructions out of b while it inserts the new
\* block, so that b has one successor slot only meanwhile; the second half of
\* the instructions, with the branch, is put back afterwards.  The first half
\* ends in the call that is being split at.
Emptied(g, b) == [g EXCEPT !.term[b] = "none"]

CanSplit(g, b, b_new) ==
  /\ b \in g.blocks
  /\ CanInsertBefore(NewBlock(Emptied(g, b), b_new, "none"), b_new, b)

SplitBlock(g, b, b_new) ==
  LET split == InsertBlockBefore(NewBlock(Emptied(g, b), b_new, "none"), b_new, b)
  IN  [split EXCEPT !.term[b] = g.term[b]]

CanDestroy(g, b) ==
  /\ b \in g.blocks
  /\ HasNoPredecessors(g, b)
  /\ HasNoSuccessors(g, b)

DestroyBlock(g, b) == [g EXCEPT !.blocks = @ \ {b}]

-----------------------------------------------------------------------------
\* The two ends of an edge agree.
Symmetric(g) ==
  \A b, c \in g.blocks : b \in g.preds[c] <=> c \in SuccSet(g, b)

\* A slot that the last instruction does not reach is null.
NoHiddenSlots(g) ==
  \A b \in g.blocks, s \in Slots :
    s >= GetNumSuccessors(g, b) => g.succs[b][s] = None

\* The neighbours of a block have not been destroyed.
NoDangling(g) ==
  \A b \in g.blocks : SuccSet(g, b) \cup g.preds[b] \subseteq g.blocks

\* The two slots of a block hold different blocks.
NoParallel(g) ==
  \A b \in g.blocks : g.succs[b][FALLTHROUGH] = g.succs[b][BRANCH_TRUE]
                      => g.succs[b][FALLTHROUGH] = None

\* The blocks a path of one edge or more leads to from b.
ReachedFrom(g, b) ==
  LET R[n \in Nat] == IF n = 0 THEN SuccSet(g, b)
                      ELSE LET P == R[n - 1] IN P \cup UNION {SuccSet(g, c) : c \in P}
  IN  R[Cardinality(Ids)]
=============================================================================
