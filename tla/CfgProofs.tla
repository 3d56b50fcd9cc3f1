------------------------------ MODULE CfgProofs ------------------------------
(***************************************************************************)
(* The invariants of Cfg for any number of blocks and any order of edits.  *)
(***************************************************************************)
EXTENDS Cfg, FlowGraphProofs

\* Ids at or above the counter have never been given to a block.
IdsFresh == \A b \in graph.blocks : b < bb_id_counter

\* A branch has a condition code from the beginning.
BranchesHaveCodes == \A b \in graph.blocks : graph.term[b] = "cond" => cond_[b] \in ConditionCodes

IInv == TypeOK /\ WF(graph) /\ IdsFresh /\ BranchesHaveCodes

LEMMA IdsAreNat == Ids \subseteq Nat
  BY CfgAssumption

\* A block made with the id the counter stands at leaves the ids above it fresh.
LEMMA FreshKept ==
  ASSUME NEW B, NEW n \in Nat, B \subseteq Nat, \A b \in B : b < n
  PROVE  \A b \in B \cup {n} : b < n + 1
<1> SUFFICES ASSUME NEW b \in B \cup {n} PROVE b < n + 1
  OBVIOUS
<1>1. CASE b \in B
  <2>1. b \in Nat /\ b < n
    BY <1>1
  <2> QED
    BY <2>1
<1>2. CASE b = n
  BY <1>2
<1> QED
  BY <1>1, <1>2

LEMMA InitInv == Init => IInv
<1> SUFFICES ASSUME Init PROVE IInv
  OBVIOUS
<1>1. PICK t \in NewTerms, c \in NewConds[Start] :
        /\ graph = [EmptyGraph EXCEPT !.term[Start] = t]
        /\ cond_ = [b \in Ids |-> IF b = Start THEN CodeOf(t, c) ELSE None]
  BY DEF Init
<1>6. Start \in Ids /\ c \in ConditionCodes /\ CodeOf(t, c) \in ConditionCodes \cup {None}
  BY <1>1, CfgAssumption, FlowGraphAssumption DEF CodeOf
<1>2. WF(graph)
  BY <1>1, EmptyGraphWF, CfgAssumption
<1>3. graph.blocks = {Start}
  BY <1>1 DEF EmptyGraph
<1>4. TypeOK
  BY <1>1, <1>2, <1>6 DEF Init, TypeOK, WF, Shape
<1>5. IdsFresh
  BY <1>3, CfgAssumption DEF Init, IdsFresh
<1>7. BranchesHaveCodes
  <2>1. graph.term[Start] = t /\ cond_[Start] = CodeOf(t, c)
    BY <1>1, <1>6 DEF EmptyGraph
  <2> QED
    BY <1>3, <1>6, <2>1 DEF BranchesHaveCodes, CodeOf
<1> QED
  BY <1>2, <1>4, <1>5, <1>7 DEF IInv

\* What can be inverted is a branch.
LEMMA BranchHasCode ==
  ASSUME IInv, NEW b \in Ids, InvertCondition(b)
  PROVE  cond_[b] \in ConditionCodes
<1>1. b \in graph.blocks /\ GetNumSuccessors(graph, b) = 2
  BY DEF InvertCondition, CanSwapSuccessors
<1>2. graph.term[b] = "cond"
  BY <1>1 DEF GetNumSuccessors
<1> QED
  BY <1>1, <1>2 DEF IInv, BranchesHaveCodes

LEMMA InvertType == ASSUME NEW c \in ConditionCodes PROVE Invert(c) \in ConditionCodes
  BY DEF ConditionCodes, Invert

\* An edit that makes no block, and keeps the counter and what the blocks end in.
LEMMA EditInv ==
  ASSUME IInv, WF(graph'), graph'.blocks \subseteq graph.blocks, graph'.term = graph.term,
         cond_' \in [Ids -> ConditionCodes \cup {None}],
         \A b \in Ids : cond_'[b] = cond_[b] \/ cond_'[b] \in ConditionCodes,
         bb_id_counter' = bb_id_counter, is_valid' \in BOOLEAN
  PROVE  IInv'
<1>1. graph.blocks \subseteq Ids
  BY DEF IInv, TypeOK, Graphs
<1>2. BranchesHaveCodes'
  BY <1>1 DEF IInv, BranchesHaveCodes
<1> QED
  BY <1>2 DEF IInv, TypeOK, WF, Shape, IdsFresh, Symmetric, NoDangling, NoParallel, NoHiddenSlots,
              SuccSet, GetNumSuccessors

LEMMA StepInv == IInv /\ [Next]_vars => IInv'
<1> SUFFICES ASSUME IInv, [Next]_vars PROVE IInv'
  OBVIOUS
<1>w. /\ WF(graph) /\ graph \in Graphs /\ graph.blocks \subseteq Ids
      /\ cond_ \in [Ids -> ConditionCodes \cup {None}] /\ bb_id_counter \in Nat /\ is_valid \in BOOLEAN
  BY DEF IInv, TypeOK, WF, Shape, Graphs
<1>n. graph.blocks \subseteq Nat /\ \A b \in graph.blocks : b < bb_id_counter
  BY <1>w, IdsAreNat DEF IInv, IdsFresh
<1>f. bb_id_counter \in Ids => CanNewBlock(graph, bb_id_counter) /\ bb_id_counter \notin graph.blocks
  <2>1. ~(bb_id_counter < bb_id_counter)
    BY <1>w
  <2> QED
    BY <2>1, <1>n DEF CanNewBlock
<1>1. ASSUME NEW t \in NewTerms, NEW c \in ConditionCodes, NewBasicBlock(t, c) PROVE IInv'
  <2>1. t \in Terms /\ CodeOf(t, c) \in ConditionCodes \cup {None} /\ bb_id_counter \in Ids
    BY <1>1, CfgAssumption DEF NewBasicBlock, CodeOf
  <2>2. graph' = NewBlock(graph, bb_id_counter, t)
    BY <1>1 DEF NewBasicBlock
  <2>3. WF(graph')
    BY <1>w, <1>f, <2>1, <2>2, NewBlockWF
  <2>4. graph'.blocks = graph.blocks \cup {bb_id_counter}
    BY <1>w, <2>2 DEF NewBlock, Graphs
  <2>5. TypeOK'
    BY <1>1, <1>w, <2>1, <2>3 DEF NewBasicBlock, TypeOK, WF, Shape
  <2>6. IdsFresh'
    <3>1. bb_id_counter' = bb_id_counter + 1
      BY <1>1 DEF NewBasicBlock
    <3>2. \A b \in graph.blocks \cup {bb_id_counter} : b < bb_id_counter + 1
      BY <1>w, <1>n, FreshKept
    <3> QED
      BY <2>4, <3>1, <3>2 DEF IdsFresh
  <2>7. BranchesHaveCodes'
    <3>1. graph'.term = [graph.term EXCEPT ![bb_id_counter] = t]
      BY <1>w, <2>2 DEF NewBlock, Graphs
    <3>2. cond_' = [cond_ EXCEPT ![bb_id_counter] = CodeOf(t, c)]
      BY <1>1 DEF NewBasicBlock
    <3>3. ASSUME NEW b \in graph'.blocks, graph'.term[b] = "cond" PROVE cond_'[b] \in ConditionCodes
      <4>1. CASE b = bb_id_counter
        BY <1>w, <2>1, <3>1, <3>2, <3>3, <4>1 DEF CodeOf, Graphs
      <4>2. CASE b # bb_id_counter
        BY <1>w, <2>1, <2>4, <3>1, <3>2, <3>3, <4>2 DEF IInv, BranchesHaveCodes, Graphs
      <4> QED
        BY <4>1, <4>2
    <3> QED
      BY <3>3 DEF BranchesHaveCodes
  <2> QED
    BY <2>3, <2>5, <2>6, <2>7 DEF IInv
<1>2. ASSUME NEW from \in Ids, NEW to \in Ids, NEW s \in Slots, AddEdge(from, to, s) PROVE IInv'
  <2>1. WF(graph')
    BY <1>2, <1>w, AddEdgeWF DEF AddEdge
  <2>2. graph'.blocks = graph.blocks /\ graph'.term = graph.term
    BY <1>2, <1>w DEF AddEdge, AddEdgeTo, Graphs
  <2> QED
    BY <1>2, <1>w, <2>1, <2>2, EditInv DEF AddEdge, InvalidateCFGSensitivePasses
<1>3. ASSUME NEW b \in Ids, NEW from \in Ids, NEW to \in Ids, InsertBasicBlock(b, from, to)
      PROVE  IInv'
  <2>1. WF(graph')
    BY <1>3, <1>w, InsertBlockWF DEF InsertBasicBlock, Unlinked, Isolated
  <2>2. graph'.blocks = graph.blocks /\ graph'.term = graph.term
    BY <1>3, <1>w DEF InsertBasicBlock, InsertBlock, Graphs
  <2> QED
    BY <1>3, <1>w, <2>1, <2>2, EditInv DEF InsertBasicBlock, InvalidateCFGSensitivePasses
<1>4. ASSUME NEW b \in Ids, NEW before \in Ids, InsertBasicBlockBefore(b, before) PROVE IInv'
  <2>1. WF(graph')
    BY <1>4, <1>w, InsertBeforeWF DEF InsertBasicBlockBefore, Unlinked, Isolated
  <2>2. graph'.blocks = graph.blocks /\ graph'.term = graph.term
    BY <1>4, <1>w DEF InsertBasicBlockBefore, InsertBlockBefore, Graphs
  <2> QED
    BY <1>4, <1>w, <2>1, <2>2, EditInv DEF InsertBasicBlockBefore, InvalidateCFGSensitivePasses
<1>5. ASSUME NEW b \in Ids, NEW prev \in Ids, NEW new \in graph.blocks \cup {None},
             ReplaceSuccessorOf(b, prev, new)
      PROVE  IInv'
  <2>1. WF(graph')
    BY <1>5, <1>w, ReplaceSuccessorWF DEF ReplaceSuccessorOf
  <2>2. graph'.blocks = graph.blocks /\ graph'.term = graph.term
    BY <1>5, <1>w DEF ReplaceSuccessorOf, ReplaceSuccessor, Graphs
  <2> QED
    BY <1>5, <1>w, <2>1, <2>2, EditInv DEF ReplaceSuccessorOf, InvalidateCFGSensitivePasses
<1>6. ASSUME NEW b \in Ids, InvertCondition(b) PROVE IInv'
  <2>1. WF(graph')
    BY <1>6, <1>w, SwapSuccessorsWF DEF InvertCondition
  <2>2. graph'.blocks = graph.blocks /\ graph'.term = graph.term
    BY <1>6, <1>w DEF InvertCondition, SwapTwoSuccessors, Graphs
  <2>4. cond_[b] \in ConditionCodes
    BY <1>6, BranchHasCode
  <2>3. /\ cond_' \in [Ids -> ConditionCodes \cup {None}]
        /\ \A c \in Ids : cond_'[c] = cond_[c] \/ cond_'[c] \in ConditionCodes
    BY <1>6, <1>w, <2>4, InvertType DEF InvertCondition
  <2> QED
    BY <1>6, <2>1, <2>2, <2>3, EditInv DEF InvertCondition, InvalidateCFGSensitivePasses
<1>7. ASSUME NEW b \in Ids, SplitBasicBlock(b) PROVE IInv'
  <2>1. bb_id_counter \in Ids \ graph.blocks /\ graph' = SplitBlock(graph, b, bb_id_counter)
    BY <1>7, <1>f DEF SplitBasicBlock
  <2>2. WF(graph')
    BY <1>7, <1>w, <2>1, SplitBlockWF DEF SplitBasicBlock
  <2>3. graph'.blocks = graph.blocks \cup {bb_id_counter}
    BY <1>w, <2>1 DEF SplitBlock, InsertBlockBefore, NewBlock, Emptied, Graphs
  <2>0. bb_id_counter' = bb_id_counter + 1 /\ cond_' = cond_ /\ is_valid' = FALSE
    BY <1>7 DEF SplitBasicBlock, InvalidateCFGSensitivePasses
  <2>4. TypeOK'
    <3>1. graph' \in Graphs
      BY <2>2 DEF WF, Shape
    <3>2. cond_' \in [Ids -> ConditionCodes \cup {None}]
      BY <1>w, <2>0
    <3>3. bb_id_counter' \in Nat
      BY <1>w, <2>0
    <3>4. is_valid' \in BOOLEAN
      BY <2>0
    <3> QED
      BY <3>1, <3>2, <3>3, <3>4 DEF TypeOK
  <2>5. IdsFresh'
    <3>1. \A c \in graph.blocks \cup {bb_id_counter} : c < bb_id_counter + 1
      BY <1>w, <1>n, FreshKept
    <3> QED
      BY <2>0, <2>3, <3>1 DEF IdsFresh
  <2>6. BranchesHaveCodes'
    <3>1. graph'.term = [graph.term EXCEPT ![bb_id_counter] = "none"]
      BY <1>w, <2>1 DEF SplitBlock, InsertBlockBefore, NewBlock, Emptied, Graphs
    <3> QED
      BY <1>w, <2>0, <2>1, <2>3, <3>1 DEF IInv, BranchesHaveCodes, Graphs
  <2> QED
    BY <2>2, <2>4, <2>5, <2>6 DEF IInv
<1>8. ASSUME NEW b \in Ids, DestroyBasicBlock(b) PROVE IInv'
  <2>1. WF(graph')
    BY <1>8, <1>w, DestroyBlockWF DEF DestroyBasicBlock
  <2>2. graph'.blocks \subseteq graph.blocks /\ graph'.term = graph.term
    BY <1>8, <1>w DEF DestroyBasicBlock, DestroyBlock, Graphs
  <2> QED
    BY <1>8, <1>w, <2>1, <2>2, EditInv DEF DestroyBasicBlock, InvalidateCFGSensitivePasses
<1>9. CASE RunAnalysis
  BY <1>9, <1>w, EditInv DEF RunAnalysis
<1>10. CASE UNCHANGED vars
  BY <1>10, <1>w, EditInv DEF vars
<1> QED
  BY <1>1, <1>2, <1>3, <1>4, <1>5, <1>6, <1>7, <1>8, <1>9, <1>10 DEF Next

-----------------------------------------------------------------------------
\* Whatever the front end and the passes do to a graph, in any order, it stays one
\* whose edges have two ends and whose branches have their slots.
THEOREM InductiveInvariant == Spec => []IInv
  BY InitInv, StepInv, PTL DEF Spec

\* Every edit of the graph leaves it a graph.
THEOREM TypeCorrect == Spec => []TypeOK
  BY InductiveInvariant, PTL DEF IInv

\* After any sequence of edits the successor and predecessor lists of the blocks agree
\* (graph.cpp:77-233); no successor is in a slot that the last instruction does not
\* reach, though SplitBasicBlock takes that instruction away for a while; and no
\* block points at a destroyed one.
THEOREM EdgesStayIntact == Spec => []EdgesIntact
<1>1. IInv => EdgesIntact
  BY DEF IInv, WF, Shape, EdgesIntact
<1> QED
  BY <1>1, InductiveInvariant, PTL

-----------------------------------------------------------------------------
\* The ids that no block has had yet have no successors either: a new block changes
\* no edge.
NoEdgesAhead == \A b \in Ids : b >= bb_id_counter => graph.succs[b] = NoSuccs

\* No edit writes to the slots of an id that has no block.
LEMMA EditsBlocksOnly ==
  ASSUME IInv, [Next]_vars, NEW b \in Ids \ graph.blocks,
         ~\E t \in NewTerms, c \in ConditionCodes : NewBasicBlock(t, c),
         ~\E c \in Ids : SplitBasicBlock(c)
  PROVE  graph'.succs[b] = graph.succs[b]
<1>w. /\ graph \in Graphs /\ graph.blocks \subseteq Ids
      /\ \A c \in graph.blocks : graph.preds[c] \subseteq graph.blocks
  BY DEF IInv, TypeOK, WF, Shape, Graphs, NoDangling
<1>1. CASE \E from, to \in Ids, s \in Slots : AddEdge(from, to, s)
  BY <1>1, <1>w DEF AddEdge, AddEdgeTo, CanAddEdge, Graphs
<1>2. CASE \E c, from, to \in Ids : InsertBasicBlock(c, from, to)
  BY <1>2, <1>w DEF InsertBasicBlock, InsertBlock, CanInsertBlock, Graphs
<1>3. CASE \E c, before \in Ids : InsertBasicBlockBefore(c, before)
  BY <1>3, <1>w DEF InsertBasicBlockBefore, InsertBlockBefore, CanInsertBefore, Graphs
<1>4. CASE \E c, prev \in Ids, new \in graph.blocks \cup {None} : ReplaceSuccessorOf(c, prev, new)
  BY <1>4, <1>w DEF ReplaceSuccessorOf, ReplaceSuccessor, CanReplaceSuccessor, Graphs
<1>5. CASE \E c \in Ids : InvertCondition(c)
  BY <1>5, <1>w DEF InvertCondition, SwapTwoSuccessors, CanSwapSuccessors, Graphs
<1>6. CASE \E c \in Ids : DestroyBasicBlock(c)
  BY <1>6, <1>w DEF DestroyBasicBlock, DestroyBlock, Graphs
<1>7. CASE RunAnalysis \/ UNCHANGED vars
  BY <1>7 DEF RunAnalysis, vars
<1> QED
  BY <1>1, <1>2, <1>3, <1>4, <1>5, <1>6, <1>7 DEF Next

LEMMA NoEdgesAheadStep == IInv /\ NoEdgesAhead /\ [Next]_vars => NoEdgesAhead'
<1> SUFFICES ASSUME IInv, NoEdgesAhead, [Next]_vars, NEW b \in Ids, b >= bb_id_counter'
             PROVE  graph'.succs[b] = NoSuccs
  BY DEF NoEdgesAhead
<1>w. /\ graph \in Graphs /\ graph.blocks \subseteq Ids /\ bb_id_counter \in Nat /\ b \in Nat
      /\ \A c \in graph.blocks : c \in Nat /\ c < bb_id_counter
  BY IdsAreNat DEF IInv, TypeOK, WF, Shape, Graphs, IdsFresh
<1>1. ASSUME NEW t \in NewTerms, NEW c \in ConditionCodes, NewBasicBlock(t, c)
      PROVE  graph'.succs[b] = NoSuccs
  <2>1. b # bb_id_counter /\ b >= bb_id_counter
    BY <1>1, <1>w DEF NewBasicBlock
  <2> QED
    BY <1>1, <1>w, <2>1 DEF NewBasicBlock, NewBlock, NoEdgesAhead, Graphs
<1>2. ASSUME NEW c \in Ids, SplitBasicBlock(c) PROVE graph'.succs[b] = NoSuccs
  <2>1. b # bb_id_counter /\ b >= bb_id_counter
    BY <1>2, <1>w DEF SplitBasicBlock
  <2>2. b \notin graph.blocks
    BY <1>w, <2>1
  <2>3. c \in graph.blocks /\ graph.preds[c] \subseteq graph.blocks
    BY <1>2 DEF SplitBasicBlock, CanSplit, IInv, WF, Shape, NoDangling
  <2> DEFINE e == NewBlock(Emptied(graph, c), bb_id_counter, "none")
  <2>4. /\ graph' = [InsertBlockBefore(e, bb_id_counter, c) EXCEPT !.term[c] = graph.term[c]]
        /\ bb_id_counter \in Ids
    BY <1>2 DEF SplitBasicBlock, SplitBlock
  <2>5. /\ e.succs = [graph.succs EXCEPT ![bb_id_counter] = NoSuccs]
        /\ e.preds = [graph.preds EXCEPT ![bb_id_counter] = {}]
    BY <1>w DEF NewBlock, Emptied, Graphs
  <2> HIDE DEF e
  <2>6. graph'.succs[b] = e.succs[b]
    <3>1. c # bb_id_counter
      BY <1>w, <2>3
    <3>2. b \notin e.preds[c]
      BY <1>w, <2>2, <2>3, <2>4, <2>5, <3>1 DEF Graphs
    <3> QED
      BY <2>1, <2>4, <3>2 DEF InsertBlockBefore
  <2> QED
    BY <1>w, <2>1, <2>5, <2>6 DEF NoEdgesAhead, Graphs
<1>3. CASE /\ ~\E t \in NewTerms, c \in ConditionCodes : NewBasicBlock(t, c)
           /\ ~\E c \in Ids : SplitBasicBlock(c)
  <2>1. bb_id_counter' = bb_id_counter
    BY <1>3 DEF Next, AddEdge, InsertBasicBlock, InsertBasicBlockBefore, ReplaceSuccessorOf,
                InvertCondition, DestroyBasicBlock, RunAnalysis, vars
  <2>2. b \notin graph.blocks
    BY <1>w, <2>1
  <2>3. graph'.succs[b] = graph.succs[b]
    BY <1>3, <2>2, EditsBlocksOnly
  <2> QED
    BY <2>1, <2>3 DEF NoEdgesAhead
<1> QED
  BY <1>1, <1>2, <1>3

\* The ids that the counter has not come to yet have no edge, after any edits.
THEOREM AheadInvariant == Spec => [](IInv /\ NoEdgesAhead)
<1>1. Init => NoEdgesAhead
  BY DEF Init, NoEdgesAhead, EmptyGraph
<1> QED
  BY <1>1, NoEdgesAheadStep, InductiveInvariant, PTL DEF Spec

\* Only operations that keep every edge leave the results of an analysis valid
\* (PassManager::InvalidateCFGSensitiveActivePasses).
THEOREM StaleStaysInvalid == Spec => StaleIsInvalid
<1>1. ASSUME IInv, NoEdgesAhead, [Next]_vars, is_valid, is_valid'
      PROVE  graph'.succs = graph.succs
  <2>w. graph \in Graphs /\ bb_id_counter \in Nat
    BY <1>1 DEF IInv, TypeOK
  <2>1. CASE \E t \in NewTerms, c \in ConditionCodes : NewBasicBlock(t, c)
    <3>1. PICK t \in NewTerms, c \in ConditionCodes : NewBasicBlock(t, c)
      BY <2>1
    <3>2. /\ bb_id_counter \in Ids
          /\ graph'.succs = [graph.succs EXCEPT ![bb_id_counter] = NoSuccs]
      BY <2>w, <3>1 DEF NewBasicBlock, NewBlock, Graphs
    <3>3. graph.succs[bb_id_counter] = NoSuccs
      BY <1>1, <2>w, <3>2 DEF NoEdgesAhead
    <3> QED
      BY <2>w, <3>2, <3>3 DEF Graphs
  <2>2. CASE RunAnalysis \/ UNCHANGED vars
    BY <2>2 DEF RunAnalysis, vars
  <2> QED
    BY <1>1, <2>1, <2>2 DEF Next, AddEdge, InsertBasicBlock, InsertBasicBlockBefore,
       ReplaceSuccessorOf, InvertCondition, SplitBasicBlock, DestroyBasicBlock,
       InvalidateCFGSensitivePasses
<1>2. IInv /\ NoEdgesAhead /\ [Next]_vars
      => [is_valid /\ is_valid' => graph'.succs = graph.succs]_vars
  BY <1>1
<1> QED
  BY <1>2, AheadInvariant, PTL DEF Spec, StaleIsInvalid

\* Conditional::Invert negates the comparison for every outcome of it.
LEMMA InvertNegates ==
  ASSUME NEW c \in ConditionCodes, NEW o \in Outcomes
  PROVE  Holds(Invert(c), o) <=> ~Holds(c, o)
  BY DEF ConditionCodes, Outcomes, Holds, Invert

\* Graph::InvertCondition changes no branch's meaning.
THEOREM BranchesKeepMeaning == Spec => BranchMeaningKept
<1>1. ASSUME IInv, NEW b \in Ids, InvertCondition(b), NEW o \in Outcomes
      PROVE  Target(graph', cond_', b, o) = Target(graph, cond_, b, o)
  <2>1. /\ graph \in Graphs /\ cond_ \in [Ids -> ConditionCodes \cup {None}]
        /\ cond_[b] \in ConditionCodes
    BY <1>1, BranchHasCode DEF IInv, TypeOK
  <2>2. graph'.succs[b] = [s \in Slots |-> graph.succs[b][1 - s]]
    BY <1>1, <2>1 DEF InvertCondition, SwapTwoSuccessors, Graphs
  <2>3. /\ graph'.succs[b][BRANCH_TRUE] = graph.succs[b][FALLTHROUGH]
        /\ graph'.succs[b][FALLTHROUGH] = graph.succs[b][BRANCH_TRUE]
    BY <2>2, SlotFacts DEF BRANCH_TRUE, FALLTHROUGH
  <2>4. cond_'[b] = Invert(cond_[b])
    BY <1>1, <2>1 DEF InvertCondition
  <2>5. Holds(cond_'[b], o) <=> ~Holds(cond_[b], o)
    BY <1>1, <2>1, <2>4, InvertNegates
  <2> QED
    BY <2>3, <2>5 DEF Target
<1>2. IInv => [graph'.succs # graph.succs => \A b \in Ids : InvertCondition(b) =>
         \A o \in Outcomes : Target(graph', cond_', b, o) = Target(graph, cond_, b, o)]_vars
  BY <1>1
<1> QED
  BY <1>2, InductiveInvariant, PTL DEF BranchMeaningKept

-----------------------------------------------------------------------------
\* The same edges make the same paths.
LEMMA SameEdgesSamePaths ==
  ASSUME NEW g \in Graphs, NEW h \in Graphs, NEW B \in SUBSET Ids,
         \A b \in Ids : SuccSet(g, b) = SuccSet(h, b)
  PROVE  SamePaths(g, h, B)
  BY SameEdgesSameReach DEF SamePaths

\* The operations the passes restructure a graph with keep every path between
\* the blocks that were part of it.
LEMMA RestructuringKeepsPaths ==
  ASSUME IInv, Restructures
  PROVE  SamePaths(graph, graph', {b \in graph.blocks : ~Unlinked(b)})
<1> DEFINE B == {b \in graph.blocks : ~Unlinked(b)}
<1>w. /\ WF(graph) /\ graph \in Graphs /\ graph.blocks \subseteq Ids
      /\ bb_id_counter \in Nat /\ \A b \in graph.blocks : b < bb_id_counter
  BY DEF IInv, TypeOK, WF, Shape, Graphs, IdsFresh
<1>b. B \in SUBSET Ids
  BY <1>w
<1>1. ASSUME NEW b \in B PROVE SuccSet(graph, b) \subseteq B
  <2> SUFFICES ASSUME NEW c \in SuccSet(graph, b) PROVE c \in B
    OBVIOUS
  <2>1. c \in graph.blocks /\ b \in graph.preds[c]
    BY <1>w DEF WF, Shape, NoDangling, Symmetric
  <2> QED
    BY <2>1 DEF Unlinked
<1>2. ASSUME NEW n \in Ids \ B, graph' \in Graphs, Detours(graph, graph', n, graph.blocks \ {n})
      PROVE  SamePaths(graph, graph', B)
  <2>1. Detours(graph, graph', n, B)
    BY <1>2 DEF Detours
  <2> HIDE DEF B
  <2> QED
    BY <1>b, <1>w, <1>1, <1>2, <2>1, DetoursKeepPaths DEF SamePaths
<1>3. ASSUME NEW b \in Ids, SplitBasicBlock(b) PROVE SamePaths(graph, graph', B)
  <2>1. bb_id_counter \in Ids \ graph.blocks /\ graph' = SplitBlock(graph, b, bb_id_counter)
    <3>1. ~(bb_id_counter < bb_id_counter)
      BY <1>w
    <3> QED
      BY <1>3, <1>w, <3>1 DEF SplitBasicBlock
  <2>2. WF(graph') /\ Detours(graph, graph', bb_id_counter, graph.blocks)
    BY <1>3, <1>w, <2>1, SplitBlockWF DEF SplitBasicBlock
  <2>3. bb_id_counter \in Ids \ B /\ Detours(graph, graph', bb_id_counter, graph.blocks \ {bb_id_counter})
    BY <2>1, <2>2 DEF Detours
  <2> HIDE DEF B
  <2> QED
    BY <1>2, <2>2, <2>3 DEF WF, Shape
<1>4. ASSUME NEW b \in Ids, NEW from \in Ids, NEW to \in Ids, InsertBasicBlock(b, from, to)
      PROVE  SamePaths(graph, graph', B)
  <2>1. WF(graph') /\ Detours(graph, graph', b, graph.blocks \ {b})
    BY <1>4, <1>w, InsertBlockWF DEF InsertBasicBlock, Unlinked, Isolated
  <2>2. b \in Ids \ B
    BY <1>4 DEF InsertBasicBlock
  <2> HIDE DEF B
  <2> QED
    BY <1>2, <2>1, <2>2 DEF WF, Shape
<1>5. ASSUME NEW b \in Ids, NEW before \in Ids, InsertBasicBlockBefore(b, before)
      PROVE  SamePaths(graph, graph', B)
  <2>1. WF(graph') /\ Detours(graph, graph', b, graph.blocks \ {b})
    BY <1>5, <1>w, InsertBeforeWF DEF InsertBasicBlockBefore, Unlinked, Isolated
  <2>2. b \in Ids \ B
    BY <1>5 DEF InsertBasicBlockBefore
  <2> HIDE DEF B
  <2> QED
    BY <1>2, <2>1, <2>2 DEF WF, Shape
<1>6. ASSUME NEW b \in Ids, InvertCondition(b) PROVE SamePaths(graph, graph', B)
  <2>1. WF(graph')
    BY <1>6, <1>w, SwapSuccessorsWF DEF InvertCondition
  <2>2. graph'.succs = [graph.succs EXCEPT ![b] = [s \in Slots |-> graph.succs[b][1 - s]]]
    BY <1>6, <1>w DEF InvertCondition, SwapTwoSuccessors, Graphs
  <2>3. ASSUME NEW c \in Ids PROVE SuccSet(graph', c) = SuccSet(graph, c)
    <3>1. CASE c = b
      <4>1. graph'.succs[b] = [s \in Slots |-> graph.succs[b][1 - s]]
        BY <1>w, <2>2 DEF Graphs
      <4>2. graph'.succs[b][0] = graph.succs[b][1] /\ graph'.succs[b][1] = graph.succs[b][0]
        BY <4>1, SlotFacts
      <4> QED
        BY <3>1, <4>2, SlotFacts DEF SuccSet
    <3>2. CASE c # b
      BY <1>w, <2>2, <3>2 DEF SuccSet, Graphs
    <3> QED
      BY <3>1, <3>2
  <2> HIDE DEF B
  <2> QED
    BY <1>b, <1>w, <2>1, <2>3, SameEdgesSamePaths DEF WF, Shape
<1> QED
  BY <1>3, <1>4, <1>5, <1>6 DEF Restructures

\* Graph::InsertBasicBlock, InsertBasicBlockBefore, SplitBasicBlock and
\* InvertCondition lose no path and invent none.
THEOREM PathsStay == Spec => PathsKept
<1>1. IInv => [ graph'.succs # graph.succs /\ Restructures =>
                  SamePaths(graph, graph', {b \in graph.blocks : ~Unlinked(b)}) ]_vars
  BY RestructuringKeepsPaths
<1> QED
  BY <1>1, InductiveInvariant, PTL DEF PathsKept
=============================================================================
