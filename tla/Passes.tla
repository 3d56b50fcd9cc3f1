------------------------------- MODULE Passes -------------------------------
(***************************************************************************)
(* The PassManager and what the passes ask of it: pass/pass_manager.h and  *)
(* the Run functions. A pass is the sequence of its steps that matter to   *)
(* others: markers it takes, passes it requests, edits of the edges, and   *)
(* the points where its results are there and where it calls SetValid. A   *)
(* request of a pass that is not valid runs it, on top of the one that     *)
(* asked. Pipelines request and run passes and edit the graph in any order.*)
(***************************************************************************)
EXTENDS Integers, Sequences, SequencesExt

CONSTANT NumConcurrentMarkers   \* marking::NumConcurrentMarkers

ASSUME PassesAssumption == NumConcurrentMarkers \in Nat /\ NumConcurrentMarkers >= 3

VARIABLES
  valid,    \* the passes with Pass::is_valid_
  behind,   \* behind[p]: the kinds of edits made since the results of p were computed
  stack,    \* the active Run functions: the pass, its next step, its markers
  in_use    \* the number of slots taken in MarkerFactory::slot_tracker_

vars == <<valid, behind, stack, in_use>>

\* The three edits that are told apart: the loop analysis splits back edges, it
\* adds pre-headers, and everything else.
Edits == {"back edges", "pre-headers", "others"}

Analyses == {"PO", "RPO", "DFS", "BFS", "DomTree", "LoopAnalysis", "LinearOrder",
             "LivenessAnalysis"}
Passes == Analyses \cup {"LinearScan", "DCE", "DBE", "CheckElimination", "Peepholes", "Inlining"}

-----------------------------------------------------------------------------
\* The steps of a pass.
Need(p)    == <<"need", p>>       \* GetValidPass<p>
Rerun(p)   == <<"rerun", p>>      \* Run<p> unless it is valid
Mark(n)    == <<"mark", n>>       \* n markers come into scope
Unmark(n)  == <<"unmark", n>>     \* and leave it
Edit(kind) == <<"edit", kind>>    \* the edges may be changed
Compute    == <<"compute">>       \* the results describe the edges as they are
Validate   == <<"validate">>      \* SetValid(true)
Dominators == <<"dominators">>    \* BasicBlock::Dominates or GetImmDominator is used

Walk == <<Mark(1), Compute, Validate>>

\* Mutated: every call of CollectBackEdges takes markers of its own; the tree is not
\* computed again after back edges were split.
LoopsMarkEveryCall ==
  <<Need("DomTree"), Mark(2), Mark(2), Mark(2), Dominators, Unmark(4), Edit("back edges"),
    Rerun("DomTree"), Dominators, Edit("pre-headers"), Need("PO"), Mark(1), Unmark(1),
    Need("RPO"), Compute, Validate, Need("RPO")>>
LoopsOnOldTree ==
  <<Need("DomTree"), Mark(2), Dominators, Edit("back edges"), Dominators,
    Edit("pre-headers"), Need("PO"), Mark(1), Unmark(1), Need("RPO"), Compute, Validate,
    Need("RPO")>>

\* The branches of the loop analysis that reach Dominates: a loop is given its back
\* edges, its reducibility is computed again.
LoopAnalysis ==
  <<Need("DomTree"), Mark(2), Dominators, Edit("back edges"), Rerun("DomTree"), Dominators,
    Edit("pre-headers"), Need("PO"), Mark(1), Unmark(1), Need("RPO"), Compute, Validate,
    Need("RPO")>>

\* Inserting jumps and inverting branches edits the graph; Check wants RPO again.
LinearOrder ==
  <<Need("DomTree"), Need("LoopAnalysis"), Need("RPO"), Edit("others"), Need("RPO"),
    Compute, Validate>>

LivenessAnalysis ==
  <<Need("DomTree"), Need("LoopAnalysis"), Mark(1), Dominators, Unmark(1), Need("RPO"),
    Dominators, Compute, Validate>>

DomTree == <<Need("DFS"), Compute, Validate>>

\* Critical edges are split; Check wants RPO.
LinearScan == <<Need("LivenessAnalysis"), Edit("others"), Need("RPO")>>

\* Mark and Sweep each ask for PO.
DCE == <<Mark(1), Need("PO"), Need("PO")>>

DBE == <<Need("RPO"), Edit("others")>>

\* The last two are what VisitGraph does, in the order of RPO.
CheckElimination == <<Need("DomTree"), Need("LoopAnalysis"), Need("RPO"), Dominators>>

Peepholes == <<Need("RPO")>>

\* RPO of the callee is run, a graph with passes of its own but the same markers.
Inlining == <<Need("RPO"), Mark(1), Unmark(1), Edit("others")>>

Steps == [PO |-> Walk, RPO |-> Walk, DFS |-> Walk, BFS |-> Walk, DomTree |-> DomTree,
          LoopAnalysis |-> LoopAnalysis, LinearOrder |-> LinearOrder,
          LivenessAnalysis |-> LivenessAnalysis, LinearScan |-> LinearScan, DCE |-> DCE,
          DBE |-> DBE, CheckElimination |-> CheckElimination, Peepholes |-> Peepholes,
          Inlining |-> Inlining]

-----------------------------------------------------------------------------
Call(p) == [pass |-> p, pc |-> 1, markers |-> 0]

\* The passes have been allocated, none has run; a result that was never computed is
\* behind everything.
Init ==
  /\ valid = {}
  /\ behind = [p \in Analyses |-> Edits]
  /\ stack = <<>>
  /\ in_use = 0

Top == stack[Len(stack)]

Ended(frame) == frame.pc = Len(Steps[frame.pass]) + 1

NextStep(step) ==
  stack # <<>> /\ ~Ended(Top) /\ Steps[Top.pass][Top.pc] = step

\* The stack when the topmost pass has done a step.
Advanced(st) == [st EXCEPT ![Len(st)].pc = @ + 1]

-----------------------------------------------------------------------------
\* Mutated: an edit forgets the loop analysis.
ForgetsLoops == valid \ {"PO", "RPO", "DFS", "BFS", "DomTree", "DCE", "LinearOrder", "LivenessAnalysis"}

\* Run<p> or GetValidPass<p> from outside; what is valid is not run by the latter.
Request(p) ==
  /\ stack = <<>>
  /\ stack' = <<Call(p)>>
  /\ UNCHANGED <<valid, behind, in_use>>

\* GetValidPass finds the pass valid, RecalculateLoopsReducibility the tree.
Obtain(p) ==
  /\ NextStep(Need(p)) \/ NextStep(Rerun(p))
  /\ p \in valid
  /\ stack' = Advanced(stack)
  /\ UNCHANGED <<valid, behind, in_use>>

Run(p) ==
  /\ NextStep(Need(p)) \/ NextStep(Rerun(p))
  /\ p \notin valid
  /\ stack' = Append(stack, Call(p))
  /\ UNCHANGED <<valid, behind, in_use>>

\* Run returns; its markers leave their scope, and the caller takes the results,
\* whether the pass has called itself valid or not.
Return ==
  /\ stack # <<>> /\ Ended(Top)
  /\ stack' = IF Len(stack) = 1 THEN <<>> ELSE Advanced(Front(stack))
  /\ in_use' = in_use - Top.markers
  /\ UNCHANGED <<valid, behind>>

TakeMarkers(n) ==
  /\ NextStep(Mark(n))
  /\ stack' = [Advanced(stack) EXCEPT ![Len(stack)].markers = @ + n]
  /\ in_use' = in_use + n
  /\ UNCHANGED <<valid, behind>>

ReleaseMarkers(n) ==
  /\ NextStep(Unmark(n))
  /\ stack' = [Advanced(stack) EXCEPT ![Len(stack)].markers = @ - n]
  /\ in_use' = in_use - n
  /\ UNCHANGED <<valid, behind>>

\* PassManager::InvalidateCFGSensitiveActivePasses
StillValid ==
  valid \ {"PO", "RPO", "DFS", "BFS", "DomTree", "LoopAnalysis", "DCE", "LinearOrder",
           "LivenessAnalysis"}

EditEdges(kind) ==
  /\ valid' = StillValid
  /\ behind' = [p \in Analyses |-> behind[p] \cup {kind}]

\* A pass edits the graph, or finds nothing to do.
MayEdit(kind) ==
  /\ NextStep(Edit(kind))
  /\ stack' = Advanced(stack)
  /\ EditEdges(kind) \/ UNCHANGED <<valid, behind>>
  /\ UNCHANGED in_use

EditFromOutside == stack = <<>> /\ EditEdges("others") /\ UNCHANGED <<stack, in_use>>

ComputeResults ==
  /\ NextStep(Compute)
  /\ behind' = [behind EXCEPT ![Top.pass] = {}]
  /\ stack' = Advanced(stack)
  /\ UNCHANGED <<valid, in_use>>

SetValid ==
  /\ NextStep(Validate)
  /\ valid' = valid \cup {Top.pass}
  /\ stack' = Advanced(stack)
  /\ UNCHANGED <<behind, in_use>>

UseDominators ==
  /\ NextStep(Dominators)
  /\ stack' = Advanced(stack)
  /\ UNCHANGED <<valid, behind, in_use>>

Next ==
  \/ \E p \in Passes : Request(p) \/ Obtain(p) \/ Run(p)
  \/ Return
  \/ \E n \in 1 .. NumConcurrentMarkers : TakeMarkers(n) \/ ReleaseMarkers(n)
  \/ \E kind \in Edits : MayEdit(kind)
  \/ EditFromOutside
  \/ ComputeResults \/ SetValid \/ UseDominators

Spec == Init /\ [][Next]_vars

-----------------------------------------------------------------------------
\* However requests nest, from whatever passes are valid, the slots for markers
\* suffice; one too many ends the program in InitMarker.
MarkersSuffice == in_use <= NumConcurrentMarkers

\* Whoever requests a pass gets results that describe the edges as they are then, also
\* those of a pass that had to be run for it and edited the graph itself.
HandedOutFresh ==
  [][ \A p \in Analyses :
        Obtain(p) \/ (Return /\ Top.pass = p) => behind[p] = {} ]_vars

\* The dominators that the passes go by were computed after every edit but one kind:
\* the loop analysis has added pre-headers since, which leaves the relation between
\* the older blocks as it was. Passes request the dominators first and the loops,
\* whose computation edits the graph, second.
DominatorsMissPreHeadersOnly ==
  NextStep(Dominators) => behind["DomTree"] \subseteq {"pre-headers"}
=============================================================================
