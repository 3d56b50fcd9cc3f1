---------------------------- MODULE PassesProofs ----------------------------
(***************************************************************************)
(* For every number of marker slots from three on: however the passes      *)
(* nest, the slots suffice, and what is handed out is up to date.          *)
(*                                                                         *)
(* The steps of the fourteen passes are looked at once, in StepFacts; the  *)
(* proofs about the stack know nothing else of them.                       *)
(***************************************************************************)
EXTENDS Passes, TLAPS

\* The passes that edit the graph or have one run that does.
Editing == {"LoopAnalysis", "LinearOrder", "LivenessAnalysis", "LinearScan", "DBE",
            "CheckElimination", "Inlining"}

\* The markers a pass holds before its step pc.
Held(p, pc) ==
  CASE p \in {"PO", "RPO", "DFS", "BFS", "DCE"} -> IF pc >= 2 THEN 1 ELSE 0
    [] p = "LoopAnalysis"     -> IF pc = 10 THEN 3 ELSE IF pc >= 3 THEN 2 ELSE 0
    [] p = "LivenessAnalysis" -> IF pc \in {4, 5} THEN 1 ELSE 0
    [] p = "Inlining"         -> IF pc = 3 THEN 1 ELSE 0
    [] OTHER                  -> 0

\* The most that a pass and those it has run ever hold.
MaxMarkers(p) ==
  CASE p \in {"PO", "RPO", "DFS", "BFS", "DomTree", "DBE", "Peepholes", "Inlining"} -> 1
    [] p = "DCE" -> 2
    [] OTHER     -> 3

\* The edits the dominators may have missed when p is about to do its step pc.
Missed(p, pc) ==
  CASE p = "LoopAnalysis" /\ pc \in {2, 3, 4, 6, 7} -> {}
    [] p = "LoopAnalysis" /\ pc >= 8                -> {"pre-headers"}
    [] p = "LivenessAnalysis" /\ pc >= 3            -> {"pre-headers"}
    [] p = "CheckElimination" /\ pc >= 3            -> {"pre-headers"}
    [] OTHER                                        -> Edits

\* The results of p are there, and still those of the graph.
HasResults(p, pc) ==
  \/ p \in {"PO", "RPO", "DFS", "BFS", "DomTree"} /\ pc >= 3
  \/ p = "LoopAnalysis" /\ pc >= 13
  \/ p = "LinearOrder" /\ pc >= 7
  \/ p = "LivenessAnalysis" /\ pc >= 9

\* An edit would take away what p goes by at its step pc.
Knows(p, pc) == HasResults(p, pc) \/ Missed(p, pc) # Edits

-----------------------------------------------------------------------------
\* What a step of p does to all this.
Facts(p, pc, kind, arg) ==
  /\ kind \in {"need", "rerun"} =>
       /\ Held(p, pc) + MaxMarkers(arg) <= MaxMarkers(p)
       /\ arg \in Editing => p \in Editing /\ ~Knows(p, pc)
       /\ \/ arg = "DomTree"
          \/ arg = "LoopAnalysis" /\ {"pre-headers"} \subseteq Missed(p, pc + 1)
          \/ Missed(p, pc) \subseteq Missed(p, pc + 1)
  /\ kind \notin {"need", "rerun"} => Missed(p, pc) \subseteq Missed(p, pc + 1)
  /\ kind = "mark" => Held(p, pc + 1) = Held(p, pc) + arg
  /\ kind = "unmark" => Held(p, pc + 1) = Held(p, pc) - arg
  /\ kind \notin {"mark", "unmark"} => Held(p, pc + 1) = Held(p, pc)
  /\ kind # "compute" /\ HasResults(p, pc + 1) => HasResults(p, pc)
  /\ kind \in {"compute", "validate"} => p \in Analyses
  /\ kind = "edit" =>
       /\ p \in Editing
       /\ ~HasResults(p, pc + 1)
       /\ Missed(p, pc) \cup {arg} \subseteq Missed(p, pc + 1)
  /\ kind = "validate" =>
       /\ HasResults(p, pc)
       /\ p = "LoopAnalysis" => Missed(p, pc) = {"pre-headers"}
  /\ kind = "dominators" => Missed(p, pc) \subseteq {"pre-headers"}

FactsAt(p, pc) == Facts(p, pc, Steps[p][pc][1], Steps[p][pc][2])

\* What holds when p starts and when it has ended.
EndFacts(p, last) ==
  /\ Held(p, 1) = 0 /\ ~HasResults(p, 1) /\ Missed(p, 1) = Edits
  /\ p \in Analyses => HasResults(p, last)
  /\ p = "LoopAnalysis" => Missed(p, last) = {"pre-headers"}

AllFacts(p, len) ==
  /\ Len(Steps[p]) = len
  /\ EndFacts(p, len + 1)
  /\ \A pc \in 1 .. len : FactsAt(p, pc)

LEMMA WalkFacts == \A p \in {"PO", "RPO", "DFS", "BFS"} : AllFacts(p, 3)
<1>1. /\ Len(Walk) = 3
      /\ Walk[1][1] = "mark" /\ Walk[1][2] = 1
      /\ Walk[2][1] = "compute"
      /\ Walk[3][1] = "validate"
  BY DEF Walk, Mark, Compute, Validate
<1>2. \A p \in {"PO", "RPO", "DFS", "BFS"} : Steps[p] = Walk
  BY DEF Steps
<1>3. ASSUME NEW p \in {"PO", "RPO", "DFS", "BFS"} PROVE AllFacts(p, 3)
  <2>1. /\ p \in Analyses /\ p # "LoopAnalysis"
        /\ \A pc \in 1 .. 4 : /\ Held(p, pc) = IF pc >= 2 THEN 1 ELSE 0
                              /\ HasResults(p, pc) <=> pc >= 3
                              /\ Missed(p, pc) = Edits
    BY DEF Analyses, Held, HasResults, Missed
  <2>2. EndFacts(p, 4)
    BY <2>1 DEF EndFacts
  <2>3. FactsAt(p, 1) /\ FactsAt(p, 2) /\ FactsAt(p, 3)
    BY <1>1, <1>2, <2>1 DEF FactsAt, Facts
  <2> QED
    BY <1>1, <1>2, <2>2, <2>3 DEF AllFacts
<1> QED
  BY <1>3

LEMMA DomTreeFacts == AllFacts("DomTree", 3)
<1> USE DEF Facts, Held, MaxMarkers, Missed, HasResults, Knows, Editing, Analyses, Edits
<1>1. Steps["DomTree"] = DomTree
  BY DEF Steps
<1>2. /\ Len(DomTree) = 3
      /\ DomTree[1][1] = "need" /\ DomTree[1][2] = "DFS"
      /\ DomTree[2][1] = "compute"
      /\ DomTree[3][1] = "validate"
  BY DEF DomTree, Compute, Need, Validate
<1>3. EndFacts("DomTree", 4)
  BY DEF EndFacts
<1>4. FactsAt("DomTree", 1)
  BY <1>1, <1>2 DEF FactsAt
<1>5. FactsAt("DomTree", 2)
  BY <1>1, <1>2 DEF FactsAt
<1>6. FactsAt("DomTree", 3)
  BY <1>1, <1>2 DEF FactsAt
<1> QED
  BY <1>1, <1>2, <1>3, <1>4, <1>5, <1>6 DEF AllFacts

LEMMA LoopAnalysisFacts == AllFacts("LoopAnalysis", 14)
<1>1. Steps["LoopAnalysis"] = LoopAnalysis /\ Len(LoopAnalysis) = 14
  BY DEF Steps, LoopAnalysis
<1>2. EndFacts("LoopAnalysis", 15)
  BY DEF EndFacts, Held, Missed, HasResults
<1>3. ASSUME NEW pc \in 1 .. 14 PROVE FactsAt("LoopAnalysis", pc)
  <2> USE DEF Facts, Held, MaxMarkers, Missed, HasResults, Knows, Editing, Analyses, Edits
  <2>1. CASE pc = 1
    <3>1. LoopAnalysis[1][1] = "need" /\ LoopAnalysis[1][2] = "DomTree"
      BY DEF LoopAnalysis, Need
    <3> QED
      BY <1>1, <2>1, <3>1 DEF FactsAt
  <2>2. CASE pc = 2
    <3>1. LoopAnalysis[2][1] = "mark" /\ LoopAnalysis[2][2] = 2
      BY DEF LoopAnalysis, Mark
    <3> QED
      BY <1>1, <2>2, <3>1 DEF FactsAt
  <2>3. CASE pc = 3
    <3>1. LoopAnalysis[3][1] = "dominators"
      BY DEF LoopAnalysis, Dominators
    <3> QED
      BY <1>1, <2>3, <3>1 DEF FactsAt
  <2>4. CASE pc = 4
    <3>1. LoopAnalysis[4][1] = "edit" /\ LoopAnalysis[4][2] = "back edges"
      BY DEF LoopAnalysis, Edit
    <3>2. Facts("LoopAnalysis", 4, "edit", "back edges")
      OBVIOUS
    <3> QED
      BY <1>1, <2>4, <3>1, <3>2, Zenon DEF FactsAt
  <2>5. CASE pc = 5
    <3>1. LoopAnalysis[5][1] = "rerun" /\ LoopAnalysis[5][2] = "DomTree"
      BY DEF LoopAnalysis, Rerun
    <3> QED
      BY <1>1, <2>5, <3>1 DEF FactsAt
  <2>6. CASE pc = 6
    <3>1. LoopAnalysis[6][1] = "dominators"
      BY DEF LoopAnalysis, Dominators
    <3> QED
      BY <1>1, <2>6, <3>1 DEF FactsAt
  <2>7. CASE pc = 7
    <3>1. LoopAnalysis[7][1] = "edit" /\ LoopAnalysis[7][2] = "pre-headers"
      BY DEF LoopAnalysis, Edit
    <3> QED
      BY <1>1, <2>7, <3>1 DEF FactsAt
  <2>8. CASE pc = 8
    <3>1. LoopAnalysis[8][1] = "need" /\ LoopAnalysis[8][2] = "PO"
      BY DEF LoopAnalysis, Need
    <3> QED
      BY <1>1, <2>8, <3>1 DEF FactsAt
  <2>9. CASE pc = 9
    <3>1. LoopAnalysis[9][1] = "mark" /\ LoopAnalysis[9][2] = 1
      BY DEF LoopAnalysis, Mark
    <3> QED
      BY <1>1, <2>9, <3>1 DEF FactsAt
  <2>10. CASE pc = 10
    <3>1. LoopAnalysis[10][1] = "unmark" /\ LoopAnalysis[10][2] = 1
      BY DEF LoopAnalysis, Unmark
    <3> QED
      BY <1>1, <2>10, <3>1 DEF FactsAt
  <2>11. CASE pc = 11
    <3>1. LoopAnalysis[11][1] = "need" /\ LoopAnalysis[11][2] = "RPO"
      BY DEF LoopAnalysis, Need
    <3> QED
      BY <1>1, <2>11, <3>1 DEF FactsAt
  <2>12. CASE pc = 12
    <3>1. LoopAnalysis[12][1] = "compute"
      BY DEF LoopAnalysis, Compute
    <3> QED
      BY <1>1, <2>12, <3>1 DEF FactsAt
  <2>13. CASE pc = 13
    <3>1. LoopAnalysis[13][1] = "validate"
      BY DEF LoopAnalysis, Validate
    <3> QED
      BY <1>1, <2>13, <3>1 DEF FactsAt
  <2>14. CASE pc = 14
    <3>1. LoopAnalysis[14][1] = "need" /\ LoopAnalysis[14][2] = "RPO"
      BY DEF LoopAnalysis, Need
    <3> QED
      BY <1>1, <2>14, <3>1 DEF FactsAt
  <2> QED
    BY <2>1, <2>2, <2>3, <2>4, <2>5, <2>6, <2>7, <2>8, <2>9, <2>10, <2>11, <2>12, <2>13, <2>14
<1> QED
  BY <1>1, <1>2, <1>3 DEF AllFacts

LEMMA LinearOrderFacts == AllFacts("LinearOrder", 7)
<1> USE DEF Facts, Held, MaxMarkers, Missed, HasResults, Knows, Editing, Analyses, Edits
<1>1. Steps["LinearOrder"] = LinearOrder
  BY DEF Steps
<1>2. /\ Len(LinearOrder) = 7
      /\ LinearOrder[1][1] = "need" /\ LinearOrder[1][2] = "DomTree"
      /\ LinearOrder[2][1] = "need" /\ LinearOrder[2][2] = "LoopAnalysis"
      /\ LinearOrder[3][1] = "need" /\ LinearOrder[3][2] = "RPO"
      /\ LinearOrder[4][1] = "edit" /\ LinearOrder[4][2] = "others"
      /\ LinearOrder[5][1] = "need" /\ LinearOrder[5][2] = "RPO"
      /\ LinearOrder[6][1] = "compute"
      /\ LinearOrder[7][1] = "validate"
  BY DEF LinearOrder, Compute, Edit, Need, Validate
<1>3. EndFacts("LinearOrder", 8)
  BY DEF EndFacts
<1>4. FactsAt("LinearOrder", 1)
  BY <1>1, <1>2 DEF FactsAt
<1>5. FactsAt("LinearOrder", 2)
  BY <1>1, <1>2 DEF FactsAt
<1>6. FactsAt("LinearOrder", 3)
  BY <1>1, <1>2 DEF FactsAt
<1>7. FactsAt("LinearOrder", 4)
  BY <1>1, <1>2 DEF FactsAt
<1>8. FactsAt("LinearOrder", 5)
  BY <1>1, <1>2 DEF FactsAt
<1>9. FactsAt("LinearOrder", 6)
  BY <1>1, <1>2 DEF FactsAt
<1>10. FactsAt("LinearOrder", 7)
  BY <1>1, <1>2 DEF FactsAt
<1> QED
  BY <1>1, <1>2, <1>3, <1>4, <1>5, <1>6, <1>7, <1>8, <1>9, <1>10 DEF AllFacts

LEMMA LivenessAnalysisFacts == AllFacts("LivenessAnalysis", 9)
<1> USE DEF Facts, Held, MaxMarkers, Missed, HasResults, Knows, Editing, Analyses, Edits
<1>1. Steps["LivenessAnalysis"] = LivenessAnalysis
  BY DEF Steps
<1>2. /\ Len(LivenessAnalysis) = 9
      /\ LivenessAnalysis[1][1] = "need" /\ LivenessAnalysis[1][2] = "DomTree"
      /\ LivenessAnalysis[2][1] = "need" /\ LivenessAnalysis[2][2] = "LoopAnalysis"
      /\ LivenessAnalysis[3][1] = "mark" /\ LivenessAnalysis[3][2] = 1
      /\ LivenessAnalysis[4][1] = "dominators"
      /\ LivenessAnalysis[5][1] = "unmark" /\ LivenessAnalysis[5][2] = 1
      /\ LivenessAnalysis[6][1] = "need" /\ LivenessAnalysis[6][2] = "RPO"
      /\ LivenessAnalysis[7][1] = "dominators"
      /\ LivenessAnalysis[8][1] = "compute"
      /\ LivenessAnalysis[9][1] = "validate"
  BY DEF LivenessAnalysis, Compute, Dominators, Mark, Need, Unmark, Validate
<1>3. EndFacts("LivenessAnalysis", 10)
  BY DEF EndFacts
<1>4. FactsAt("LivenessAnalysis", 1)
  BY <1>1, <1>2 DEF FactsAt
<1>5. FactsAt("LivenessAnalysis", 2)
  BY <1>1, <1>2 DEF FactsAt
<1>6. FactsAt("LivenessAnalysis", 3)
  BY <1>1, <1>2 DEF FactsAt
<1>7. FactsAt("LivenessAnalysis", 4)
  BY <1>1, <1>2 DEF FactsAt
<1>8. FactsAt("LivenessAnalysis", 5)
  BY <1>1, <1>2 DEF FactsAt
<1>9. FactsAt("LivenessAnalysis", 6)
  BY <1>1, <1>2 DEF FactsAt
<1>10. FactsAt("LivenessAnalysis", 7)
  BY <1>1, <1>2 DEF FactsAt
<1>11. FactsAt("LivenessAnalysis", 8)
  BY <1>1, <1>2 DEF FactsAt
<1>12. FactsAt("LivenessAnalysis", 9)
  BY <1>1, <1>2 DEF FactsAt
<1> QED
  BY <1>1, <1>2, <1>3, <1>4, <1>5, <1>6, <1>7, <1>8, <1>9, <1>10, <1>11, <1>12 DEF AllFacts

LEMMA LinearScanFacts == AllFacts("LinearScan", 3)
<1> USE DEF Facts, Held, MaxMarkers, Missed, HasResults, Knows, Editing, Analyses, Edits
<1>1. Steps["LinearScan"] = LinearScan
  BY DEF Steps
<1>2. /\ Len(LinearScan) = 3
      /\ LinearScan[1][1] = "need" /\ LinearScan[1][2] = "LivenessAnalysis"
      /\ LinearScan[2][1] = "edit" /\ LinearScan[2][2] = "others"
      /\ LinearScan[3][1] = "need" /\ LinearScan[3][2] = "RPO"
  BY DEF LinearScan, Edit, Need
<1>3. EndFacts("LinearScan", 4)
  BY DEF EndFacts
<1>4. FactsAt("LinearScan", 1)
  BY <1>1, <1>2 DEF FactsAt
<1>5. FactsAt("LinearScan", 2)
  BY <1>1, <1>2 DEF FactsAt
<1>6. FactsAt("LinearScan", 3)
  BY <1>1, <1>2 DEF FactsAt
<1> QED
  BY <1>1, <1>2, <1>3, <1>4, <1>5, <1>6 DEF AllFacts

LEMMA DCEFacts == AllFacts("DCE", 3)
<1> USE DEF Facts, Held, MaxMarkers, Missed, HasResults, Knows, Editing, Analyses, Edits
<1>1. Steps["DCE"] = DCE
  BY DEF Steps
<1>2. /\ Len(DCE) = 3
      /\ DCE[1][1] = "mark" /\ DCE[1][2] = 1
      /\ DCE[2][1] = "need" /\ DCE[2][2] = "PO"
      /\ DCE[3][1] = "need" /\ DCE[3][2] = "PO"
  BY DEF DCE, Mark, Need
<1>3. EndFacts("DCE", 4)
  BY DEF EndFacts
<1>4. FactsAt("DCE", 1)
  BY <1>1, <1>2 DEF FactsAt
<1>5. FactsAt("DCE", 2)
  BY <1>1, <1>2 DEF FactsAt
<1>6. FactsAt("DCE", 3)
  BY <1>1, <1>2 DEF FactsAt
<1> QED
  BY <1>1, <1>2, <1>3, <1>4, <1>5, <1>6 DEF AllFacts

LEMMA DBEFacts == AllFacts("DBE", 2)
<1> USE DEF Facts, Held, MaxMarkers, Missed, HasResults, Knows, Editing, Analyses, Edits
<1>1. Steps["DBE"] = DBE
  BY DEF Steps
<1>2. /\ Len(DBE) = 2
      /\ DBE[1][1] = "need" /\ DBE[1][2] = "RPO"
      /\ DBE[2][1] = "edit" /\ DBE[2][2] = "others"
  BY DEF DBE, Edit, Need
<1>3. EndFacts("DBE", 3)
  BY DEF EndFacts
<1>4. FactsAt("DBE", 1)
  BY <1>1, <1>2 DEF FactsAt
<1>5. FactsAt("DBE", 2)
  BY <1>1, <1>2 DEF FactsAt
<1> QED
  BY <1>1, <1>2, <1>3, <1>4, <1>5 DEF AllFacts

LEMMA CheckEliminationFacts == AllFacts("CheckElimination", 4)
<1> USE DEF Facts, Held, MaxMarkers, Missed, HasResults, Knows, Editing, Analyses, Edits
<1>1. Steps["CheckElimination"] = CheckElimination
  BY DEF Steps
<1>2. /\ Len(CheckElimination) = 4
      /\ CheckElimination[1][1] = "need" /\ CheckElimination[1][2] = "DomTree"
      /\ CheckElimination[2][1] = "need" /\ CheckElimination[2][2] = "LoopAnalysis"
      /\ CheckElimination[3][1] = "need" /\ CheckElimination[3][2] = "RPO"
      /\ CheckElimination[4][1] = "dominators"
  BY DEF CheckElimination, Dominators, Need
<1>3. EndFacts("CheckElimination", 5)
  BY DEF EndFacts
<1>4. FactsAt("CheckElimination", 1)
  BY <1>1, <1>2 DEF FactsAt
<1>5. FactsAt("CheckElimination", 2)
  BY <1>1, <1>2 DEF FactsAt
<1>6. FactsAt("CheckElimination", 3)
  BY <1>1, <1>2 DEF FactsAt
<1>7. FactsAt("CheckElimination", 4)
  BY <1>1, <1>2 DEF FactsAt
<1> QED
  BY <1>1, <1>2, <1>3, <1>4, <1>5, <1>6, <1>7 DEF AllFacts

LEMMA PeepholesFacts == AllFacts("Peepholes", 1)
<1> USE DEF Facts, Held, MaxMarkers, Missed, HasResults, Knows, Editing, Analyses, Edits
<1>1. Steps["Peepholes"] = Peepholes
  BY DEF Steps
<1>2. /\ Len(Peepholes) = 1
      /\ Peepholes[1][1] = "need" /\ Peepholes[1][2] = "RPO"
  BY DEF Peepholes, Need
<1>3. EndFacts("Peepholes", 2)
  BY DEF EndFacts
<1>4. FactsAt("Peepholes", 1)
  BY <1>1, <1>2 DEF FactsAt
<1> QED
  BY <1>1, <1>2, <1>3, <1>4 DEF AllFacts

LEMMA InliningFacts == AllFacts("Inlining", 4)
<1> USE DEF Facts, Held, MaxMarkers, Missed, HasResults, Knows, Editing, Analyses, Edits
<1>1. Steps["Inlining"] = Inlining
  BY DEF Steps
<1>2. /\ Len(Inlining) = 4
      /\ Inlining[1][1] = "need" /\ Inlining[1][2] = "RPO"
      /\ Inlining[2][1] = "mark" /\ Inlining[2][2] = 1
      /\ Inlining[3][1] = "unmark" /\ Inlining[3][2] = 1
      /\ Inlining[4][1] = "edit" /\ Inlining[4][2] = "others"
  BY DEF Inlining, Edit, Mark, Need, Unmark
<1>3. EndFacts("Inlining", 5)
  BY DEF EndFacts
<1>4. FactsAt("Inlining", 1)
  BY <1>1, <1>2 DEF FactsAt
<1>5. FactsAt("Inlining", 2)
  BY <1>1, <1>2 DEF FactsAt
<1>6. FactsAt("Inlining", 3)
  BY <1>1, <1>2 DEF FactsAt
<1>7. FactsAt("Inlining", 4)
  BY <1>1, <1>2 DEF FactsAt
<1> QED
  BY <1>1, <1>2, <1>3, <1>4, <1>5, <1>6, <1>7 DEF AllFacts

LEMMA StepFacts ==
  \A p \in Passes :
    /\ Len(Steps[p]) \in Nat \ {0}
    /\ EndFacts(p, Len(Steps[p]) + 1)
    /\ \A pc \in 1 .. Len(Steps[p]) : FactsAt(p, pc)
<1>1. \A p, len : len \in Nat \ {0} /\ AllFacts(p, len) =>
        /\ Len(Steps[p]) \in Nat \ {0}
        /\ EndFacts(p, Len(Steps[p]) + 1)
        /\ \A pc \in 1 .. Len(Steps[p]) : FactsAt(p, pc)
  BY DEF AllFacts
<1>2. \A p \in Passes : \E len \in Nat \ {0} : AllFacts(p, len)
  BY WalkFacts, DomTreeFacts, LoopAnalysisFacts, LinearOrderFacts, LivenessAnalysisFacts,
     LinearScanFacts, DCEFacts, DBEFacts, CheckEliminationFacts, PeepholesFacts, InliningFacts
  DEF Passes, Analyses
<1> QED
  BY <1>1, <1>2

-----------------------------------------------------------------------------
\* The invariant of the stack: every frame but the topmost waits for the one on
\* it, the slots in use are those the frames hold, on top of what is below it each
\* frame may still take what its pass needs, and nothing that may edit is on top of
\* a frame that knows something.
Frames == [pass : Passes, pc : Nat, markers : Nat]

FrameOK(f) ==
  /\ f \in Frames
  /\ f.pc <= Len(Steps[f.pass]) + 1 /\ f.pc > 0
  /\ f.markers = Held(f.pass, f.pc)

Waits(f, q) ==
  /\ f.pc <= Len(Steps[f.pass])
  /\ Steps[f.pass][f.pc] \in {Need(q), Rerun(q)}

\* base[k]: the markers of the frames below frame k.
Counts(base, k, f) ==
  /\ base[k + 1] = base[k] + f.markers
  /\ base[k] + MaxMarkers(f.pass) <= 3

Counted(st, used, base) ==
  /\ base[1] = 0
  /\ \A k \in 1 .. Len(st) : Counts(base, k, st[k])
  /\ used = base[Len(st) + 1]

Budget(st, used) == \E base \in [1 .. Len(st) + 1 -> Nat] : Counted(st, used, base)

Quiet(f, q) == Knows(f.pass, f.pc) => q \notin Editing

StackInv(st, used) ==
  /\ st \in Seq(Frames)
  /\ \A k \in 1 .. Len(st) : FrameOK(st[k])
  /\ \A k \in 1 .. Len(st) - 1 : Waits(st[k], st[k + 1].pass)
  /\ Budget(st, used)
  /\ \A j, k \in 1 .. Len(st) : j < k => Quiet(st[j], st[k].pass)

LEMMA HeldFacts ==
  /\ \A p, pc : Held(p, pc) \in Nat
  /\ \A p : MaxMarkers(p) \in 1 .. 3
  /\ \A p \in Passes, pc \in Nat : Held(p, pc) <= MaxMarkers(p)
  BY DEF Held, MaxMarkers, Passes, Analyses

\* The frame g is f when its pass has done its step.
Advance(f, g) ==
  /\ g.pass = f.pass
  /\ g.pc = f.pc + 1
  /\ g.markers = Held(f.pass, f.pc + 1)

\* The topmost frame does a step.
LEMMA StackAdvances ==
  ASSUME NEW st, NEW used, StackInv(st, used), NEW n \in Nat \ {0}, Len(st) = n,
         st[n].pc <= Len(Steps[st[n].pass]),
         NEW t, t \in Seq(Frames), Len(t) = n, \A k \in 1 .. n - 1 : t[k] = st[k],
         Advance(st[n], t[n])
  PROVE  StackInv(t, used - st[n].markers + t[n].markers)
<1>1. FrameOK(st[n]) /\ st[n] \in Frames /\ t[n] \in Frames
  BY DEF StackInv, FrameOK
<1>2. FrameOK(t[n])
  BY <1>1 DEF FrameOK, Frames, Advance
<1>3. ASSUME NEW k \in 1 .. n PROVE FrameOK(t[k])
  <2>1. CASE k = n
    BY <1>2, <2>1
  <2>2. CASE k # n
    BY <2>2 DEF StackInv
  <2> QED
    BY <2>1, <2>2
<1>4. ASSUME NEW k \in 1 .. n - 1 PROVE Waits(t[k], t[k + 1].pass)
  <2>1. Waits(st[k], st[k + 1].pass) /\ t[k] = st[k]
    BY DEF StackInv
  <2>2. t[k + 1].pass = st[k + 1].pass
    BY DEF Advance
  <2> QED
    BY <2>1, <2>2
<1>5. Budget(t, used - st[n].markers + t[n].markers)
  <2>1. PICK base \in [1 .. n + 1 -> Nat] : Counted(st, used, base)
    BY DEF StackInv, Budget
  <2>2. /\ base[n + 1] = base[n] + st[n].markers /\ used = base[n + 1]
        /\ base[n] + MaxMarkers(st[n].pass) <= 3
        /\ base[n] \in Nat /\ st[n].markers \in Nat /\ t[n].markers \in Nat
    BY <1>1, <2>1 DEF Counted, Counts, Frames
  <2> DEFINE b == [base EXCEPT ![n + 1] = base[n] + t[n].markers]
  <2>3. /\ b \in [1 .. n + 1 -> Nat] /\ (\A k \in 1 .. n : b[k] = base[k])
        /\ b[n + 1] = base[n] + t[n].markers
    BY <2>2
  <2> HIDE DEF b
  <2>4. ASSUME NEW k \in 1 .. n PROVE Counts(b, k, t[k])
    <3>1. CASE k = n
      BY <2>2, <2>3, <3>1 DEF Counts, Advance
    <3>2. CASE k # n
      <4>1. Counts(base, k, st[k]) /\ t[k] = st[k]
        BY <2>1, <3>2 DEF Counted
      <4>2. b[k] = base[k] /\ b[k + 1] = base[k + 1]
        BY <2>3, <3>2
      <4> QED
        BY <4>1, <4>2 DEF Counts
    <3> QED
      BY <3>1, <3>2
  <2>5. used - st[n].markers + t[n].markers = b[n + 1]
    BY <2>2, <2>3
  <2>6. b[1] = 0
    BY <2>1, <2>3 DEF Counted
  <2> QED
    BY <2>3, <2>4, <2>5, <2>6 DEF Budget, Counted
<1>6. ASSUME NEW j \in 1 .. n, NEW k \in 1 .. n, j < k PROVE Quiet(t[j], t[k].pass)
  <2>1. Quiet(st[j], st[k].pass)
    BY <1>6 DEF StackInv
  <2>2. t[j] = st[j]
    BY <1>6
  <2>3. t[k].pass = st[k].pass
    BY DEF Advance
  <2> QED
    BY <2>1, <2>2, <2>3
<1> QED
  BY <1>3, <1>4, <1>5, <1>6 DEF StackInv

\* It returns.
LEMMA StackReturns ==
  ASSUME NEW st, NEW used, StackInv(st, used), NEW n \in Nat, Len(st) = n, n > 1,
         NEW t, t = Front(st)
  PROVE  /\ StackInv(t, used - st[n].markers)
         /\ Len(t) = n - 1
         /\ \A k \in 1 .. n - 1 : t[k] = st[k]
         /\ Waits(st[n - 1], st[n].pass)
<1>1. t \in Seq(Frames) /\ Len(t) = n - 1 /\ \A k \in 1 .. n - 1 : t[k] = st[k]
  BY DEF Front, StackInv
<1>2. ASSUME NEW k \in 1 .. n - 1 PROVE FrameOK(t[k])
  BY <1>1 DEF StackInv
<1>3. ASSUME NEW k \in 1 .. n - 2 PROVE Waits(t[k], t[k + 1].pass)
  <2>1. Waits(st[k], st[k + 1].pass)
    BY DEF StackInv
  <2>2. t[k] = st[k] /\ t[k + 1] = st[k + 1]
    BY <1>1
  <2> QED
    BY <2>1, <2>2
<1>4. Budget(t, used - st[n].markers)
  <2>1. PICK base \in [1 .. n + 1 -> Nat] : Counted(st, used, base)
    BY DEF StackInv, Budget
  <2> DEFINE b == [k \in 1 .. n |-> base[k]]
  <2>2. b \in [1 .. n -> Nat] /\ \A k \in 1 .. n : b[k] = base[k]
    BY <2>1
  <2>3. base[n + 1] = base[n] + st[n].markers /\ used = base[n + 1] /\ base[1] = 0
    BY <2>1 DEF Counted, Counts
  <2>4. st[n].markers \in Nat
    <3>1. FrameOK(st[n])
      BY DEF StackInv
    <3> QED
      BY <3>1 DEF FrameOK, Frames
  <2> HIDE DEF b
  <2>5. ASSUME NEW k \in 1 .. n - 1 PROVE Counts(b, k, t[k])
    <3>1. Counts(base, k, st[k]) /\ t[k] = st[k]
      BY <1>1, <2>1 DEF Counted
    <3>2. b[k] = base[k] /\ b[k + 1] = base[k + 1]
      BY <2>2
    <3> QED
      BY <3>1, <3>2 DEF Counts
  <2>6. used - st[n].markers = b[n] /\ b[1] = 0
    BY <2>1, <2>2, <2>3, <2>4
  <2>7. (n - 1) + 1 = n
    OBVIOUS
  <2> QED
    BY <1>1, <2>2, <2>5, <2>6, <2>7 DEF Budget, Counted
<1>5. ASSUME NEW j \in 1 .. n - 1, NEW k \in 1 .. n - 1, j < k PROVE Quiet(t[j], t[k].pass)
  <2>1. Quiet(st[j], st[k].pass)
    BY <1>5 DEF StackInv
  <2> QED
    BY <1>1, <2>1
<1>6. Waits(st[n - 1], st[n].pass)
  BY DEF StackInv
<1>7. (n - 1) - 1 = n - 2
  OBVIOUS
<1> QED
  BY <1>1, <1>2, <1>3, <1>4, <1>5, <1>6, <1>7 DEF StackInv

\* It runs another pass.
LEMMA StackCalls ==
  ASSUME NEW st, NEW used, StackInv(st, used), NEW n \in Nat, Len(st) = n,
         NEW q \in Passes, n > 0 => Waits(st[n], q),
         NEW t, t = Append(st, Call(q))
  PROVE  StackInv(t, used)
<1>1. Call(q) \in Frames /\ Call(q).pass = q /\ Call(q).pc = 1 /\ Call(q).markers = 0
  BY DEF Frames, Call
<1>2. /\ t \in Seq(Frames) /\ Len(t) = n + 1
      /\ \A k \in 1 .. n : t[k] = st[k]
      /\ t[n + 1] = Call(q)
  BY <1>1 DEF StackInv
<1>3. FrameOK(Call(q))
  <2>1. Held(q, 1) = 0 /\ Len(Steps[q]) \in Nat \ {0}
    BY StepFacts DEF EndFacts
  <2> QED
    BY <1>1, <2>1 DEF FrameOK
<1>4. ASSUME n > 0
      PROVE  /\ st[n].markers + MaxMarkers(q) <= MaxMarkers(st[n].pass)
             /\ q \in Editing => st[n].pass \in Editing /\ ~Knows(st[n].pass, st[n].pc)
  <2>1. FrameOK(st[n])
    BY <1>4 DEF StackInv
  <2>2. st[n].pass \in Passes /\ st[n].pc \in 1 .. Len(Steps[st[n].pass])
    BY <1>4, <2>1, StepFacts DEF FrameOK, Frames, Waits
  <2>3. FactsAt(st[n].pass, st[n].pc)
    BY <2>2, StepFacts
  <2> DEFINE s == Steps[st[n].pass][st[n].pc]
  <2>4. s[1] \in {"need", "rerun"} /\ s[2] = q
    BY <1>4 DEF Need, Rerun, Waits
  <2>5. Facts(st[n].pass, st[n].pc, s[1], s[2])
    BY <2>3 DEF FactsAt
  <2>6. st[n].markers = Held(st[n].pass, st[n].pc)
    BY <2>1 DEF FrameOK
  <2> HIDE DEF s
  <2> QED
    BY <2>4, <2>5, <2>6 DEF Facts
<1>5. ASSUME NEW k \in 1 .. n + 1 PROVE FrameOK(t[k])
  <2>1. CASE k = n + 1
    BY <1>2, <1>3, <2>1
  <2>2. CASE k # n + 1
    BY <1>2, <2>2 DEF StackInv
  <2> QED
    BY <2>1, <2>2
<1>6. ASSUME NEW k \in 1 .. n PROVE Waits(t[k], t[k + 1].pass)
  <2>1. CASE k = n
    BY <1>1, <1>2, <2>1
  <2>2. CASE k # n
    <3>1. Waits(st[k], st[k + 1].pass)
      BY <2>2 DEF StackInv
    <3>2. t[k] = st[k] /\ t[k + 1] = st[k + 1]
      BY <1>2, <2>2
    <3> QED
      BY <3>1, <3>2
  <2> QED
    BY <2>1, <2>2
<1>7. Budget(t, used)
  <2>1. PICK base \in [1 .. n + 1 -> Nat] : Counted(st, used, base)
    BY DEF StackInv, Budget
  <2> DEFINE b == [k \in 1 .. n + 2 |-> IF k = n + 2 THEN base[n + 1] ELSE base[k]]
  <2>2. /\ b \in [1 .. n + 2 -> Nat] /\ (\A k \in 1 .. n + 1 : b[k] = base[k])
        /\ b[n + 2] = base[n + 1]
    BY <2>1
  <2>3. base[n + 1] + MaxMarkers(q) <= 3
    <3>1. CASE n = 0
      BY <2>1, <3>1, HeldFacts DEF Counted
    <3>2. CASE n > 0
      <4>1. Counts(base, n, st[n])
        BY <2>1, <3>2 DEF Counted
      <4>2. st[n].markers \in Nat /\ base[n] \in Nat
        BY <2>1, <3>2 DEF StackInv, FrameOK, Frames
      <4>3. MaxMarkers(q) \in 1 .. 3 /\ MaxMarkers(st[n].pass) \in 1 .. 3
        BY HeldFacts
      <4> DEFINE below == base[n]
                 own == st[n].markers
                 most == MaxMarkers(st[n].pass)
                 more == MaxMarkers(q)
                 now == base[n + 1]
      <4>4. /\ below \in Int /\ own \in Int /\ most \in Int /\ more \in Int
            /\ now = below + own /\ below + most <= 3 /\ own + more <= most
        BY <1>4, <3>2, <4>1, <4>2, <4>3 DEF Counts
      <4> HIDE DEF below, own, most, more, now
      <4>5. now + more <= 3
        BY <4>4
      <4> QED
        BY <4>5 DEF now, more
    <3> QED
      BY <3>1, <3>2
  <2> HIDE DEF b
  <2>4. ASSUME NEW k \in 1 .. n + 1 PROVE Counts(b, k, t[k])
    <3>1. CASE k = n + 1
      <4>1. b[k] = base[n + 1] /\ b[k + 1] = base[n + 1] /\ base[n + 1] \in Nat
        BY <2>1, <2>2, <3>1
      <4> QED
        BY <1>1, <1>2, <2>3, <3>1, <4>1 DEF Counts
    <3>2. CASE k # n + 1
      <4>1. Counts(base, k, st[k]) /\ t[k] = st[k]
        BY <1>2, <2>1, <3>2 DEF Counted
      <4>2. b[k] = base[k] /\ b[k + 1] = base[k + 1]
        BY <2>2, <3>2
      <4> QED
        BY <4>1, <4>2 DEF Counts
    <3> QED
      BY <3>1, <3>2
  <2>5. used = b[n + 2] /\ b[1] = 0
    BY <2>1, <2>2 DEF Counted
  <2>6. (n + 1) + 1 = n + 2
    OBVIOUS
  <2> QED
    BY <1>2, <2>2, <2>4, <2>5, <2>6 DEF Budget, Counted
<1>8. ASSUME NEW j \in 1 .. n + 1, NEW k \in 1 .. n + 1, j < k
      PROVE  Quiet(t[j], t[k].pass)
  <2>1. j \in 1 .. n /\ t[j] = st[j]
    BY <1>2, <1>8
  <2>2. CASE k # n + 1
    <3>1. Quiet(st[j], st[k].pass) /\ t[k] = st[k]
      BY <1>2, <1>8, <2>1, <2>2 DEF StackInv
    <3> QED
      BY <2>1, <3>1
  <2>3. CASE k = n + 1 /\ j = n
    BY <1>1, <1>2, <1>4, <2>1, <2>3 DEF Quiet
  <2>4. CASE k = n + 1 /\ j # n
    <3>1. Quiet(st[j], st[n].pass)
      BY <2>1, <2>4 DEF StackInv
    <3> QED
      BY <1>1, <1>2, <1>4, <2>1, <2>4, <3>1 DEF Quiet
  <2> QED
    BY <2>2, <2>3, <2>4
<1> QED
  BY <1>2, <1>5, <1>6, <1>7, <1>8 DEF StackInv

-----------------------------------------------------------------------------
\* What a valid pass is worth, and what a frame goes by.
ValidFresh(ok, missing) ==
  /\ ok \subseteq Passes
  /\ missing \in [Analyses -> SUBSET Edits]
  /\ \A p \in ok \cap Analyses : missing[p] = {}
  /\ "LoopAnalysis" \in ok => missing["DomTree"] \subseteq {"pre-headers"}

KnownFresh(frame, missing) ==
  /\ HasResults(frame.pass, frame.pc) => missing[frame.pass] = {}
  /\ missing["DomTree"] \subseteq Missed(frame.pass, frame.pc)

IInv ==
  /\ StackInv(stack, in_use)
  /\ ValidFresh(valid, behind)
  /\ \A k \in 1 .. Len(stack) : KnownFresh(stack[k], behind)

LEMMA StackFacts ==
  ASSUME IInv, NEW n, n = Len(stack), stack # <<>>
  PROVE  /\ n \in Nat \ {0} /\ stack \in Seq(Frames)
         /\ Top = stack[n] /\ Top \in Frames
         /\ FrameOK(Top) /\ Len(Steps[Top.pass]) \in Nat \ {0}
         /\ KnownFresh(Top, behind)
         /\ in_use \in Nat /\ in_use <= 3
<1>1. /\ n \in Nat \ {0} /\ stack \in Seq(Frames)
      /\ Top = stack[n] /\ FrameOK(Top) /\ KnownFresh(Top, behind)
  BY DEF IInv, StackInv, Top
<1>2. Top \in Frames /\ Top.pass \in Passes /\ Top.markers \in Nat
      /\ Top.markers <= MaxMarkers(Top.pass)
  BY <1>1, HeldFacts DEF FrameOK, Frames
<1>3. PICK base \in [1 .. n + 1 -> Nat] : Counted(stack, in_use, base)
  BY DEF IInv, StackInv, Budget
<1>4. Counts(base, n, Top) /\ in_use = base[n + 1] /\ base[n] \in Nat
  BY <1>1, <1>3 DEF Counted
<1>5. in_use \in Nat /\ in_use <= 3
  <2>1. MaxMarkers(Top.pass) \in 1 .. 3
    BY HeldFacts
  <2> QED
    BY <1>2, <1>4, <2>1 DEF Counts
<1> QED
  BY <1>1, <1>2, <1>5, StepFacts

LEMMA NextStepFacts ==
  ASSUME IInv, NEW s, NextStep(s)
  PROVE  /\ stack # <<>> /\ Top.pc \in 1 .. Len(Steps[Top.pass])
         /\ Facts(Top.pass, Top.pc, s[1], s[2])
<1>1. stack # <<>> /\ Top.pc # Len(Steps[Top.pass]) + 1 /\ Steps[Top.pass][Top.pc] = s
  BY DEF NextStep, Ended
<1>2. Top.pass \in Passes /\ Top.pc \in 1 .. Len(Steps[Top.pass])
  BY <1>1, StackFacts DEF FrameOK, Frames
<1> QED
  BY <1>1, <1>2, StepFacts DEF FactsAt

LEMMA InitIInv == Init => IInv
<1> SUFFICES ASSUME Init PROVE IInv
  OBVIOUS
<1>1. stack = <<>> /\ Len(stack) = 0 /\ stack \in Seq(Frames) /\ in_use = 0
  BY DEF Init
<1>2. Budget(stack, in_use)
  <2>1. [k \in 1 .. 0 + 1 |-> 0] \in [1 .. 0 + 1 -> Nat]
    OBVIOUS
  <2>2. Counted(stack, in_use, [k \in 1 .. 0 + 1 |-> 0])
    BY <1>1 DEF Counted
  <2> QED
    BY <1>1, <2>1, <2>2 DEF Budget
<1>3. StackInv(stack, in_use)
  BY <1>1, <1>2 DEF StackInv
<1>4. ValidFresh(valid, behind)
  BY DEF Init, ValidFresh
<1> QED
  BY <1>1, <1>3, <1>4 DEF IInv

\* What is left to show of an action that takes the topmost pass one step on.
LEMMA StepKeepsIInv ==
  ASSUME IInv, stack # <<>>, Top.pc \in 1 .. Len(Steps[Top.pass]),
         NEW n, n = Len(stack), NEW t, t = stack',
         t \in Seq(Frames), Len(t) = n, \A k \in 1 .. n - 1 : t[k] = stack[k],
         Advance(Top, t[n]),
         in_use' = in_use - Top.markers + t[n].markers,
         ValidFresh(valid, behind)',
         \A k \in 1 .. n - 1 : KnownFresh(stack[k], behind'),
         KnownFresh(t[n], behind')
  PROVE  IInv'
<1>1. n \in Nat \ {0} /\ Top = stack[n]
  BY StackFacts
<1>2. StackInv(t, in_use')
  <2>1. StackInv(stack, in_use) /\ stack[n].pc <= Len(Steps[stack[n].pass])
    BY <1>1 DEF IInv
  <2>2. StackInv(t, in_use - stack[n].markers + t[n].markers)
    BY <1>1, <2>1, StackAdvances
  <2> QED
    BY <1>1, <2>2
<1>3. \A k \in 1 .. n : KnownFresh(t[k], behind')
  BY <1>1
<1> QED
  BY <1>2, <1>3 DEF IInv

LEMMA SeqUpdate ==
  ASSUME NEW S, NEW st \in Seq(S), NEW n \in Nat \ {0}, Len(st) = n, NEW e \in S
  PROVE  LET t == [st EXCEPT ![n] = e]
         IN  /\ t \in Seq(S) /\ Len(t) = n
             /\ \A k \in 1 .. n - 1 : t[k] = st[k]
             /\ t[n] = e
  OBVIOUS

LEMMA AdvancedFacts ==
  ASSUME NEW st, st \in Seq(Frames), NEW n \in Nat \ {0}, Len(st) = n
  PROVE  /\ Advanced(st) \in Seq(Frames) /\ Len(Advanced(st)) = n
         /\ \A k \in 1 .. n - 1 : Advanced(st)[k] = st[k]
         /\ Advanced(st)[n].pass = st[n].pass
         /\ Advanced(st)[n].pc = st[n].pc + 1
         /\ Advanced(st)[n].markers = st[n].markers
<1>1. st[n] \in Frames
  OBVIOUS
<1>2. Advanced(st) = [st EXCEPT ![n] = [st[n] EXCEPT !.pc = st[n].pc + 1]]
  BY DEF Advanced
<1>3. [st[n] EXCEPT !.pc = st[n].pc + 1] \in Frames
  BY <1>1 DEF Frames
<1> QED
  BY <1>1, <1>2, <1>3 DEF Frames

\* A step that changes neither the markers nor what is known.
LEMMA PlainStep ==
  ASSUME IInv, NEW s, NextStep(s), stack' = Advanced(stack),
         UNCHANGED <<valid, behind, in_use>>,
         s[1] \notin {"mark", "unmark", "compute"},
         s[1] \in {"need", "rerun"} =>
           \/ behind["DomTree"] \subseteq Missed(Top.pass, Top.pc + 1)
           \/ Missed(Top.pass, Top.pc) \subseteq Missed(Top.pass, Top.pc + 1)
  PROVE  IInv'
<1> DEFINE n == Len(stack)
<1>1. /\ stack # <<>> /\ Top.pc \in 1 .. Len(Steps[Top.pass])
      /\ Facts(Top.pass, Top.pc, s[1], s[2])
  BY NextStepFacts
<1>2. /\ n \in Nat \ {0} /\ stack \in Seq(Frames) /\ Top = stack[n] /\ FrameOK(Top)
      /\ KnownFresh(Top, behind) /\ in_use \in Nat /\ Top \in Frames
  BY <1>1, StackFacts
<1> HIDE DEF n
<1>3. /\ stack' \in Seq(Frames) /\ Len(stack') = n
      /\ \A k \in 1 .. n - 1 : stack'[k] = stack[k]
      /\ stack'[n].pass = Top.pass /\ stack'[n].pc = Top.pc + 1
      /\ stack'[n].markers = Top.markers
  BY <1>2, AdvancedFacts DEF n
<1>4. Held(Top.pass, Top.pc + 1) = Top.markers
  BY <1>1, <1>2 DEF Facts, FrameOK
<1>5. Advance(Top, stack'[n])
  BY <1>3, <1>4 DEF Advance
<1>6. KnownFresh(stack'[n], behind')
  <2>1. HasResults(Top.pass, Top.pc + 1) => HasResults(Top.pass, Top.pc)
    BY <1>1 DEF Facts
  <2>2. behind["DomTree"] \subseteq Missed(Top.pass, Top.pc + 1)
    BY <1>1, <1>2 DEF Facts, KnownFresh
  <2> QED
    BY <1>2, <1>3, <2>1, <2>2 DEF KnownFresh
<1>7. \A k \in 1 .. n - 1 : KnownFresh(stack[k], behind')
  BY <1>2 DEF IInv, n
<1>8. in_use' = in_use - Top.markers + stack'[n].markers
  BY <1>2, <1>3 DEF Frames
<1>9. ValidFresh(valid, behind)'
  BY DEF IInv
<1> DEFINE t == stack'
<1>10. n = Len(stack) /\ t = stack'
  BY DEF n
<1> HIDE DEF t
<1> QED
  BY <1>1, <1>3, <1>5, <1>6, <1>7, <1>8, <1>9, <1>10, StepKeepsIInv

LEMMA StartFresh ==
  ASSUME NEW p \in Passes, ValidFresh(valid, behind)
  PROVE  KnownFresh(Call(p), behind)
<1>1. ~HasResults(p, 1) /\ Missed(p, 1) = Edits
  BY StepFacts DEF EndFacts
<1>2. behind["DomTree"] \subseteq Edits
  BY DEF ValidFresh, Analyses
<1> QED
  BY <1>1, <1>2 DEF KnownFresh, Call

LEMMA RequestKeeps == ASSUME IInv, NEW p \in Passes, Request(p) PROVE IInv'
<1>1. stack = <<>> /\ Len(stack) = 0 /\ stack' = Append(stack, Call(p)) /\ in_use' = in_use
  BY DEF Request, Call
<1>2. StackInv(stack, in_use)
  BY DEF IInv
<1>3. StackInv(stack', in_use')
  <2> DEFINE t == stack'
  <2>1. t = Append(stack, Call(p))
    BY <1>1
  <2> HIDE DEF t
  <2>2. 0 \in Nat /\ ~(0 > 0)
    OBVIOUS
  <2>3. StackInv(t, in_use)
    BY <1>1, <1>2, <2>1, <2>2, StackCalls
  <2> QED
    BY <1>1, <2>3 DEF t
<1>4. Len(stack') = 1 /\ stack'[1] = Call(p)
  BY DEF Request
<1>5. KnownFresh(Call(p), behind)
  BY StartFresh DEF IInv
<1> QED
  BY <1>3, <1>4, <1>5 DEF IInv, Request

\* A request that waits at step s.
LEMMA NeedFacts ==
  ASSUME NEW p \in Passes, NEW s \in {Need(p), Rerun(p)}
  PROVE  s[1] \in {"need", "rerun"} /\ s[2] = p
  BY DEF Need, Rerun

\* What the results are worth to the pass that asked for them.
LEMMA ResultsServe ==
  ASSUME NEW p \in Passes, NEW f \in Frames, NEW s, s[1] \in {"need", "rerun"}, s[2] = p,
         Facts(f.pass, f.pc, s[1], s[2]),
         p = "DomTree" => behind["DomTree"] = {},
         p = "LoopAnalysis" => behind["DomTree"] \subseteq {"pre-headers"}
  PROVE  \/ behind["DomTree"] \subseteq Missed(f.pass, f.pc + 1)
         \/ Missed(f.pass, f.pc) \subseteq Missed(f.pass, f.pc + 1)
  BY DEF Facts

LEMMA ObtainKeeps == ASSUME IInv, NEW p \in Passes, Obtain(p) PROVE IInv'
<1>1. PICK s \in {Need(p), Rerun(p)} : NextStep(s)
  BY DEF Obtain
<1>2. s[1] \in {"need", "rerun"} /\ s[2] = p
  BY NeedFacts
<1>3. Facts(Top.pass, Top.pc, s[1], s[2]) /\ Top \in Frames
  BY <1>1, NextStepFacts, StackFacts
<1>4. /\ p = "DomTree" => behind["DomTree"] = {}
      /\ p = "LoopAnalysis" => behind["DomTree"] \subseteq {"pre-headers"}
  BY DEF Obtain, IInv, ValidFresh, Analyses
<1>5. \/ behind["DomTree"] \subseteq Missed(Top.pass, Top.pc + 1)
      \/ Missed(Top.pass, Top.pc) \subseteq Missed(Top.pass, Top.pc + 1)
  BY <1>2, <1>3, <1>4, ResultsServe
<1> QED
  BY <1>1, <1>2, <1>5, PlainStep DEF Obtain

LEMMA RunKeeps == ASSUME IInv, NEW p \in Passes, Run(p) PROVE IInv'
<1> DEFINE n == Len(stack)
<1>1. PICK s \in {Need(p), Rerun(p)} : NextStep(s)
  BY DEF Run
<1>2. stack # <<>> /\ Top.pc \in 1 .. Len(Steps[Top.pass]) /\ Steps[Top.pass][Top.pc] = s
  BY <1>1, NextStepFacts DEF NextStep
<1>3. n \in Nat \ {0} /\ stack \in Seq(Frames) /\ Top = stack[n]
  BY <1>2, StackFacts
<1>4. Waits(stack[n], p)
  BY <1>2, <1>3 DEF Waits
<1> HIDE DEF n
<1>5. StackInv(stack, in_use)'
  BY <1>3, <1>4, StackCalls DEF IInv, Run, n
<1>6. Call(p) \in Frames
  BY DEF Call, Frames
<1>7. Len(stack') = n + 1 /\ stack'[n + 1] = Call(p) /\ \A k \in 1 .. n : stack'[k] = stack[k]
  BY <1>3, <1>6 DEF Run, n
<1>8. KnownFresh(Call(p), behind)
  BY StartFresh DEF IInv
<1>9. ASSUME NEW k \in 1 .. n + 1 PROVE KnownFresh(stack'[k], behind)
  <2>1. CASE k = n + 1
    BY <1>7, <1>8, <2>1
  <2>2. CASE k # n + 1
    BY <1>3, <1>7, <2>2 DEF IInv, n
  <2> QED
    BY <2>1, <2>2
<1> QED
  BY <1>5, <1>7, <1>9 DEF IInv, Run

LEMMA UseDominatorsKeeps == ASSUME IInv, UseDominators PROVE IInv'
  BY PlainStep DEF UseDominators, Dominators

\* The results of a pass that returns describe the graph.
LEMMA ReturnedFresh ==
  ASSUME IInv, stack # <<>>, Ended(Top)
  PROVE  /\ Top.pass \in Analyses => behind[Top.pass] = {}
         /\ Top.pass = "LoopAnalysis" => behind["DomTree"] \subseteq {"pre-headers"}
<1>1. KnownFresh(Top, behind) /\ Top.pass \in Passes
  BY StackFacts DEF Frames
<1>2. EndFacts(Top.pass, Top.pc)
  BY <1>1, StepFacts DEF Ended
<1> QED
  BY <1>1, <1>2 DEF EndFacts, KnownFresh

LEMMA ReturnKeeps == ASSUME IInv, Return PROVE IInv'
<1> DEFINE n == Len(stack)
           below == Front(stack)
<1>1. /\ n \in Nat \ {0} /\ stack \in Seq(Frames) /\ Top = stack[n] /\ FrameOK(Top)
      /\ in_use \in Nat /\ Top \in Frames
  BY StackFacts DEF Return
<1>2. ValidFresh(valid, behind)' /\ in_use' = in_use - Top.markers
  BY DEF IInv, Return
<1>3. CASE n = 1
  <2>1. PICK base \in [1 .. n + 1 -> Nat] : Counted(stack, in_use, base)
    BY DEF IInv, StackInv, Budget
  <2>2. base[1] = 0 /\ base[2] = base[1] + Top.markers /\ in_use = base[2]
    BY <1>1, <1>3, <2>1 DEF Counted, Counts
  <2>3. in_use' = 0
    BY <1>1, <1>2, <2>2 DEF Frames
  <2>4. stack' = <<>> /\ Len(stack') = 0 /\ stack' \in Seq(Frames)
    BY <1>3 DEF Return
  <2>5. Budget(stack', in_use')
    <3>1. [k \in 1 .. 0 + 1 |-> 0] \in [1 .. 0 + 1 -> Nat]
      OBVIOUS
    <3>2. Counted(stack', in_use', [k \in 1 .. 0 + 1 |-> 0])
      BY <2>3, <2>4 DEF Counted
    <3> QED
      BY <2>4, <3>1, <3>2 DEF Budget
  <2>6. StackInv(stack', in_use')
    BY <2>4, <2>5 DEF StackInv
  <2> QED
    BY <1>2, <2>4, <2>6 DEF IInv
<1>4. CASE n > 1
  <2>1. PICK i \in Nat \ {0} : i = n - 1
    BY <1>1, <1>4
  <2> DEFINE f == below[i]
             left == in_use - Top.markers
             t == stack'
  <2>2. /\ StackInv(below, left) /\ Len(below) = i
        /\ \A k \in 1 .. i : below[k] = stack[k]
        /\ Waits(f, Top.pass)
    BY <1>1, <1>4, <2>1, StackReturns DEF IInv
  <2>3. t = Advanced(below)
    BY <1>1, <1>4 DEF Return
  <2>4. /\ FrameOK(f) /\ f \in Frames /\ KnownFresh(f, behind) /\ below \in Seq(Frames)
        /\ Top.pass \in Passes
    <3>1. FrameOK(f) /\ below \in Seq(Frames)
      BY <2>1, <2>2 DEF StackInv
    <3>2. f = stack[i] /\ i \in 1 .. n
      BY <1>1, <1>4, <2>1, <2>2
    <3>3. KnownFresh(stack[i], behind)
      BY <3>2 DEF IInv
    <3> QED
      BY <1>1, <3>1, <3>2, <3>3 DEF FrameOK, Frames
  <2> HIDE DEF n, below, t
  <2>5. /\ t \in Seq(Frames) /\ Len(t) = i
        /\ \A k \in 1 .. i - 1 : t[k] = below[k]
        /\ t[i].pass = f.pass /\ t[i].pc = f.pc + 1 /\ t[i].markers = f.markers
    BY <2>1, <2>2, <2>3, <2>4, AdvancedFacts
  <2> DEFINE s == Steps[f.pass][f.pc]
  <2>6. s[1] \in {"need", "rerun"} /\ s[2] = Top.pass /\ Facts(f.pass, f.pc, s[1], s[2])
    <3>1. s[1] \in {"need", "rerun"} /\ s[2] = Top.pass
      BY <2>2, <2>4, NeedFacts DEF Waits
    <3>2. FactsAt(f.pass, f.pc)
      BY <2>2, <2>4, StepFacts DEF Waits, FrameOK, Frames
    <3> QED
      BY <3>1, <3>2 DEF FactsAt
  <2> HIDE DEF s, f
  <2>7. Advance(f, t[i])
    BY <2>4, <2>5, <2>6 DEF Advance, Facts, FrameOK
  <2>8. StackInv(t, left)
    <3>1. f.pc <= Len(Steps[f.pass])
      BY <2>2 DEF Waits, f
    <3>2. StackInv(t, left - f.markers + t[i].markers)
      BY <2>1, <2>2, <2>5, <2>7, <3>1, StackAdvances DEF f
    <3>3. left - f.markers + t[i].markers = left
      BY <1>1, <2>4, <2>5 DEF Frames
    <3> QED
      BY <3>2, <3>3
  <2>9. /\ Top.pass = "DomTree" => behind["DomTree"] = {}
        /\ Top.pass = "LoopAnalysis" => behind["DomTree"] \subseteq {"pre-headers"}
    BY ReturnedFresh DEF Return, Analyses
  <2>10. KnownFresh(t[i], behind)
    <3>1. \/ behind["DomTree"] \subseteq Missed(f.pass, f.pc + 1)
          \/ Missed(f.pass, f.pc) \subseteq Missed(f.pass, f.pc + 1)
      BY <2>6, <2>9 DEF Facts
    <3>2. HasResults(f.pass, f.pc + 1) => HasResults(f.pass, f.pc)
      BY <2>6 DEF Facts
    <3> QED
      BY <2>4, <2>5, <3>1, <3>2 DEF KnownFresh
  <2>11. ASSUME NEW k \in 1 .. i PROVE KnownFresh(t[k], behind)
    <3>1. CASE k = i
      BY <2>10, <3>1
    <3>2. CASE k # i
      <4>1. t[k] = stack[k] /\ k \in 1 .. n
        BY <1>1, <2>1, <2>2, <2>5, <3>2
      <4> QED
        BY <4>1 DEF IInv, n
    <3> QED
      BY <3>1, <3>2
  <2>12. behind' = behind /\ in_use' = left
    BY <1>2 DEF Return
  <2>13. StackInv(stack', in_use')
    BY <2>8, <2>12 DEF t
  <2>14. \A k \in 1 .. Len(stack') : KnownFresh(stack'[k], behind')
    BY <2>5, <2>11, <2>12 DEF t
  <2> QED
    BY <1>2, <2>13, <2>14 DEF IInv
<1>5. n = 1 \/ n > 1
  <2>1. n \in Nat \ {0}
    BY <1>1
  <2> HIDE DEF n
  <2> QED
    BY <2>1
<1> QED
  BY <1>3, <1>4, <1>5

\* A step that changes the markers of the topmost frame, or what is known.
LEMMA OtherStep ==
  ASSUME IInv, NEW s, NextStep(s), NEW m \in Int,
         stack' = [Advanced(stack) EXCEPT ![Len(stack)].markers = m],
         m = Held(Top.pass, Top.pc + 1),
         in_use' = in_use - Top.markers + m,
         ValidFresh(valid, behind)',
         \A k \in 1 .. Len(stack) - 1 : KnownFresh(stack[k], behind'),
         HasResults(Top.pass, Top.pc + 1) => behind'[Top.pass] = {},
         behind'["DomTree"] \subseteq Missed(Top.pass, Top.pc + 1)
  PROVE  IInv'
<1> DEFINE n == Len(stack)
           a == Advanced(stack)
<1>1. stack # <<>> /\ Top.pc \in 1 .. Len(Steps[Top.pass])
  BY NextStepFacts
<1>2. n \in Nat \ {0} /\ stack \in Seq(Frames) /\ Top = stack[n] /\ Top \in Frames
  BY <1>1, StackFacts
<1> HIDE DEF n
<1>3. /\ a \in Seq(Frames) /\ Len(a) = n
      /\ \A k \in 1 .. n - 1 : a[k] = stack[k]
      /\ a[n].pass = Top.pass /\ a[n].pc = Top.pc + 1
  BY <1>2, AdvancedFacts DEF n
<1>4. stack' = [a EXCEPT ![n] = [a[n] EXCEPT !.markers = m]]
  BY DEF n
<1> HIDE DEF a
<1>0. m \in Nat
  BY HeldFacts
<1>5. m \in Nat /\ a[n] \in Frames
  BY <1>2, <1>3, HeldFacts
<1>6. [a[n] EXCEPT !.markers = m] \in Frames
  BY <1>5 DEF Frames
<1> DEFINE e == [a[n] EXCEPT !.markers = m]
<1>7. /\ stack' \in Seq(Frames) /\ Len(stack') = n
      /\ \A k \in 1 .. n - 1 : stack'[k] = stack[k]
      /\ stack'[n] = e
  <2>1. stack' = [a EXCEPT ![n] = e] /\ e \in Frames
    BY <1>4, <1>6
  <2> HIDE DEF e
  <2>2. a \in Seq(Frames) /\ n \in Nat \ {0} /\ Len(a) = n
    BY <1>2, <1>3
  <2>3. LET t == [a EXCEPT ![n] = e]
        IN  /\ t \in Seq(Frames) /\ Len(t) = n
            /\ \A k \in 1 .. n - 1 : t[k] = a[k]
            /\ t[n] = e
    BY <2>1, <2>2, SeqUpdate
  <2> QED
    BY <1>3, <2>1, <2>3
<1>8. stack'[n].pass = Top.pass /\ stack'[n].pc = Top.pc + 1 /\ stack'[n].markers = m
  <2>1. e.pass = a[n].pass /\ e.pc = a[n].pc /\ e.markers = m
    BY <1>5 DEF Frames
  <2> HIDE DEF e
  <2> QED
    BY <1>3, <1>7, <2>1
<1>9. Advance(Top, stack'[n])
  BY <1>8 DEF Advance
<1>10. KnownFresh(stack'[n], behind')
  BY <1>8 DEF KnownFresh
<1> DEFINE t == stack'
<1>11. n = Len(stack) /\ t = stack'
  BY DEF n
<1>12. \A k \in 1 .. n - 1 : KnownFresh(stack[k], behind')
  BY DEF n
<1> HIDE DEF t
<1> QED
  BY <1>1, <1>7, <1>8, <1>9, <1>10, <1>11, <1>12, StepKeepsIInv

LEMMA TakeMarkersKeeps ==
  ASSUME IInv, NEW c \in 1 .. NumConcurrentMarkers, TakeMarkers(c) PROVE IInv'
<1> DEFINE s == Mark(c)
<1>1. NextStep(s) /\ s[1] = "mark" /\ s[2] = c /\ c \in Nat
  BY PassesAssumption DEF TakeMarkers, Mark
<1> HIDE DEF s
<1>2. /\ stack # <<>> /\ Facts(Top.pass, Top.pc, s[1], s[2])
      /\ Top = stack[Len(stack)] /\ Len(stack) \in Nat \ {0} /\ stack \in Seq(Frames)
      /\ FrameOK(Top) /\ KnownFresh(Top, behind) /\ Top \in Frames /\ in_use \in Nat
  BY <1>1, NextStepFacts, StackFacts
<1> DEFINE m == Top.markers + c
<1>3. m = Held(Top.pass, Top.pc + 1) /\ m \in Int
  BY <1>1, <1>2 DEF Facts, FrameOK, Frames
<1>4. stack' = [Advanced(stack) EXCEPT ![Len(stack)].markers = m]
  <2>1. Advanced(stack)[Len(stack)].markers = Top.markers
    BY <1>2, AdvancedFacts
  <2> QED
    BY <2>1 DEF TakeMarkers
<1>5. in_use' = in_use - Top.markers + m
  BY <1>1, <1>2 DEF TakeMarkers, Frames
<1>6. /\ HasResults(Top.pass, Top.pc + 1) => behind[Top.pass] = {}
      /\ behind["DomTree"] \subseteq Missed(Top.pass, Top.pc + 1)
  BY <1>1, <1>2 DEF Facts, KnownFresh
<1>7. /\ valid' = valid /\ behind' = behind /\ ValidFresh(valid, behind)
      /\ \A k \in 1 .. Len(stack) - 1 : KnownFresh(stack[k], behind)
  BY <1>2 DEF TakeMarkers, IInv
<1> HIDE DEF m
<1> QED
  BY <1>1, <1>3, <1>4, <1>5, <1>6, <1>7, OtherStep

LEMMA ReleaseMarkersKeeps ==
  ASSUME IInv, NEW c \in 1 .. NumConcurrentMarkers, ReleaseMarkers(c) PROVE IInv'
<1> DEFINE s == Unmark(c)
<1>1. NextStep(s) /\ s[1] = "unmark" /\ s[2] = c /\ c \in Nat
  BY PassesAssumption DEF ReleaseMarkers, Unmark
<1> HIDE DEF s
<1>2. /\ stack # <<>> /\ Facts(Top.pass, Top.pc, s[1], s[2])
      /\ Top = stack[Len(stack)] /\ Len(stack) \in Nat \ {0} /\ stack \in Seq(Frames)
      /\ FrameOK(Top) /\ KnownFresh(Top, behind) /\ Top \in Frames /\ in_use \in Nat
  BY <1>1, NextStepFacts, StackFacts
<1> DEFINE m == Top.markers - c
<1>3. m = Held(Top.pass, Top.pc + 1) /\ m \in Int
  BY <1>1, <1>2 DEF Facts, FrameOK, Frames
<1>4. stack' = [Advanced(stack) EXCEPT ![Len(stack)].markers = m]
  <2>1. Advanced(stack)[Len(stack)].markers = Top.markers
    BY <1>2, AdvancedFacts
  <2> QED
    BY <2>1 DEF ReleaseMarkers
<1>5. in_use' = in_use - Top.markers + m
  BY <1>1, <1>2 DEF ReleaseMarkers, Frames
<1>6. /\ HasResults(Top.pass, Top.pc + 1) => behind[Top.pass] = {}
      /\ behind["DomTree"] \subseteq Missed(Top.pass, Top.pc + 1)
  BY <1>1, <1>2 DEF Facts, KnownFresh
<1>7. /\ valid' = valid /\ behind' = behind /\ ValidFresh(valid, behind)
      /\ \A k \in 1 .. Len(stack) - 1 : KnownFresh(stack[k], behind)
  BY <1>2 DEF ReleaseMarkers, IInv
<1> HIDE DEF m
<1> QED
  BY <1>1, <1>3, <1>4, <1>5, <1>6, <1>7, OtherStep

\* A step that leaves the markers as they are is one that sets them to what they were.
LEMMA SameMarkers ==
  ASSUME IInv, stack # <<>>
  PROVE  Advanced(stack) = [Advanced(stack) EXCEPT ![Len(stack)].markers = Top.markers]
<1> DEFINE a == Advanced(stack)
           n == Len(stack)
<1>1. n \in Nat \ {0} /\ stack \in Seq(Frames) /\ Top = stack[n]
  BY StackFacts
<1>2. a \in Seq(Frames) /\ Len(a) = n /\ a[n].markers = Top.markers
  BY <1>1, AdvancedFacts
<1> HIDE DEF a, n
<1>3. a[n] \in Frames
  BY <1>1, <1>2
<1> DEFINE e == [a[n] EXCEPT !.markers = Top.markers]
<1>4. e = a[n]
  BY <1>2, <1>3 DEF Frames
<1> HIDE DEF e
<1>5. a = [a EXCEPT ![n] = e]
  BY <1>1, <1>2, <1>4
<1> QED
  BY <1>5 DEF a, n, e

\* An edit makes every analysis invalid, and all that is below the editing pass knows
\* nothing that it could lose.
LEMMA EditEdgesFresh ==
  ASSUME IInv, NEW kind \in Edits, EditEdges(kind)
  PROVE  /\ ValidFresh(valid, behind)'
         /\ behind'["DomTree"] = behind["DomTree"] \cup {kind}
         /\ \A k \in 1 .. Len(stack) :
              ~Knows(stack[k].pass, stack[k].pc) => KnownFresh(stack[k], behind')
<1>1. /\ valid \subseteq Passes /\ behind \in [Analyses -> SUBSET Edits]
      /\ "DomTree" \in Analyses
  BY DEF IInv, ValidFresh, Analyses
<1>2. /\ behind' = [p \in Analyses |-> behind[p] \cup {kind}]
      /\ valid' = StillValid
  BY DEF EditEdges
<1>3. behind' \in [Analyses -> SUBSET Edits] /\ behind'["DomTree"] = behind["DomTree"] \cup {kind}
  BY <1>1, <1>2
<1>4. valid' \subseteq Passes /\ valid' \cap Analyses = {}
  BY <1>1, <1>2 DEF StillValid, Analyses
<1>5. ValidFresh(valid, behind)'
  BY <1>3, <1>4 DEF ValidFresh, Analyses
<1>6. behind'["DomTree"] \subseteq Edits
  BY <1>1, <1>3
<1> QED
  BY <1>3, <1>5, <1>6 DEF Knows, KnownFresh

\* A step that leaves the markers as they are.
LEMMA OtherPlainStep ==
  ASSUME IInv, NEW s, NextStep(s), s[1] \notin {"mark", "unmark"},
         stack' = Advanced(stack), in_use' = in_use,
         ValidFresh(valid, behind)',
         \A k \in 1 .. Len(stack) - 1 : KnownFresh(stack[k], behind'),
         HasResults(Top.pass, Top.pc + 1) => behind'[Top.pass] = {},
         behind'["DomTree"] \subseteq Missed(Top.pass, Top.pc + 1)
  PROVE  IInv'
<1> DEFINE m == Top.markers
<1>1. /\ stack # <<>> /\ Facts(Top.pass, Top.pc, s[1], s[2])
      /\ FrameOK(Top) /\ Top \in Frames /\ in_use \in Nat
  BY NextStepFacts, StackFacts
<1>2. m = Held(Top.pass, Top.pc + 1) /\ m \in Int
  BY <1>1 DEF Facts, FrameOK, Frames
<1>3. stack' = [Advanced(stack) EXCEPT ![Len(stack)].markers = m]
  BY <1>1, SameMarkers
<1>4. in_use' = in_use - Top.markers + m
  BY <1>1 DEF Frames
<1> HIDE DEF m
<1> QED
  BY <1>2, <1>3, <1>4, OtherStep

LEMMA MayEditKeeps == ASSUME IInv, NEW kind \in Edits, MayEdit(kind) PROVE IInv'
<1> DEFINE s == Edit(kind)
<1>1. NextStep(s) /\ s[1] = "edit" /\ s[2] = kind
  BY DEF MayEdit, Edit
<1> HIDE DEF s
<1>2. /\ stack # <<>> /\ Facts(Top.pass, Top.pc, s[1], s[2])
      /\ Top = stack[Len(stack)] /\ Len(stack) \in Nat \ {0}
      /\ KnownFresh(Top, behind)
  BY <1>1, NextStepFacts, StackFacts
<1>3. stack' = Advanced(stack) /\ in_use' = in_use
  BY DEF MayEdit
<1>4. CASE UNCHANGED <<valid, behind>>
  BY <1>1, <1>3, <1>4, PlainStep
<1>5. CASE EditEdges(kind)
  <2>1. /\ Top.pass \in Editing
        /\ ~HasResults(Top.pass, Top.pc + 1)
        /\ Missed(Top.pass, Top.pc) \cup {kind} \subseteq Missed(Top.pass, Top.pc + 1)
    BY <1>1, <1>2 DEF Facts
  <2>2. /\ ValidFresh(valid, behind)'
        /\ behind'["DomTree"] = behind["DomTree"] \cup {kind}
        /\ \A k \in 1 .. Len(stack) :
             ~Knows(stack[k].pass, stack[k].pc) => KnownFresh(stack[k], behind')
    BY <1>5, EditEdgesFresh
  <2>3. ASSUME NEW k \in 1 .. Len(stack) - 1 PROVE KnownFresh(stack[k], behind')
    <3>1. k \in 1 .. Len(stack) /\ k < Len(stack)
      BY <1>2
    <3>2. Quiet(stack[k], Top.pass)
      BY <1>2, <3>1 DEF IInv, StackInv
    <3> QED
      BY <2>1, <2>2, <3>1, <3>2 DEF Quiet
  <2>4. behind'["DomTree"] \subseteq Missed(Top.pass, Top.pc + 1)
    BY <1>2, <2>1, <2>2 DEF KnownFresh
  <2> QED
    BY <1>1, <1>3, <2>1, <2>2, <2>3, <2>4, OtherPlainStep
<1> QED
  BY <1>4, <1>5 DEF MayEdit

LEMMA EditFromOutsideKeeps == ASSUME IInv, EditFromOutside PROVE IInv'
<1>1. stack = <<>> /\ EditEdges("others") /\ UNCHANGED <<stack, in_use>> /\ "others" \in Edits
  BY DEF EditFromOutside, Edits
<1>2. ValidFresh(valid, behind)'
  BY <1>1, EditEdgesFresh
<1>3. Len(stack') = 0 /\ StackInv(stack', in_use')
  BY <1>1 DEF IInv
<1> QED
  BY <1>2, <1>3 DEF IInv

LEMMA ComputeResultsKeeps == ASSUME IInv, ComputeResults PROVE IInv'
<1> DEFINE s == Compute
<1>1. NextStep(s) /\ s[1] = "compute"
  BY DEF ComputeResults, Compute
<1> HIDE DEF s
<1>2. /\ stack # <<>> /\ Facts(Top.pass, Top.pc, s[1], s[2])
      /\ Top = stack[Len(stack)] /\ Len(stack) \in Nat \ {0}
      /\ KnownFresh(Top, behind)
  BY <1>1, NextStepFacts, StackFacts
<1>3. stack' = Advanced(stack) /\ in_use' = in_use /\ valid' = valid
  BY DEF ComputeResults
<1>4. /\ Top.pass \in Analyses /\ "DomTree" \in Analyses
      /\ behind \in [Analyses -> SUBSET Edits]
      /\ behind' = [behind EXCEPT ![Top.pass] = {}]
  BY <1>1, <1>2 DEF Facts, Analyses, IInv, ValidFresh, ComputeResults
<1>5. /\ behind' \in [Analyses -> SUBSET Edits]
      /\ behind'[Top.pass] = {}
      /\ \A p \in Analyses : behind'[p] \subseteq behind[p]
  BY <1>4
<1>6. ValidFresh(valid, behind)'
  BY <1>3, <1>4, <1>5 DEF IInv, ValidFresh
<1>7. ASSUME NEW k \in 1 .. Len(stack) - 1 PROVE KnownFresh(stack[k], behind')
  <2>1. KnownFresh(stack[k], behind)
    BY <1>2 DEF IInv
  <2>2. HasResults(stack[k].pass, stack[k].pc) => stack[k].pass \in Analyses
    BY DEF HasResults, Analyses
  <2> QED
    BY <1>4, <1>5, <2>1, <2>2 DEF KnownFresh
<1>8. behind'["DomTree"] \subseteq Missed(Top.pass, Top.pc + 1)
  BY <1>1, <1>2, <1>4, <1>5 DEF Facts, KnownFresh
<1> QED
  BY <1>1, <1>3, <1>5, <1>6, <1>7, <1>8, OtherPlainStep

LEMMA SetValidKeeps == ASSUME IInv, SetValid PROVE IInv'
<1> DEFINE s == Validate
<1>1. NextStep(s) /\ s[1] = "validate"
  BY DEF SetValid, Validate
<1> HIDE DEF s
<1>2. /\ stack # <<>> /\ Facts(Top.pass, Top.pc, s[1], s[2])
      /\ Top = stack[Len(stack)] /\ Len(stack) \in Nat \ {0}
      /\ KnownFresh(Top, behind)
  BY <1>1, NextStepFacts, StackFacts
<1>3. /\ stack' = Advanced(stack) /\ in_use' = in_use /\ behind' = behind
      /\ valid' = valid \cup {Top.pass}
  BY DEF SetValid
<1>4. /\ Top.pass \in Analyses
      /\ HasResults(Top.pass, Top.pc)
      /\ Top.pass = "LoopAnalysis" => Missed(Top.pass, Top.pc) = {"pre-headers"}
  BY <1>1, <1>2 DEF Facts
<1>5. behind[Top.pass] = {} /\ Top.pass \in Passes
  BY <1>2, <1>4 DEF KnownFresh, Passes
<1>6. Top.pass = "LoopAnalysis" => behind["DomTree"] \subseteq {"pre-headers"}
  BY <1>2, <1>4 DEF KnownFresh
<1>7. ValidFresh(valid, behind)'
  BY <1>3, <1>5, <1>6 DEF IInv, ValidFresh
<1>8. \A k \in 1 .. Len(stack) - 1 : KnownFresh(stack[k], behind')
  BY <1>2, <1>3 DEF IInv
<1>9. behind'["DomTree"] \subseteq Missed(Top.pass, Top.pc + 1)
  BY <1>1, <1>2, <1>3 DEF Facts, KnownFresh
<1> QED
  BY <1>1, <1>3, <1>5, <1>7, <1>8, <1>9, OtherPlainStep

-----------------------------------------------------------------------------
LEMMA NextIInv == IInv /\ [Next]_vars => IInv'
<1> SUFFICES ASSUME IInv, [Next]_vars PROVE IInv'
  OBVIOUS
<1>1. CASE \E p \in Passes : Request(p) \/ Obtain(p) \/ Run(p)
  BY <1>1, RequestKeeps, ObtainKeeps, RunKeeps
<1>2. CASE Return
  BY <1>2, ReturnKeeps
<1>3. CASE \E c \in 1 .. NumConcurrentMarkers : TakeMarkers(c) \/ ReleaseMarkers(c)
  BY <1>3, TakeMarkersKeeps, ReleaseMarkersKeeps
<1>4. CASE \E kind \in Edits : MayEdit(kind)
  BY <1>4, MayEditKeeps
<1>5. CASE EditFromOutside
  BY <1>5, EditFromOutsideKeeps
<1>6. CASE ComputeResults \/ SetValid \/ UseDominators
  BY <1>6, ComputeResultsKeeps, SetValidKeeps, UseDominatorsKeeps
<1>7. CASE UNCHANGED vars
  BY <1>7 DEF IInv, vars
<1> QED
  BY <1>1, <1>2, <1>3, <1>4, <1>5, <1>6, <1>7 DEF Next

\* The invariant: what the frames of the stack hold and wait for, and what the valid
\* passes and the frames may rely on.
THEOREM SpecIInv == Spec => []IInv
  BY InitIInv, NextIInv, PTL DEF Spec

\* Three slots are enough for whatever passes are requested and however they nest:
\* InitMarker never runs out of them, whatever MarkerFactory is configured with, if
\* it is not less.
THEOREM SlotsSuffice == Spec => []MarkersSuffice
<1>1. IInv => MarkersSuffice
  <2> SUFFICES ASSUME IInv PROVE in_use <= NumConcurrentMarkers
    BY DEF MarkersSuffice
  <2>1. CASE stack # <<>>
    <3>1. in_use \in Nat /\ in_use <= 3
      BY <2>1, StackFacts
    <3> QED
      BY <3>1, PassesAssumption
  <2>2. CASE stack = <<>>
    <3>1. Len(stack) = 0
      BY <2>2
    <3>2. PICK base \in [1 .. Len(stack) + 1 -> Nat] : Counted(stack, in_use, base)
      BY DEF IInv, StackInv, Budget
    <3> QED
      BY <3>1, <3>2, PassesAssumption DEF Counted
  <2> QED
    BY <2>1, <2>2
<1> QED
  BY <1>1, SpecIInv, PTL

\* Neither GetValidPass nor Run hands out results that an edit has overtaken, also if
\* the pass that was run for them edited the graph.
THEOREM HandsOutFresh == Spec => HandedOutFresh
<1>1. ASSUME IInv, NEW p \in Analyses, Obtain(p) \/ (Return /\ Top.pass = p)
      PROVE  behind[p] = {}
  <2>1. CASE Obtain(p)
    BY <1>1, <2>1 DEF Obtain, IInv, ValidFresh
  <2>2. CASE Return /\ Top.pass = p
    BY <1>1, <2>2, ReturnedFresh DEF Return
  <2> QED
    BY <1>1, <2>1, <2>2
<1>2. IInv => [\A p \in Analyses :
                 Obtain(p) \/ (Return /\ Top.pass = p) => behind[p] = {}]_vars
  BY <1>1
<1> QED
  BY <1>2, SpecIInv, PTL DEF HandedOutFresh

\* Wherever a pass asks Dominates or GetImmDominator, the tree was computed after all
\* edits but the pre-headers of the loop analysis.
THEOREM DominatorsMissOnlyPreHeaders == Spec => []DominatorsMissPreHeadersOnly
<1>1. IInv => DominatorsMissPreHeadersOnly
  <2> SUFFICES ASSUME IInv, NextStep(Dominators)
               PROVE  behind["DomTree"] \subseteq {"pre-headers"}
    BY DEF DominatorsMissPreHeadersOnly
  <2>1. stack # <<>> /\ Facts(Top.pass, Top.pc, Dominators[1], Dominators[2])
    BY NextStepFacts
  <2>2. Missed(Top.pass, Top.pc) \subseteq {"pre-headers"}
    BY <2>1 DEF Facts, Dominators
  <2> QED
    BY <2>1, <2>2, StackFacts DEF KnownFresh
<1> QED
  BY <1>1, SpecIInv, PTL
=============================================================================
