----------------------------- MODULE CheckElim -----------------------------
(***************************************************************************)
(* pass/check_elimination.cpp.  The visitor comes to the checks in the     *)
(* order of RPO and deletes those that an equal one, the visited, makes    *)
(* superfluous, wherever they are, while it walks the lists; checks of     *)
(* constants that cannot fail wait in redundant_checks_ until the end.     *)
(***************************************************************************)
EXTENDS Peepholes

VARIABLE redundant_checks_

\* What check elimination leaves alone.
otherVars == <<plan, prog, graph, given, inliningVars>>

-----------------------------------------------------------------------------
DeleteCheck(t, check) == UnlinkInst(LeaveInputs(t, check), check)

\* AreSameOrSameVal: one instruction, or two constants of one value.
AreSameOrSameVal(t, i, j) ==
  i = j \/ (t.op[i] = "CONST" /\ t.op[j] = "CONST" /\ t.val[i] = t.val[j])

\* Mutated: the index is not compared.
EqualArrays(t, i, j) == t.inputs[i][1] = t.inputs[j][1]

\* DefaultEquivalenceCheck, of checks with the same first input.
Equivalent(t, i, j) ==
  \A k \in 2 .. Len(t.inputs[i]) : AreSameOrSameVal(t, t.inputs[i][k], t.inputs[j][k])

\* In one block the order is not asked for: what the visitor finds there has
\* not been visited before.
Covers(g, t, i, j) == t.block[i] = t.block[j] \/ BlockDominates(g, t.block[i], t.block[j])

\* DeleteDominatedChecks: of the users of the first input, a copy of the list as it
\* is when the loop begins, those it deletes.
Dominated(i) ==
  SelectSeq(table.users[table.inputs[i][1]],
            LAMBDA u : /\ table.op[u] = table.op[i]
                       /\ u # i
                       /\ Covers(graph, table, i, u)
                       /\ Equivalent(table, u, i))

\* CheckRedundancy: a constant that is not zero. CHECK_SIZE has none.
IsRedundant(i) ==
  LET v == table.inputs[i][1] IN
  /\ table.op[i] \in {"CHECK_ZERO", "CHECK_NULL"}
  /\ table.op[v] = "CONST"
  /\ table.val[v] # 0

-----------------------------------------------------------------------------
StartVisit ==
  /\ BeginPass("CheckElimination", "visit",
               SelectSeq(InOrderOf(table, Preorder(graph)), LAMBDA i : table.op[i] \in CHECK))
  /\ UNCHANGED <<inliningVars, redundant_checks_>>

\* VisitCHECK_ZERO, VisitCHECK_NULL and VisitCHECK_SIZE. What was deleted is in no
\* list any more when the walk goes on.
VisitCheck ==
  /\ phase = "visit"
  /\ insts # <<>>
  /\ LET i == Head(insts) IN
       /\ table' = FoldLeft(DeleteCheck, table, Dominated(i))
       /\ insts' = SelectSeq(Tail(insts), LAMBDA j : IsLinked(table', j))
       /\ redundant_checks_' =
            IF IsRedundant(i) THEN Append(redundant_checks_, i) ELSE redundant_checks_
  /\ UNCHANGED <<otherVars, phase, passes>>

VisitDone ==
  /\ phase = "visit"
  /\ insts = <<>>
  /\ phase' = "redundant"
  /\ UNCHANGED <<otherVars, table, passes, insts, redundant_checks_>>

\* One turn of the loop of RemoveRedundantChecks: a check that is deleted already
\* is freed memory.
RemoveRedundantCheck ==
  /\ phase = "redundant"
  /\ redundant_checks_ # <<>>
  /\ LET i == Head(redundant_checks_) IN
       IF IsLinked(table, i)
       THEN table' = DeleteCheck(table, i) /\ UNCHANGED phase
       ELSE phase' = "deletedTwice" /\ UNCHANGED table
  /\ redundant_checks_' = Tail(redundant_checks_)
  /\ UNCHANGED <<otherVars, passes, insts>>

ChecksDone ==
  /\ phase = "redundant"
  /\ redundant_checks_ = <<>>
  /\ phase' = "idle"
  /\ UNCHANGED <<otherVars, table, passes, insts, redundant_checks_>>

CheckNext == StartVisit \/ VisitCheck \/ VisitDone \/ RemoveRedundantCheck \/ ChecksDone

-----------------------------------------------------------------------------
IsLive(t, i) == t.block[i] \in Reachable(graph)

SameValue(t, v, w) ==
  v = w \/ (t.op[v] = "CONST" /\ t.op[w] = "CONST" /\ t.val[v] = t.val[w])

\* Control makes an equal check on every way to c.
MadeBefore(t, c) ==
  \E d \in Linked(t) \ {c} :
    /\ t.op[d] = t.op[c]
    /\ t.inputs[d][1] = t.inputs[c][1]
    /\ \A k \in 2 .. Len(t.inputs[c]) : SameValue(t, t.inputs[d][k], t.inputs[c][k])
    /\ IF t.block[d] = t.block[c] THEN Position(t, d) < Position(t, c)
       ELSE BlockDominates(graph, t.block[d], t.block[c])

CannotFail(t, c) ==
  LET v == t.inputs[c][1] IN
  t.op[c] \in {"CHECK_ZERO", "CHECK_NULL"} /\ t.op[v] = "CONST" /\ t.val[v] # 0

\* Of the checks that can be reached exactly those stay that can fail and of which
\* no equal one is made before: deleting some while the lists are walked skips
\* none, loses none that was relied upon, and deletes none twice.
ChecksExact ==
  /\ phase # "deletedTwice"
  /\ phase = "redundant" /\ redundant_checks_ = <<>> => \A c \in Linked(given) :
       given.op[c] \in CHECK /\ IsLive(given, c) =>
         (IsLinked(table, c) <=> ~MadeBefore(given, c) /\ ~CannotFail(given, c))
=============================================================================
