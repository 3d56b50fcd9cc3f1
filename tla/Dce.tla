-------------------------------- MODULE Dce --------------------------------
(***************************************************************************)
(* pass/dce.cpp: dead code elimination.  Mark follows the inputs from the  *)
(* instructions that must stay; Sweep goes through the blocks in postorder *)
(* and destroys what has no mark, after telling its inputs.  An input that *)
(* an earlier block's sweep has destroyed is told as well: freed memory,   *)
(* the phase touchesFreed.                                                 *)
(***************************************************************************)
EXTENDS CheckElim

VARIABLES
  marked,   \* the instructions with Marks::VISITED
  blocks    \* the blocks the loop of the pass has still to come to

dceVars == <<marked, blocks>>

\* Mutated: blocks are swept from the start block on.
FromTheStart(g) == Preorder(g)

BlockOrder(g) == Postorder(g)

\* The calls that the loops of Mark make, one after the other, with a new marker.
StartMark ==
  /\ BeginPass("DCE", "mark",
               SelectSeq(InOrderOf(table, BlockOrder(graph)), LAMBDA i : table.op[i] \in NO_DCE))
  /\ marked' = {}
  /\ UNCHANGED <<inliningVars, redundant_checks_, blocks>>

\* Mutated: what a phi takes is not followed.
NotThroughPhis(i) == IF table.op[i] = "PHI" THEN <<>> ELSE table.inputs[i]

MarkedNext(i) == table.inputs[i]

\* MarkRecursively: insts is the stack of the calls to come.
MarkRecursively ==
  /\ phase = "mark"
  /\ insts # <<>>
  /\ LET i == Head(insts) IN
       IF i \in marked
       THEN insts' = Tail(insts) /\ UNCHANGED marked
       ELSE /\ marked' = marked \cup {i}
            /\ insts' = MarkedNext(i) \o Tail(insts)
  /\ UNCHANGED <<otherVars, table, phase, passes, redundant_checks_, blocks>>

StartSweep ==
  /\ phase = "mark"
  /\ insts = <<>>
  /\ phase' = "sweep"
  /\ blocks' = BlockOrder(graph)
  /\ UNCHANGED <<otherVars, table, passes, insts, redundant_checks_, marked>>

\* One turn of the loop of Sweep. All of the block's dead instructions leave their
\* inputs before the first of them is unlinked.
SweepBlock ==
  /\ phase = "sweep"
  /\ blocks # <<>>
  /\ LET dead == SelectSeq(InstsOf(table, Head(blocks)), LAMBDA i : i \notin marked)
         told == UNION {ToSet(table.inputs[i]) : i \in ToSet(dead)}
     IN  IF told \subseteq Linked(table)
         THEN /\ table' = FoldLeft(UnlinkInst, FoldLeft(LeaveInputs, table, dead), dead)
              /\ UNCHANGED phase
         ELSE phase' = "touchesFreed" /\ UNCHANGED table
  /\ blocks' = Tail(blocks)
  /\ UNCHANGED <<otherVars, passes, insts, redundant_checks_, marked>>

SweepDone ==
  /\ phase = "sweep"
  /\ blocks = <<>>
  /\ phase' = "idle"
  /\ UNCHANGED <<otherVars, table, passes, insts, redundant_checks_, dceVars>>

DceNext == StartMark \/ MarkRecursively \/ StartSweep \/ SweepBlock \/ SweepDone

-----------------------------------------------------------------------------
\* The instructions that must stay, and all that a needed one names as an input.
Needed(t) ==
  LET roots == {i \in Linked(t) : IsLive(t, i) /\ t.op[i] \in NO_DCE}
      N[n \in Nat] == IF n = 0 THEN roots
                      ELSE LET P == N[n - 1] IN P \cup UNION {ToSet(t.inputs[i]) : i \in P}
  IN  N[Len(t.op)]

Swept == phase = "sweep" /\ blocks = <<>>

\* When the sweep is done, exactly the needed instructions are left in the blocks
\* that can be reached: cycles of phis that only feed themselves go as well.
NeededStay ==
  Swept => \A i \in Linked(given) :
    IsLive(given, i) => (IsLinked(table, i) <=> i \in Needed(given))

\* A dead phi takes a dead value from a block that it dominates: over a back edge.
DeadLoopPhi ==
  \E p \in Linked(given) \ Needed(given) : given.op[p] = "PHI" /\ IsLive(given, p) /\
    \E v \in ToSet(given.inputs[p]) \ Needed(given) :
      /\ IsLive(given, v)
      /\ given.block[v] # given.block[p]
      /\ BlockDominates(graph, given.block[p], given.block[v])

\* The sweep tells an instruction it has destroyed that it lost a user if, and only
\* if, there is such a phi, a variable of a loop that only computes itself, say:
\* for all others the postorder of the blocks comes to the user first. Phis that
\* inlining has left behind what uses them are the exception.
TouchesFreedInLoopsOnly ==
  /\ phase = "touchesFreed" => DeadLoopPhi \/ "PHI" \in deviations
  /\ Swept => ~DeadLoopPhi
=============================================================================
