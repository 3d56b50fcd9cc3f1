------------------------------ MODULE Pipeline ------------------------------
(***************************************************************************)
(* The passes that rewrite instructions, one after the other on a program  *)
(* that was built: inlining, peepholes, check elimination, dead code       *)
(* elimination; and the two that find out where its values live and put    *)
(* them into registers. Here is what the former promise together: the      *)
(* program does what it did before.                                        *)
(*                                                                         *)
(* Bounds: a plan says besides                                             *)
(*   args     the values that the parameters of a run may have             *)
(*   turns    the number of branches a run goes through                    *)
(***************************************************************************)
EXTENDS Allocation

vars == <<builderVars, inliningVars, redundant_checks_, dceVars, livenessVars, allocationVars>>

Init ==
  /\ BuilderInit /\ InliningInit
  /\ redundant_checks_ = <<>>
  /\ marked = {} /\ blocks = <<>>
  /\ LivenessInit /\ AllocationInit

RewriteNext ==
  \/ BuilderNext /\ UNCHANGED <<inliningVars, redundant_checks_, dceVars>>
  \/ (InliningNext \/ PeepholesNext) /\ UNCHANGED <<redundant_checks_, dceVars>>
  \/ CheckNext /\ UNCHANGED dceVars
  \/ DceNext

Next ==
  \/ RewriteNext /\ UNCHANGED <<livenessVars, allocationVars>>
  \/ LivenessNext /\ UNCHANGED allocationVars
  \/ AllocationNext

Spec == Init /\ [][Next]_vars

-----------------------------------------------------------------------------
\* Whatever the passes delete, move and replace, the two ends of def-use agree: a
\* linked instruction has each of its users once for every time that it is an input
\* there, and none that was destroyed. Calls that are inlined are as good as deleted.
UsersMatchInputs ==
  phase \notin {"undefined", "touchesFreed"} =>
    LET there == Linked(table) \ ToSet(to_delete_)
    IN  \A i \in there :
          /\ ToSet(table.users[i]) \subseteq there
          /\ \A j \in there : Entries(table, i, j) = Mentions(table, i, j)

-----------------------------------------------------------------------------
\* The phis of block b have one input from each block that leads there.
PhisFollowEdges(b) ==
  \A i \in ToSet(InstsOf(table, b)) : table.op[i] = "PHI" =>
    /\ ToSet(table.from[i]) = graph.preds[b]
    /\ Len(table.from[i]) = Cardinality(graph.preds[b])

\* Inlining puts a function's blocks, which return from several places, into the
\* middle of a block, and a phi of the values where they join: every phi that can be
\* reached has its inputs from where control comes from, unless there were phis in
\* the block of the call; these always are wrong then.
PhisWrongAtCallsOnly ==
  /\ phase \in {"inlining", "idle"} /\ "PHI" \notin deviations =>
       \A b \in Reachable(graph) : PhisFollowEdges(b)
  /\ phase = "inlining" /\ "PHI" \in deviations =>
       \E b \in Reachable(graph) : ~PhisFollowEdges(b)

CallsOf == {i \in DOMAIN prog : prog[i].op = "CALL_STATIC" /\ prog[i].block \in Reachable(plan.graph)}

\* The pass has begun, and no other after it.
Latest(pass) == plan.passes # <<>> /\ Head(plan.passes) = pass /\ passes = Tail(plan.passes)

\* Inlining does the first of the calls of one block and leaves the others of that
\* block to call a function that is no more. With calls in other blocks it takes
\* apart what it has taken apart already, and with blocks without instructions in
\* the function it reads through null pointers; in all other cases it comes to an end.
FirstCallInlined ==
  Latest("Inlining") =>
    LET holes  == \E b \in ToSet(CalleeBlocks) : HasNoInsts(b)
        blocks_of_calls == {prog[i].block : i \in CallsOf}
    IN  /\ phase = "undefined" => holes \/ Cardinality(blocks_of_calls) > 1
        /\ phase = "idle" /\ CallsOf # {} =>
             /\ ~holes /\ Cardinality(blocks_of_calls) = 1
             /\ \E first \in CallsOf : \A i \in CallsOf :
                  first <= i /\ (IsLinked(table, i) <=> i # first)

-----------------------------------------------------------------------------
Args == [1 .. Cardinality(Params(prog)) -> plan.args]
Ways == [1 .. plan.turns -> BOOLEAN]

Inlines == "Inlining" \in ToSet(plan.passes)

CallBefore(r, args) ==
  IF Inlines THEN CallTo(callee.graph, CalleeTable, r, args) ELSE OpaqueCall(r, args)

\* There is no function to call any more when it was inlined.
CallAfter(r, args) ==
  IF released THEN [run |-> [r EXCEPT !.is = "broken"], val |-> None] ELSE CallBefore(r, args)

\* What was built and what the passes made of it do the same.
BehavesAlike ==
  LET built == ConstructDFG(plan.graph, prog)
  IN  \A args \in Args, ways \in Ways :
        LET before == RunFrom(plan.graph, built, args, ways, CallBefore)
        IN  before.is # "undefined" =>
              Seen(RunFrom(graph, table, args, ways, CallAfter)) = Seen(before)

\* Whatever the arguments and wherever the branches go, the program makes the same
\* calls, is stopped by the same check and returns the same value after the passes
\* as before, unless one of the deviations was made.
SameBehaviour == AllDone /\ deviations = {} => BehavesAlike

\* What the comment says of a sum of a difference and what was subtracted, either way
\* round, that it is what it was subtracted from, would not change the behaviour.
SubtractionsCancel == AllDone /\ deviations \subseteq {"subtracted"} => BehavesAlike
=============================================================================
