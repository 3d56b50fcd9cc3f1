----------------------------- MODULE MCPipeline -----------------------------
(***************************************************************************)
(* What the runs of the passes on instructions build: graphs of up to four *)
(* blocks, three functions that may be called, and the plans.              *)
(***************************************************************************)
EXTENDS Pipeline
MCIds == 0 .. 8

\* The graph whose blocks have these lists of successors.
Shaped(lists) ==
  [GraphOf([b \in Ids |-> IF b < Len(lists) THEN lists[b + 1] ELSE <<>>])
     EXCEPT !.blocks = 0 .. Len(lists) - 1]

Line    == Shaped(<< <<1>>, <<>> >>)
Fork    == Shaped(<< <<1>>, <<2, 3>>, <<>>, <<>> >>)
Loop    == Shaped(<< <<1>>, <<2, 3>>, <<1>>, <<>> >>)
Diamond == Shaped(<< <<1>>, <<2, 3>>, <<3>>, <<>> >>)
Cut     == Shaped(<< <<1>>, <<2>>, <<>>, <<2>> >>)

Row(b, op, val, ins) == [block |-> b, op |-> op, val |-> val, inputs |-> ins]

Successor ==
  [graph |-> Line,
   prog  |-> << Row(0, "PARAM", 0, <<>>), Row(0, "CONST", 1, <<>>),
                Row(1, "ADD", 0, <<1, 2>>), Row(1, "RETURN", 0, <<3>>) >>]

\* Its argument, which must not be zero, or one.
Either ==
  [graph |-> Fork,
   prog  |-> << Row(0, "PARAM", 0, <<>>), Row(0, "CONST", 1, <<>>),
                Row(2, "CHECK_ZERO", 0, <<1>>), Row(2, "RETURN", 0, <<1>>),
                Row(3, "RETURN", 0, <<2>>) >>]

\* A block without instructions comes before the one that returns.
Holed ==
  [graph |-> Shaped(<< <<1>>, <<2>>, <<>> >>),
   prog  |-> << Row(0, "PARAM", 0, <<>>), Row(2, "RETURN", 0, <<1>>) >>]

Plan(g, run, length, consts, ops, ordered, f, args, turns) ==
  [graph |-> g, passes |-> run, length |-> length, consts |-> consts, ops |-> ops,
   ordered |-> ordered, callee |-> f, args |-> args, turns |-> turns]

\* Every peephole, on all that a function of five instructions can be, with a constant
\* that is not an immediate; and where values meet in phis.
Folding ==
  {Plan(Line, <<"Peepholes">>, 5, {0, 3}, {"ADD", "SUB", "ASHR", "XOR", "RETURN"}, {}, Successor,
        Integer, 0),
   Plan(Loop, <<"Peepholes", "DCE">>, 4, {0}, {"ADD", "XOR", "RETURN"}, {}, Successor, {-1, 2}, 2)}

\* All passes, where calls are in a loop and on one side of a branch.
Inlined ==
  {Plan(g, <<"Inlining", "Peepholes", "CheckElimination", "DCE">>, 4, {0},
        {"ADD", "CALL_STATIC", "CHECK_ZERO", "RETURN"}, {"ADD"}, f, {0, 2}, 2) :
     g \in {Loop, Diamond}, f \in {Successor, Either, Holed}}

Subtractions ==
  {Plan(Line, <<"Peepholes">>, 5, {0}, {"ADD", "SUB", "RETURN"}, {}, Successor, Integer, 0)}

Rewriting == Folding \cup Inlined

\* Checks and dead code: where there is a loop, where control meets again, and where
\* blocks cannot be reached; and two constants and two checks of an array.
Cleaning ==
  {Plan(p.graph, <<"CheckElimination", "DCE">>, 4, {0, 1},
        {"ADD", "CALL_STATIC", "CHECK_ZERO"}, {"ADD"}, Successor, {0, 2}, p.turns) :
     p \in {[graph |-> Loop, turns |-> 2], [graph |-> Diamond, turns |-> 1],
            [graph |-> Cut, turns |-> 0]}}
  \cup {Plan(Diamond, <<"CheckElimination", "DCE">>, 5, {0, 2}, {"CHECK_SIZE"}, {}, Successor, {0}, 1)}

\* Where values get their places: a branch, a loop that is left at its header, a loop in
\* a loop, and, with one more instruction, a loop that is left at its end.
DoWhile == Shaped(<< <<1>>, <<2>>, <<1, 3>>, <<>> >>)
Nested  == Shaped(<< <<1>>, <<2, 6>>, <<3>>, <<4, 5>>, <<3>>, <<1>>, <<>> >>)

Allocating ==
  {Plan(p.graph, <<"LivenessAnalysis", "LinearScan">>, p.length, {}, {"ADD"}, {"ADD"}, Successor, {}, 0)
     @@ [regs |-> 2] :
       p \in {[graph |-> g, length |-> 3] : g \in {Diamond, Loop, Nested}}
               \cup {[graph |-> DoWhile, length |-> 4]}}
Finishing == Cleaning \cup Allocating

\* The inner loop's header also ends the turns of the outer loop, and a branch goes to
\* the inner loop's other block.
TwoEnds == Shaped(<< <<1>>, <<2, 5>>, <<3>>, <<4, 1>>, <<3>>, <<>> >>)

OneForTwoLoops ==
  {Plan(TwoEnds, <<"LivenessAnalysis">>, 2, {}, {"ADD"}, {}, Successor, {}, 0)}
=============================================================================
