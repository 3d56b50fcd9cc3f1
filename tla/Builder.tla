------------------------------ MODULE Builder ------------------------------
(***************************************************************************)
(* ir/graph_builder.cpp, the part for instructions: they are created in    *)
(* the lists of their blocks, their inputs are put down by id, and         *)
(* ConstructDFG connects them at the end.  Programs are in SSA form: what  *)
(* is used dominates the use, the input of a phi the predecessor it comes  *)
(* from (RunChecks).  What CHECK_SIZE takes for an array is a parameter,   *)
(* and is never an index.  On what was built passes run one after the      *)
(* other.                                                                  *)
(*                                                                         *)
(* Bounds: a plan is a record of                                           *)
(*   graph    the graph that is built on                                   *)
(*   passes   the passes that run on it then                               *)
(*   length   the number of instructions                                   *)
(*   consts   the constants there may be                                   *)
(*   ops      the opcodes, besides constants, parameters and phis; if      *)
(*            RETURN is one it comes last                                  *)
(*   ordered  those whose two inputs are in the order of their ids         *)
(*   callee   the graph, and the rows of prog, of the function that is     *)
(*            called                                                       *)
(* Blocks are filled in the order of their numbers; the code does not care.*)
(***************************************************************************)
EXTENDS Meaning

CONSTANT Plans    \* what may be built

VARIABLES
  plan,     \* the one that is built
  prog,     \* inst_map_, inst_inputs_map_ and phi_inputs_map_, by id
  graph,    \* the Graph
  table,    \* its instructions, once connected
  phase,    \* what is being done
  passes,   \* the passes that have not begun
  insts,    \* the instructions that the walk of the pass has still to come to
  given     \* history: the table when the pass began

builderVars == <<plan, prog, graph, table, phase, passes, insts, given>>

BuilderInit ==
  /\ plan \in Plans
  /\ prog = <<>>
  /\ graph = plan.graph
  /\ table = EmptyTable /\ given = EmptyTable
  /\ phase = "build"
  /\ passes = plan.passes
  /\ insts = <<>>

-----------------------------------------------------------------------------
Length == Len(prog)

\* The blocks that dominate a block, in each of the graphs.
DominatorsIn ==
  [g \in {p.graph : p \in Plans} |-> [b \in Ids |-> {d \in Ids : BlockDominates(g, d, b)}]]

\* A value that block b may use, when it has been created.
Usable(b) ==
  {i \in DOMAIN prog : prog[i].op \notin NO_USE /\ prog[i].block \in DominatorsIn[plan.graph][b]}

SetProg(rows) == prog' = rows /\ UNCHANGED <<plan, graph, table, phase, passes, insts, given>>

NewInst(b, op, val, ins) ==
  /\ Length < plan.length
  /\ \A i \in DOMAIN prog : prog[i].block <= b
  /\ SetProg(Append(prog, [block |-> b, op |-> op, val |-> val, inputs |-> ins]))

\* Parameters come one after another, before the constants.
NewParameter ==
  /\ prog # <<>> => Last(prog).op = "PARAM"
  /\ NewInst(Start, "PARAM", 0, <<>>)

NewConst == \E v \in plan.consts : NewInst(Start, "CONST", v, <<>>)

\* PushBackPhi: the inputs are set later, as they may be defined later.
NewPhi(b) ==
  /\ Cardinality(graph.preds[b]) > 1
  /\ \A i \in DOMAIN prog : prog[i].block = b => prog[i].op = "PHI"
  /\ NewInst(b, "PHI", 0, <<>>)

Params(rows) == {i \in DOMAIN rows : rows[i].op = "PARAM"}

\* The inputs of an instruction of block b: SetInputs(id, ...).
InputLists(b, op) ==
  LET arrays == Usable(b) \cap Params(prog)
      pairs  == Usable(b) \X Usable(b)
  IN  CASE op \in plan.ordered -> {p \in pairs : p[1] <= p[2]}
        [] op \in BINARY \ plan.ordered -> pairs
        [] op = "CHECK_SIZE" -> arrays \X (Usable(b) \ arrays)
        [] op = "CALL_STATIC" -> [1 .. Cardinality(Params(plan.callee.prog)) -> Usable(b)]
        [] OTHER -> {<<i>> : i \in Usable(b)}

NewUser(b) ==
  \E op \in plan.ops :
    /\ op = "RETURN" => graph.term[b] = "ret"
    /\ "RETURN" \in plan.ops => (op = "RETURN" <=> Length = plan.length - 1)
    /\ \E ins \in InputLists(b, op) : NewInst(b, op, 0, ins)

Unset == {i \in DOMAIN prog : prog[i].op = "PHI" /\ prog[i].inputs = <<>>}

\* SetInputs(id, inputs) of a phi: one for each predecessor.
SetPhiInputs(i) ==
  /\ Length = plan.length
  /\ i \in Unset /\ \A j \in Unset : i <= j
  /\ LET preds == SetToSortSeq(graph.preds[prog[i].block], <) IN
       \E ins \in [DOMAIN preds -> DOMAIN prog] :
         /\ \A k \in DOMAIN preds : ins[k] \in Usable(preds[k])
         /\ SetProg([prog EXCEPT ![i].inputs = ins])

Built ==
  /\ Length = plan.length
  /\ Unset = {}
  /\ "RETURN" \in plan.ops => Last(prog).op = "RETURN"

Connect ==
  /\ Built
  /\ table' = ConstructDFG(graph, prog)
  /\ phase' = "idle"
  /\ UNCHANGED <<plan, prog, graph, passes, insts, given>>

BuilderNext ==
  /\ phase = "build"
  /\ \/ NewParameter \/ NewConst
     \/ \E b \in graph.blocks \ {Start} : NewPhi(b) \/ NewUser(b)
     \/ \E i \in DOMAIN prog : SetPhiInputs(i)
     \/ Connect

-----------------------------------------------------------------------------
\* GraphVisitor: the instructions that are no phis, in the order of the given blocks.
InOrderOf(t, bbs) ==
  FlattenSeq([k \in DOMAIN bbs |-> SelectSeq(InstsOf(t, bbs[k]), LAMBDA i : t.op[i] # "PHI")])

\* A pass begins with what it visits, and ends.
BeginPass(pass, first, visits) ==
  /\ phase = "idle" /\ passes # <<>> /\ Head(passes) = pass
  /\ phase' = first
  /\ passes' = Tail(passes)
  /\ insts' = visits
  /\ given' = table
  /\ UNCHANGED <<plan, prog, graph, table>>

AllDone == phase = "idle" /\ passes = <<>>
=============================================================================
