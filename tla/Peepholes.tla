----------------------------- MODULE Peepholes -----------------------------
(***************************************************************************)
(* pass/peepholes.cpp.  The visitor comes to the instructions in the order *)
(* of RPO and tries the rules for the opcode one after the other. The      *)
(* first that matches hands the users of the instruction over to another   *)
(* one, which it may create; the instruction itself stays, without users,  *)
(* for dead code elimination. Constants are integers.                      *)
(***************************************************************************)
EXTENDS Inlining

\* The rules in the order in which VisitADD, VisitASHR and VisitXOR try them.
Rules(op) ==
  CASE op = "ADD"  -> <<"fold", "zero", "after sub", "same value", "immediate">>
    [] op = "ASHR" -> <<"fold", "zero", "zero shifted", "immediate">>
    [] op = "XOR"  -> <<"fold", "same value", "zero", "immediate">>

\* The visitors of all other opcodes do nothing.
Visited == {"ADD", "ASHR", "XOR"}

-----------------------------------------------------------------------------
Consts(t) == {i \in DOMAIN t.op : t.op[i] = "CONST"}
Zeros(t)  == {i \in Consts(t) : t.val[i] = 0}

\* The position of the input that makes the rule match, 0 if none does. An ADD and an
\* XOR may take the constant first; a zero is looked for at the second input first.
ConstInput(t, i, consts) ==
  LET in == t.inputs[i]
  IN  IF in[2] \in consts THEN 2 ELSE IF t.op[i] # "ASHR" /\ in[1] \in consts THEN 1 ELSE 0

\* MatchADD_after_sub: the position of a SUB whose second input is added too.
SubInput(t, i) ==
  LET in == t.inputs[i]
      Matches(k) == /\ t.op[in[k]] = "SUB"
                    /\ t.inputs[in[k]][2] \in ToSet(in)
  IN  CASE Matches(1) -> 1 [] ~Matches(1) /\ Matches(2) -> 2 [] OTHER -> 0

Matches(rule, t, i) ==
  LET in == t.inputs[i]
  IN  CASE rule = "fold"         -> {in[1], in[2]} \subseteq Consts(t)
        [] rule = "zero"         -> ConstInput(t, i, Zeros(t)) # 0
        [] rule = "zero shifted" -> in[1] \in Zeros(t)
        [] rule = "same value"   -> in[1] = in[2]
        [] rule = "after sub"    -> SubInput(t, i) # 0
        [] rule = "immediate"    -> ConstInput(t, i, Consts(t)) # 0

-----------------------------------------------------------------------------
TransferUsers(t, i, to) == [HandOverUsers(t, i, to) EXCEPT !.users[i] = <<>>]

ReplaceWithIntegralConst(t, i, val) ==
  LET new == NewInstOf(t, Start, "CONST", val)
  IN  TransferUsers(PushBackInst(new, Start, NewestInst(new)), i, NewestInst(new))

\* An instruction behind i that takes input and an immediate.
ReplaceWithImm(t, i, op, input, imm) ==
  LET new == NewInstOf(t, t.block[i], op, imm)
      n   == NewestInst(new)
  IN  TransferUsers(SetInput(InsertInstAfter(new, n, i), n, input), i, n)

\* What a SUB, the inputs of an ADD it is an input of, cancels to: the input of the SUB
\* with the index that says whether the ADD has the common argument second.
Cancelled(sub, add) == IF sub[2] = add[2] THEN sub[2] ELSE sub[1]

\* Immediates are floating-point numbers (ImmType), which have fewer bits for the digits
\* than integers have: the nearest one that ends in an even digit is taken. With one bit
\* missing of Width that concerns the odd numbers of the upper half.
Rounded(n) ==
  IF n \in -(Half \div 2) .. Half \div 2 \/ n % 2 = 0 THEN n
  ELSE IF (n \div 2) % 2 = 0 THEN n - 1 ELSE n + 1

\* Mutated: the zero stays instead of the other input.
ZeroStays(t, i) == t.inputs[i][ConstInput(t, i, Zeros(t))]

OtherThanZero(t, i) == t.inputs[i][3 - ConstInput(t, i, Zeros(t))]

ImmOf(op) == CASE op = "ADD" -> "ADDI" [] op = "ASHR" -> "ASHRI" [] op = "XOR" -> "XORI"

Replaced(rule, t, i) ==
  LET in == t.inputs[i]
      op == t.op[i]
      c  == ConstInput(t, i, Consts(t))
  IN  CASE rule = "fold" -> ReplaceWithIntegralConst(t, i, Apply(op, t.val[in[1]], t.val[in[2]]))
        [] rule = "zero" -> TransferUsers(t, i, OtherThanZero(t, i))
        [] rule = "zero shifted" \/ (rule = "same value" /\ op = "XOR") ->
             ReplaceWithIntegralConst(t, i, 0)
        [] rule = "same value" /\ op = "ADD" -> ReplaceWithImm(t, i, "SHLI", in[1], 2)
        [] rule = "after sub" -> TransferUsers(t, i, Cancelled(t.inputs[in[SubInput(t, i)]], in))
        [] rule = "immediate" -> ReplaceWithImm(t, i, ImmOf(op), in[3 - c], Rounded(t.val[in[c]]))

\* Where the value does not stay: x + x becomes 4 * x; what is subtracted, not what it is
\* subtracted from; an immediate is not the constant.
Deviation(rule, t, i) ==
  LET in == t.inputs[i]
      const == t.val[in[ConstInput(t, i, Consts(t))]]
  IN  CASE rule = "same value" /\ t.op[i] = "ADD" -> {"doubled"}
        [] rule = "after sub" /\ t.inputs[in[SubInput(t, i)]][2] = in[2] -> {"subtracted"}
        [] rule = "immediate" /\ Rounded(const) # const -> {"rounded"}
        [] OTHER -> {}

-----------------------------------------------------------------------------
StartPeepholes ==
  /\ BeginPass("Peepholes", "peepholes",
               SelectSeq(InOrderOf(table, Preorder(graph)), LAMBDA i : table.op[i] \in Visited))
  /\ UNCHANGED inliningVars

\* VisitADD, VisitASHR and VisitXOR. Folding a shift by what is no number of bits is
\* undefined. What a rule creates comes behind the walk, or is not of interest to it.
VisitBinary ==
  /\ phase = "peepholes" /\ insts # <<>>
  /\ LET i     == Head(insts)
         found == SelectSeq(Rules(table.op[i]), LAMBDA rule : Matches(rule, table, i))
     IN  IF found = <<>>
         THEN UNCHANGED <<table, phase, deviations>>
         ELSE IF found[1] = "fold" /\ ~IsDefined(table.op[i], table.val[table.inputs[i][2]])
         THEN phase' = "undefined" /\ UNCHANGED <<table, deviations>>
         ELSE /\ table' = Replaced(found[1], table, i)
              /\ deviations' = deviations \cup Deviation(found[1], table, i)
              /\ UNCHANGED phase
  /\ insts' = Tail(insts)
  /\ UNCHANGED <<plan, prog, graph, passes, given, to_delete_, released>>

PeepholesDone ==
  /\ phase = "peepholes" /\ insts = <<>>
  /\ phase' = "idle"
  /\ UNCHANGED <<plan, prog, graph, table, passes, insts, given, inliningVars>>

PeepholesNext == StartPeepholes \/ VisitBinary \/ PeepholesDone
=============================================================================
