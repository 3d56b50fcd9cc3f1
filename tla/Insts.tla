------------------------------- MODULE Insts -------------------------------
(***************************************************************************)
(* Instructions: ir/inst.cpp, the lists of instructions of ir/bb.cpp, and  *)
(* how the graph builder connects them.  Def-use is stored at both ends:   *)
(* an instruction has the vector of its inputs and the list of its users,  *)
(* and whoever changes one must change the other.  A table is a record of  *)
(* what was created, by id, and of the lists the blocks have:              *)
(*   list     list[b]: the instructions of block b, its phis first; what   *)
(*            is in no list was destroyed, as the lists own them           *)
(*   block    InstBase::bb_                                                *)
(*   op, val  the opcode, and the value of a CONST or the immediate        *)
(*   inputs   InstBase::inputs_, the instructions                          *)
(*   from     the source blocks of these, which only phis have here        *)
(*   users    InstBase::users_, a user once per time it was added          *)
(* Phis are in a list of their own, which the passes walk separately; the  *)
(* builder gives out ids in the order of the lists.                        *)
(***************************************************************************)
EXTENDS CfgShapes

\* The flags of isa_def.h: what dead code elimination may not take, what has no
\* value, and what checks.  The opcodes stand for all those with the same flags.
CHECK  == {"CHECK_ZERO", "CHECK_NULL", "CHECK_SIZE"}
NO_DCE == CHECK \cup {"CALL_STATIC", "PARAM", "RETURN"}
NO_USE == CHECK \cup {"RETURN"}
BINARY == {"ADD", "SUB", "ASHR", "XOR"}

InstsOf(t, b) == t.list[b]

IsLinked(t, i) == i \in ToSet(t.list[t.block[i]])

Linked(t) == {i \in DOMAIN t.op : IsLinked(t, i)}

Position(t, i) == SelectInSeq(InstsOf(t, t.block[i]), LAMBDA j : j = i)

EmptyTable ==
  [list |-> [b \in Ids |-> <<>>], block |-> <<>>, op |-> <<>>, val |-> <<>>,
   inputs |-> <<>>, from |-> <<>>, users |-> <<>>]

-----------------------------------------------------------------------------
\* InstBase::NewInst: the instruction is in no list yet.
NewestInst(t) == Len(t.op)

NewInstOf(t, b, op, val) ==
  [t EXCEPT !.block = Append(@, b), !.op = Append(@, op), !.val = Append(@, val),
            !.inputs = Append(@, <<>>), !.from = Append(@, <<>>), !.users = Append(@, <<>>)]

PushBackInst(t, b, i) == [t EXCEPT !.list[b] = Append(@, i), !.block[i] = b]

\* Behind the phis that are there.
PushBackPhi(t, b, i) ==
  LET IsPhi(j) == t.op[j] = "PHI"
  IN  [t EXCEPT !.list[b] = SelectSeq(@, IsPhi) \o <<i>> \o SelectSeq(@, LAMBDA j : ~IsPhi(j)),
                !.block[i] = b]

InsertInstAfter(t, i, after) ==
  [t EXCEPT !.list[t.block[after]] = InsertAt(@, Position(t, after) + 1, i),
            !.block[i] = t.block[after]]

\* The block's list owns the instruction: unlinked is destroyed.
UnlinkInst(t, i) == [t EXCEPT !.list[t.block[i]] = SelectSeq(@, LAMBDA j : j # i)]

-----------------------------------------------------------------------------
\* SetInput and AddInput enter the user at the input.
SetInput(t, i, input) ==
  [t EXCEPT !.inputs[i] = Append(@, input), !.users[input] = Append(@, i)]

AddInput(t, i, input, bb) == [SetInput(t, i, input) EXCEPT !.from[i] = Append(@, bb)]

AddUser(t, i, user) == [t EXCEPT !.users[i] = Append(@, user)]

\* However often the user was entered, all of its entries go.
RemoveUser(t, input, user) ==
  [t EXCEPT !.users[input] = SelectSeq(@, LAMBDA u : u # user)]

\* Every input that is old_inst; the users are the caller's business.
ReplaceInput(t, i, old_inst, new_inst) ==
  [t EXCEPT !.inputs[i] = [k \in DOMAIN @ |-> IF @[k] = old_inst THEN new_inst ELSE @[k]]]

\* Mutated: only the first input is told.
LeaveFirstInput(t, i) == IF t.inputs[i] = <<>> THEN t ELSE RemoveUser(t, t.inputs[i][1], i)

\* Before an instruction is unlinked its inputs are told.
LeaveInputs(t, i) ==
  FoldLeft(LAMBDA acc, input : RemoveUser(acc, input, i), t, t.inputs[i])

\* Whatever uses old_inst uses new_inst from now on. The loop is over a copy of the
\* users; that old_inst forgets them is left to the callers.
HandOverUsers(t, old_inst, new_inst) ==
  FoldLeft(LAMBDA acc, u : AddUser(ReplaceInput(acc, u, old_inst, new_inst), new_inst, u),
           t, t.users[old_inst])

-----------------------------------------------------------------------------
\* ConstructDFG: each instruction is connected with its inputs, phis last, whose
\* inputs come from the predecessors.  What the builder knows of an instruction is
\* a row of prog.
ConstructDFG(g, prog) ==
  LET Create(t, row) ==
        LET n == NewInstOf(t, row.block, row.op, row.val)
        IN  PushBackInst(n, row.block, NewestInst(n))
      created == FoldLeft(Create, EmptyTable, prog)
      Source(i, k) == SetToSortSeq(g.preds[prog[i].block], <)[k]
      Connect(t, i) ==
        IF prog[i].op = "PHI"
        THEN FoldLeftDomain(LAMBDA acc, k : AddInput(acc, i, prog[i].inputs[k], Source(i, k)),
                            t, prog[i].inputs)
        ELSE FoldLeft(LAMBDA acc, input : SetInput(acc, i, input), t, prog[i].inputs)
      ids == [i \in DOMAIN prog |-> i]
  IN  FoldLeft(Connect, created, SelectSeq(ids, LAMBDA i : prog[i].op # "PHI")
                                 \o SelectSeq(ids, LAMBDA i : prog[i].op = "PHI"))

-----------------------------------------------------------------------------
\* BasicBlock::Dominates walks the immediate dominators up from b: a block that
\* cannot be reached has none, and dominates and is dominated by itself only.
BlockDominates(g, d, b) ==
  d = b \/ ({d, b} \subseteq Reachable(g) /\ Dominates(g, d, b))

\* How often user is entered at input, and input is named by user.
Entries(t, input, user) == Cardinality({k \in DOMAIN t.users[input] : t.users[input][k] = user})
Mentions(t, input, user) == Cardinality({k \in DOMAIN t.inputs[user] : t.inputs[user][k] = input})
=============================================================================
