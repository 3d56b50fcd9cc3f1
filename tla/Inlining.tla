------------------------------ MODULE Inlining ------------------------------
(***************************************************************************)
(* pass/inlining.cpp.  The visitor comes to the calls in the order of RPO. *)
(* The graph of the callee is not copied but taken apart: its blocks move  *)
(* to the caller, between the two halves of the block of the call, and     *)
(* what used its parameters and the call uses the arguments and what is    *)
(* returned.  So a function can be inlined once: the second time it has no *)
(* start block, the phase undefined, as when it has a block without        *)
(* instructions.  All calls are to one function, which returns a value;    *)
(* start blocks have parameters and constants only, and no branch.         *)
(***************************************************************************)
EXTENDS Builder

VARIABLES
  to_delete_,   \* the calls that have been inlined
  released,     \* the blocks of the callee have been released
  deviations    \* history: what was done that need not keep the meaning

inliningVars == <<to_delete_, released, deviations>>

InliningInit == to_delete_ = <<>> /\ released = FALSE /\ deviations = {}

-----------------------------------------------------------------------------
callee == plan.callee

CalleeTable == ConstructDFG(callee.graph, callee.prog)

\* Of the callee the blocks that RPO lists, and the ids NewBasicBlock gives them.
CalleeBlocks == Preorder(callee.graph)

NewName(g, b) == Cardinality(g.blocks) + SelectInSeq(CalleeBlocks, LAMBDA c : c = b) - 1

NewNames(g) == {NewName(g, b) : b \in ToSet(CalleeBlocks)}

callee_start_bb_ == NewName(graph, Start)

HasNoInsts(b) == InstsOf(CalleeTable, b) = <<>> /\ callee.graph.term[b] # "cond"

ret_bbs_ == SelectSeq(CalleeBlocks, LAMBDA b : ~HasNoInsts(b) /\ callee.graph.term[b] = "ret")

\* One table for both functions, with the names the blocks will have: before the
\* call is inlined its instructions are in lists of their own already.
WithCallee(t) ==
  LET ct == CalleeTable
      n  == Len(t.op)
      Shift(seq)  == [k \in DOMAIN seq |-> n + seq[k]]
      Rename(seq) == [k \in DOMAIN seq |-> NewName(graph, seq[k])]
      Of(b) == CHOOSE c \in ToSet(CalleeBlocks) : NewName(graph, c) = b
  IN  [list   |-> [b \in Ids |-> IF b \in NewNames(graph) THEN Shift(ct.list[Of(b)]) ELSE t.list[b]],
       block  |-> t.block \o Rename(ct.block),
       op     |-> t.op \o ct.op,
       val    |-> t.val \o ct.val,
       inputs |-> t.inputs \o [i \in DOMAIN ct.op |-> Shift(ct.inputs[i])],
       from   |-> t.from \o [i \in DOMAIN ct.op |-> Rename(ct.from[i])],
       users  |-> t.users \o [i \in DOMAIN ct.op |-> Shift(ct.users[i])]]

\* The users of the parameters turn to the arguments.
UpdateDFGParameters(t, call) ==
  FoldLeftDomain(LAMBDA acc, k : HandOverUsers(acc, InstsOf(t, callee_start_bb_)[k], t.inputs[call][k]),
                 t, t.inputs[call])

\* Mutated: the phi's value comes from the block that computes it.
SourceOfValue(t, ret) == t.block[t.inputs[ret][1]]

SourceOfReturn(t, ret) == t.block[ret]

\* A return leaves its block. Where there are several the phi takes their values.
DropReturn(t, ret) == UnlinkInst(RemoveUser(t, t.inputs[ret][1], ret), ret)

UpdateDFGReturns(t, call) ==
  LET rets == [k \in DOMAIN ret_bbs_ |-> Last(InstsOf(t, NewName(graph, ret_bbs_[k])))]
      ret_phi_ == Len(t.op) + 1
      Join(acc, ret) ==
        DropReturn(AddInput(acc, ret_phi_, acc.inputs[ret][1], SourceOfReturn(acc, ret)), ret)
  IN  IF Len(rets) = 1
      THEN HandOverUsers(DropReturn(t, rets[1]), call, t.inputs[rets[1]][1])
      ELSE HandOverUsers(FoldLeft(Join, NewInstOf(t, None, "PHI", 0), rets), call, ret_phi_)

\* The parameters are deleted, and what is left in the start block of the callee goes
\* to the end of the caller's.
MoveConstants(t) ==
  FoldLeft(LAMBDA acc, i : PushBackInst(acc, Start, i),
           [t EXCEPT !.list[callee_start_bb_] = <<>>],
           SelectSeq(InstsOf(t, callee_start_bb_), LAMBDA i : t.op[i] # "PARAM"))

\* The blocks come with their edges, but for the returns, which are gone.
MoveCalleeBlocks(g) ==
  LET cg == callee.graph
      Name(b) == IF b = None THEN None ELSE NewName(g, b)
      Move(acc, b) ==
        [acc EXCEPT !.blocks = @ \cup {Name(b)},
                    !.succs[Name(b)] = [s \in Slots |-> Name(cg.succs[b][s])],
                    !.preds[Name(b)] = {Name(p) : p \in cg.preds[b]},
                    !.term[Name(b)] = IF b \in ToSet(ret_bbs_) THEN "none" ELSE cg.term[b]]
  IN  FoldLeft(Move, g, CalleeBlocks)

\* SplitBasicBlock: the phis stay with what comes after the call.
SplitInsts(t, call, call_block) ==
  LET cont  == t.block[call]
      first == {i \in ToSet(InstsOf(t, cont)) : t.op[i] # "PHI" /\ Position(t, i) <= Position(t, call)}
      kept  == SelectSeq(InstsOf(t, cont), LAMBDA i : i \notin first)
      moved == SelectSeq(InstsOf(t, cont), LAMBDA i : i \in first)
  IN  FoldLeft(LAMBDA acc, i : PushBackInst(acc, call_block, i),
               [t EXCEPT !.list = [@ EXCEPT ![cont] = kept, ![call_block] = <<>>]], moved)

\* The second half of InsertInlinedGraph: the edges into the callee and out of it.
Connected(g, call_block, cont) ==
  LET entered == ReplaceSuccessor(g, call_block, cont, callee_start_bb_)
  IN  FoldLeft(LAMBDA acc, b : AddEdgeTo(acc, NewName(graph, b), cont, FALLTHROUGH), entered, ret_bbs_)

InsertedInsts(t, call, call_block, cont) ==
  LET split == LeaveInputs(SplitInsts(t, call, call_block), call)
  IN  IF Len(ret_bbs_) > 1 THEN PushBackPhi(split, cont, NewestInst(split)) ELSE split

\* What the code asserts, and what it reads through null pointers otherwise.
CanInline(call, moved, call_block) ==
  /\ ~released
  /\ \A b \in ToSet(CalleeBlocks) : ~HasNoInsts(b)
  /\ ret_bbs_ # <<>>
  /\ CanSplit(moved, table.block[call], call_block)

\* What the inlining of call leaves behind that the program did not mean: phis where
\* their sources do not lead, and calls of a function that is no more.
LeftBehind(call) ==
  LET behind == {i \in ToSet(InstsOf(table, table.block[call])) : i # call}
  IN  {d \in {"PHI", "CALL_STATIC"} : \E i \in behind : table.op[i] = d}

-----------------------------------------------------------------------------
StartInlining ==
  /\ BeginPass("Inlining", "inlining",
               SelectSeq(InOrderOf(table, Preorder(graph)), LAMBDA i : table.op[i] = "CALL_STATIC"))
  /\ UNCHANGED inliningVars

\* Mutated: the walk goes on in the second half.
WalkGoesOn(call) == Tail(insts)

\* The call is the last instruction of its block now, and the walk of the block ends.
NextCalls(call) == SelectSeq(Tail(insts), LAMBDA i : table.block[i] # table.block[call])

VisitCALL_STATIC ==
  /\ phase = "inlining" /\ insts # <<>>
  /\ LET call == Head(insts)
         cont == table.block[call]
         moved == MoveCalleeBlocks(graph)
         call_block == Cardinality(moved.blocks)
     IN  IF CanInline(call, moved, call_block)
         THEN /\ graph' = Connected(SplitBlock(moved, cont, call_block), call_block, cont)
              /\ table' = InsertedInsts(
                   MoveConstants(UpdateDFGReturns(UpdateDFGParameters(WithCallee(table), call), call)),
                   call, call_block, cont)
              /\ insts' = NextCalls(call)
              /\ to_delete_' = Append(to_delete_, call)
              /\ released' = TRUE
              /\ deviations' = deviations \cup LeftBehind(call)
              /\ UNCHANGED phase
         ELSE /\ phase' = "undefined"
              /\ UNCHANGED <<graph, table, insts, inliningVars>>
  /\ UNCHANGED <<plan, prog, passes, given>>

InliningDone ==
  /\ phase = "inlining" /\ insts = <<>>
  /\ table' = FoldLeft(UnlinkInst, table, to_delete_)
  /\ to_delete_' = <<>>
  /\ phase' = "idle"
  /\ UNCHANGED <<plan, prog, graph, passes, insts, given, released, deviations>>

InliningNext == StartInlining \/ VisitCALL_STATIC \/ InliningDone
=============================================================================
