----------------------------- MODULE Allocation -----------------------------
(***************************************************************************)
(* pass/linear_scan.cpp as a whole, on the live ranges that were found:    *)
(* every value gets a location, then the inputs of each phi are brought to *)
(* where the phi is, by moves at the end of the blocks they come from.  An *)
(* edge that is not the only one at either end gets a block for that.  The *)
(* ASSERTs of Check and of what it calls lead to the phase aborted.        *)
(*                                                                         *)
(* The loop that finds the locations is LinearScan.  Here it may choose    *)
(* all that it is proved there to keep to until active_ drains; what it    *)
(* does wrong then is not made a second time.                              *)
(*                                                                         *)
(* Bounds: a plan says besides                                             *)
(*   regs     the number of registers                                      *)
(***************************************************************************)
EXTENDS Liveness

VARIABLES
  location,   \* InstBase::location_ of the values that have a live range
  move_map_   \* by block, the moves at its end

allocationVars == <<location, move_map_>>

AllocationInit == location = <<>> /\ move_map_ = <<>>

Location(i) == IF i \in DOMAIN location THEN location[i] ELSE [where |-> "UNSET", slot |-> 0]

-----------------------------------------------------------------------------
RangedValues == {i \in DOMAIN inst_live_ranges_ : table.op[i] \notin NO_USE}

\* Range::IfIntersect
Intersect(i, j) ==
  /\ inst_live_ranges_[i].start < inst_live_ranges_[j].end
  /\ inst_live_ranges_[j].start < inst_live_ranges_[i].end

\* A register that nothing has which lives at the same time, or a slot that nothing
\* else has.
Assignments ==
  LET Stack == plan.regs
      Free(a) == \A i, j \in RangedValues : i < j /\ Intersect(i, j) => a[i] # a[j] \/ a[i] = Stack
  IN  {[i \in RangedValues |->
          IF a[i] = Stack THEN [where |-> "STACK", slot |-> i]
          ELSE [where |-> "REGISTER", slot |-> a[i]]] :
         a \in {a \in [RangedValues -> 0 .. plan.regs] : Free(a)}}

\* By the start of their ranges, those of one block in any order.
PhiOrders ==
  {s \in SetToSeqs({i \in RangedValues : table.op[i] = "PHI"}) :
     \A k \in 1 .. Len(s) - 1 : inst_live_ranges_[s[k]].start <= inst_live_ranges_[s[k + 1]].start}

StartAllocation ==
  /\ \E order \in PhiOrders : BeginPass("LinearScan", "connect", order)
  /\ location' \in Assignments
  /\ move_map_' = [b \in Ids |-> <<>>]
  /\ UNCHANGED <<inliningVars, redundant_checks_, dceVars, livenessVars>>

-----------------------------------------------------------------------------
\* Mutated: a block with several successors is asked for at both ends.
BranchesAtBothEnds(g, from, to) == GetNumSuccessors(g, from) > 1 /\ GetNumSuccessors(g, to) > 1

IsCriticalEdge(g, from, to) == GetNumSuccessors(g, from) > 1 /\ Cardinality(g.preds[to]) > 1

\* The input that FixCriticalEdge is told of may not be the one that needs the block:
\* the loop does not count the inputs that it skips.
FixedInput(c) == c.input_idx

\* Mutated: the phi does not hear of the new block.
KeepsSource(t, phi, idx, bb) == [t EXCEPT !.users[t.inputs[phi][idx]] = Append(@, phi)]

\* The users of the input get the phi once more.
SetPhiInput(t, phi, idx, bb) ==
  [t EXCEPT !.from[phi][idx] = bb, !.users[t.inputs[phi][idx]] = Append(@, phi)]

\* In c: the graph, the table, the moves, the next input_idx, and whether all ASSERTs held.
FixCriticalEdge(c, phi) ==
  LET idx  == FixedInput(c)
      to   == c.table.block[phi]
      from == c.table.from[phi][idx]
      fix  == Cardinality(c.graph.blocks)
      g    == NewBlock(c.graph, fix, "none")
  IN  IF IsCriticalEdge(c.graph, from, to) /\ CanInsertBlock(g, fix, from, to)
      THEN [c EXCEPT !.graph = InsertBlock(g, fix, from, to), !.move_bb = fix,
                     !.table = SetPhiInput(@, phi, idx, fix)]
      ELSE [c EXCEPT !.ok = FALSE]

\* One turn of the loop over the inputs the phi had at first.
ConnectInput(c, phi, k) ==
  LET input == table.inputs[phi][k]
      src   == table.from[phi][k]
      fixed == IF IsCriticalEdge(c.graph, src, table.block[phi])
               THEN FixCriticalEdge(c, phi) ELSE [c EXCEPT !.move_bb = src]
  IN  IF ~c.ok \/ Location(input) = Location(phi) THEN c
      ELSE IF ~fixed.ok THEN fixed
      ELSE [fixed EXCEPT !.input_idx = @ + 1,
              !.moves[fixed.move_bb] = Append(@, [from |-> Location(input), to |-> Location(phi)])]

ConnectPhi ==
  /\ phase = "connect" /\ insts # <<>>
  /\ LET phi == Head(insts)
         c   == FoldLeftDomain(LAMBDA acc, k : ConnectInput(acc, phi, k),
                  [graph |-> graph, table |-> table, moves |-> move_map_,
                   input_idx |-> 1, move_bb |-> None, ok |-> TRUE],
                  table.inputs[phi])
     IN  /\ graph' = c.graph /\ table' = c.table /\ move_map_' = c.moves
         /\ phase' = IF c.ok THEN phase ELSE "aborted"
  /\ insts' = Tail(insts)
  /\ UNCHANGED <<plan, prog, passes, given, inliningVars, redundant_checks_, dceVars,
                 livenessVars, location>>

\* The move of an input is taken to be the first one that starts where the input is.
CheckInput(b, phi, k) ==
  LET src   == table.from[phi][k]
      here  == Location(table.inputs[phi][k])
      first == SelectInSeq(move_map_[src], LAMBDA m : m.from = here)
  IN  /\ src \in graph.preds[b]
      /\ b \in SuccSet(graph, src)
      /\ Location(phi) = IF first # 0 THEN move_map_[src][first].to ELSE here

Check ==
  \A b \in Reachable(graph) : \A phi \in ToSet(PhisOf(table, b)) :
    \A k \in DOMAIN table.inputs[phi] : CheckInput(b, phi, k)

EndAllocation ==
  /\ phase = "connect" /\ insts = <<>>
  /\ phase' = IF Check THEN "idle" ELSE "aborted"
  /\ UNCHANGED <<otherVars, table, passes, insts, redundant_checks_, dceVars, livenessVars,
                 allocationVars>>

AllocationNext == StartAllocation \/ ConnectPhi \/ EndAllocation

-----------------------------------------------------------------------------
\* What is where at the end of block m before its moves, of what is needed later, and
\* after them: they are made one after the other.
Contents(m) ==
  LET needed == {v \in DOMAIN location : LivesOutOf(v, m)}
      before == [l \in Range(location) |->
                   IF \E v \in needed : location[v] = l
                   THEN CHOOSE v \in needed : location[v] = l ELSE None]
  IN  FoldLeft(LAMBDA c, move : [c EXCEPT ![move.to] = c[move.from]], before, move_map_[m])

\* Along the edges from m each phi gets its input, and what else lives on stays.
Delivers(m) ==
  LET contents == Contents(m)
  IN  \A s \in SuccSet(graph, m) :
        /\ \A phi \in ToSet(PhisOf(table, s)) : \A k \in DOMAIN table.from[phi] :
             table.from[phi][k] = m => contents[location[phi]] = table.inputs[phi][k]
        /\ \A v \in DOMAIN location : contents[location[v]] = v \/ ~LivesInto(v, s)

\* A move puts something where a later one takes its own from.
Overwrites(m) ==
  \E i, j \in DOMAIN move_map_[m] : i < j /\ move_map_[m][i].to = move_map_[m][j].from

Allocated == passes # plan.passes /\ phase = "idle" /\ location # <<>>

\* Where the moves of a block do not overwrite each other's sources, as those of a
\* single phi never do, every phi that Check has let pass gets its input on each way
\* to it, and no other value that is needed is lost; and Check lets some pass that
\* do not get theirs, as it does not look at the order of the moves.
MovesFeedPhis == Allocated => \A m \in Reachable(graph) : Delivers(m) <=> ~Overwrites(m)

-----------------------------------------------------------------------------
AllPhis == {i \in Linked(given) : given.op[i] = "PHI"}

\* No instruction uses it, so that it has no location.
Unused(phi) == phi \notin DOMAIN location

Shares(phi) == \E q \in AllPhis \ {phi} : given.block[q] = given.block[phi]

\* An input that is in place comes before one that needs a block of its own.
CountsWrong(phi) ==
  \E k, n \in DOMAIN given.inputs[phi] :
    /\ k < n
    /\ Location(given.inputs[phi][k]) = Location(phi)
    /\ Location(given.inputs[phi][n]) # Location(phi)
    /\ IsCriticalEdge(plan.graph, given.from[phi][n], given.block[phi])

\* Allocation is aborted for each phi that is not used, and for each that has an input
\* in its place before one that comes over a critical edge; for others only if there
\* are several in a block.
AbortsForPhisOnly ==
  /\ phase = "aborted" => \E phi \in AllPhis : Unused(phi) \/ CountsWrong(phi) \/ Shares(phi)
  /\ Allocated => \A phi \in AllPhis : ~Unused(phi) /\ ~CountsWrong(phi)
=============================================================================
