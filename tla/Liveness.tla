------------------------------ MODULE Liveness ------------------------------
(***************************************************************************)
(* pass/liveness_analysis.cpp, from the order of the blocks on: the        *)
(* instructions are numbered, and one sweep from the last block to the     *)
(* first finds the range of numbers in which each value lives.  Values     *)
(* that live around a loop are given the whole loop at its header.         *)
(*                                                                         *)
(* The graph is one that the loop analysis leaves: natural loops with one  *)
(* back edge, entered through one block. Which block is in which loop is   *)
(* taken from the definition, as Layout shows that the analysis does. That *)
(* the start block itself may stand before a header, where the analysis    *)
(* would put an empty block between the two, makes no difference to ranges.*)
(***************************************************************************)
EXTENDS Dce, BlockQueue

VARIABLES
  linear_blocks_,      \* the blocks in the order of LinearizeBlocks
  inst_live_numbers_,  \* by instruction
  bb_live_ranges_,     \* by block
  bb_live_sets_,       \* by block: what lives at its start, once the sweep was there
  inst_live_ranges_    \* by instruction, as far as there are any

livenessVars ==
  <<linear_blocks_, inst_live_numbers_, bb_live_ranges_, bb_live_sets_, inst_live_ranges_>>

LivenessInit ==
  /\ linear_blocks_ = <<>>
  /\ inst_live_numbers_ = <<>> /\ inst_live_ranges_ = <<>>
  /\ bb_live_ranges_ = <<>> /\ bb_live_sets_ = <<>>

LIVE_NUMBER_STEP == 2

PhisOf(t, b)  == SelectSeq(InstsOf(t, b), LAMBDA i : t.op[i] = "PHI")
OthersOf(t, b) == SelectSeq(InstsOf(t, b), LAMBDA i : t.op[i] # "PHI")

-----------------------------------------------------------------------------
\* The one back edge of a natural loop, and its blocks.
BackEdgesTo(g, h) == {b \in g.preds[h] : BlockDominates(g, h, b)}

LoopOf(g, h) ==
  {b \in Reachable(g) : b = h \/ BackEdgesTo(g, h) \cap ReachAvoiding(g, b, {h}) # {}}

\* Loops go by their headers, the root by the start block.
NaturalNest(g) ==
  LET headers == {h \in g.blocks : BackEdgesTo(g, h) # {}}
      Innermost(hs) ==
        IF hs = {} THEN Start ELSE CHOOSE h \in hs : \A k \in hs : h \in LoopOf(g, k)
      Around(b) == {h \in headers : b \in LoopOf(g, h)}
  IN  [headers    |-> headers,
       loop       |-> [b \in Ids |-> Innermost(Around(b))],
       outer      |-> [h \in headers \cup {Start} |->
                         IF h = Start THEN None ELSE Innermost(Around(h) \ {h})],
       dominators |-> [b \in Ids |-> {d \in g.blocks \ {b} : BlockDominates(g, d, b)}]]

-----------------------------------------------------------------------------
\* The phis have the number of the start of their block.
Numbering(t, bbs) ==
  LET Number(acc, b) ==
        LET others == OthersOf(t, b)
            start  == acc.live_number
            end    == start + LIVE_NUMBER_STEP * (Len(others) + 1)
        IN  [live_number |-> end,
             insts  |-> [i \in ToSet(PhisOf(t, b)) |-> start]
                          @@ [i \in ToSet(others) |->
                                start + LIVE_NUMBER_STEP * SelectInSeq(others, LAMBDA j : j = i)]
                          @@ acc.insts,
             blocks |-> (b :> [start |-> start, end |-> end]) @@ acc.blocks]
  IN  FoldLeft(Number, [live_number |-> 0, insts |-> <<>>, blocks |-> <<>>], bbs)

\* ResetState, LinearizeBlocks and Init.
StartLiveness ==
  /\ BeginPass("LivenessAnalysis", "liveness", <<>>)
  /\ linear_blocks_' = LinearizeBlocks(graph, NaturalNest(graph))
  /\ inst_live_numbers_' = Numbering(table, linear_blocks_').insts
  /\ bb_live_ranges_' = Numbering(table, linear_blocks_').blocks
  /\ bb_live_sets_' = [b \in graph.blocks |-> {}]
  /\ inst_live_ranges_' = <<>>
  /\ blocks' = Reverse(linear_blocks_')
  /\ UNCHANGED <<inliningVars, redundant_checks_, marked>>

\* Range::Union fills what is between.
AddLiveRange(ranges, i, start, end) ==
  IF i \notin DOMAIN ranges THEN (i :> [start |-> start, end |-> end]) @@ ranges
  ELSE [ranges EXCEPT ![i] = [start |-> Min({@.start, start}), end |-> Max({@.end, end})]]

\* What lives at the starts of the successors, and what their phis take from here.
InitialLiveSet(b) ==
  UNION {bb_live_sets_[s] \cup
           UNION {{table.inputs[phi][k] : k \in {k \in DOMAIN table.from[phi] : table.from[phi][k] = b}} :
                    phi \in ToSet(PhisOf(table, s))} :
           s \in SuccSet(graph, b)}

\* From the last instruction of the block to the first: its range starts, and its
\* inputs live from the start of the block up to it.
Backwards(b, acc, i) ==
  LET n   == inst_live_numbers_[i]
      own == IF i \in DOMAIN acc.ranges THEN [acc.ranges EXCEPT ![i].start = n]
             ELSE AddLiveRange(acc.ranges, i, n, n + LIVE_NUMBER_STEP)
  IN  [set    |-> (acc.set \ {i}) \cup ToSet(table.inputs[i]),
       ranges |-> FoldLeft(LAMBDA r, input : AddLiveRange(r, input, bb_live_ranges_[b].start, n),
                           own, table.inputs[i])]

\* Mutated: the values that live around a loop get no more than they have.
NothingAroundLoop(b, set, ranges) == ranges

\* At a header, what lives there lives to the end of the block of the back edge.
AroundLoop(b, set, ranges) ==
  IF BackEdgesTo(graph, b) = {} THEN ranges
  ELSE LET bck == CHOOSE x \in BackEdgesTo(graph, b) : TRUE
       IN  FoldSet(LAMBDA i, r : AddLiveRange(r, i, bb_live_ranges_[b].start, bb_live_ranges_[bck].end),
                   ranges, set)

CalculateLiveRanges ==
  /\ phase = "liveness"
  /\ blocks # <<>>
  /\ LET b     == Head(blocks)
         range == bb_live_ranges_[b]
         first == InitialLiveSet(b)
         whole == FoldSet(LAMBDA i, r : AddLiveRange(r, i, range.start, range.end),
                          inst_live_ranges_, first)
         acc   == FoldLeft(LAMBDA a, i : Backwards(b, a, i), [set |-> first, ranges |-> whole],
                           Reverse(OthersOf(table, b)))
         set   == acc.set \ ToSet(PhisOf(table, b))
     IN  /\ bb_live_sets_' = [bb_live_sets_ EXCEPT ![b] = set]
         /\ inst_live_ranges_' = AroundLoop(b, set, acc.ranges)
  /\ blocks' = Tail(blocks)
  /\ UNCHANGED <<otherVars, table, phase, passes, insts, redundant_checks_, marked,
                 linear_blocks_, inst_live_numbers_, bb_live_ranges_>>

LivenessDone ==
  /\ phase = "liveness"
  /\ blocks = <<>>
  /\ phase' = "idle"
  /\ UNCHANGED <<otherVars, table, passes, insts, redundant_checks_, dceVars, livenessVars>>

LivenessNext == StartLiveness \/ CalculateLiveRanges \/ LivenessDone

-----------------------------------------------------------------------------
\* Where values are used: by an instruction, at its number, and by a phi, at the end
\* of the block that its input comes from.
UsersIn(v, b) == {i \in ToSet(OthersOf(table, b)) : v \in ToSet(table.inputs[i])}

FeedsPhiFrom(v, b) ==
  \E s \in SuccSet(graph, b) : \E phi \in ToSet(PhisOf(table, s)) :
    \E k \in DOMAIN table.from[phi] : table.from[phi][k] = b /\ table.inputs[phi][k] = v

\* From the start of b control can get to a use without passing the definition.
LivesInto(v, b) ==
  b # table.block[v] /\
    \E u \in ReachAvoiding(graph, b, {table.block[v]}) : UsersIn(v, u) # {} \/ FeedsPhiFrom(v, u)

LivesOutOf(v, b) == FeedsPhiFrom(v, b) \/ \E s \in SuccSet(graph, b) : LivesInto(v, s)

\* The numbers from which on, and before the next, v is there and will be used.
LiveNumbers(v) ==
  LET NeededAfter(b, n) == LivesOutOf(v, b) \/ \E i \in UsersIn(v, b) : inst_live_numbers_[i] > n
      Numbers(b) == {bb_live_ranges_[b].start}
                      \cup {inst_live_numbers_[i] : i \in ToSet(OthersOf(table, b))}
  IN  UNION {{n \in Numbers(b) :
                /\ IF b = table.block[v] THEN inst_live_numbers_[v] <= n ELSE LivesInto(v, b)
                /\ NeededAfter(b, n)} : b \in ToSet(linear_blocks_)}

\* What has a result must have a place to put it.
Occupies(v) == LiveNumbers(v) \cup (IF table.op[v] = "PHI" THEN {} ELSE {inst_live_numbers_[v]})

RangesAreHulls ==
  \A v \in DOMAIN inst_live_numbers_ :
    LET n == Occupies(v)
    IN  IF n = {} THEN v \notin DOMAIN inst_live_ranges_
        ELSE inst_live_ranges_[v] = [start |-> Min(n), end |-> Max(n) + LIVE_NUMBER_STEP]

\* Every loop comes to its end with its back edge.
BackEdgesLast ==
  \A h \in NaturalNest(graph).headers : \A b \in LoopOf(graph, h), x \in BackEdgesTo(graph, h) :
    bb_live_ranges_[b].end <= bb_live_ranges_[x].end

Live == phase = "liveness" /\ blocks = <<>>

\* The range of a value goes from the first number to the last at which some path leads
\* from its definition to a use, around loops as well, and not further: as long as no
\* loop has blocks listed behind its back edge. A phi that is not used has none.
LiveRangesExact == Live /\ BackEdgesLast => RangesAreHulls

\* The register allocator takes a value to be gone outside of its range: at no point is
\* a value that will be used outside. The comment in front of LinearizeBlocks says that
\* its order is one that satisfies the criteria of the analysis.
LiveRangesCover ==
  Live => \A v \in DOMAIN inst_live_numbers_ : \A n \in LiveNumbers(v) :
            v \in DOMAIN inst_live_ranges_ /\ n \in inst_live_ranges_[v].start .. inst_live_ranges_[v].end - 1
=============================================================================
