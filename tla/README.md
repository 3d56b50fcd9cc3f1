# compiler-opts in TLA+

Models, model-checking configurations and machine-checked proofs for the compiler in `src/`: a control-flow graph
in SSA form, the analyses and optimisations that run on it, and the markers they share. The modules are translated
from the code; the tests and comments were read for what is expected of it. `PROJECT.json` lists which lines each
definition stands for, the runs, the mutants that show a property can fail, and the theorems.

Everything here is a single-threaded program. What makes it hard is not interleaving but *history*: data
structures with redundant ends (edges, def-use), cached analyses that must be dropped at the right moment, passes
that run inside passes, iteration over copies of what is being changed, and algorithms whose mistakes only show on
particular graphs.

## 1. The system

| Part (src/) | State | Operations | Uses / used by |
|---|---|---|---|
| markers (`utils/marker`) | slot tracker, generation counter, one cell per slot in every markable object | take and drop a marker, set, clear, probe a mark | every walk over blocks or instructions |
| graph (`ir/graph`, `ir/bb`) | block vector (null after a destruction), successor slots, predecessor lists, instruction lists | new block, add/insert/replace/swap/split/destroy | edited by builder and passes; each edit calls the pass manager |
| instructions (`ir/inst`, `isa`) | inputs and users (both ends of def-use), location, condition code | new, replace/remove input, add/remove user, invert | built from compile-time tables |
| pass manager (`pass/pass*.h`) | `is_valid_` of each pass | run, get valid, invalidate | passes call it while they run |
| traversals (`po`, `rpo`, `dfs`, `bfs`) | list of blocks | run | requested by nearly all others |
| dominator tree | Lengauer-Tarjan nodes; immediate dominators in the blocks | run | loops, liveness, check elimination |
| loop analysis (`loop_analysis`, `ir/loop`) | loops, loop tree | run; splits back edges, adds pre-headers | linear order, liveness |
| linear order | `linear_bb_` | run; inverts branches, inserts jumps | code generation (to come) |
| liveness analysis | block order, live sets, live ranges | run | linear scan |
| linear scan | ranges, active ranges, register map, moves | run; splits critical edges | - |
| DCE, check elimination, peepholes, inlining, DBE | - | run; delete or rewrite instructions and blocks | requested from outside |
| graph builder | maps of successors and inputs | new block/instruction, construct, check | tests, front ends |

What makes each part correct, in one line: markers behave like private sets; both ends of every edge and use
agree; nothing stale is handed out; a traversal lists each reachable block once in an order others rely on;
dominators are dominators; loops are the natural loops and end up with one back edge and a pre-header; the layout
does what the graph says; live ranges cover every use; two values that are live together do not share a place; and
an optimisation changes no behaviour. The hazards behind these, with their lines, are in `PROJECT.json`.

## 2. Modules

    MarkSets <--refined by-- Marker ............... MarkerProofs      MCMarker
    FlowGraph ..................................... FlowGraphProofs
      +-- Cfg ..................................... CfgProofs         MCCfg
      +-- CfgShapes   (whole graphs; reachability, dominance and the
            |          depth-first orders by definition)
            +-- Traversal
            |     +-- DomTree ..................... DomTreeProofs     MCDomTree
            +-- Dbe ............................... DbeProofs         MCDbe
            +-- BlockQueue   (the order of the blocks for liveness)
            +-- Loops  LinearOrder
            |     +-- Layout = Loops, then BlockQueue or LinearOrder
            |         ........................... LayoutProofs      MCLayout  (+ SmallGraphs)
            +-- Insts  (instructions, def-use)
                  +-- Meaning  (what a program does)
                        +-- Builder
                              +-- Inlining -- Peepholes -- CheckElim -- Dce
                                    +-- Liveness (+ BlockQueue) -- Allocation
                                          +-- Pipeline                MCPipeline
    LinearScan .................................... LinearScanProofs  (run directly)
    Passes ........................................ PassesProofs      (run directly)

**MarkSets / Marker.** `MarkSets` is what a user of markers believes: a marker in scope owns a set of marked
objects that starts empty and that nobody else changes. `Marker` is the code: `slot_tracker_`, the counter of
`NewGen` with its skip of `GEN_UNSET`, and per object one generation per slot. A *scope* is one `Marker` object;
an object may be marked with several at once. The refinement mapping reads the cell that holds the scope's
generation. `ImplementsMarkSets` is the refinement up to the point where the counter has wrapped, beyond which an
old mark can be mistaken for a new one (2^32 - 1 markers later in the code, 2^w - 1 in the model).

**FlowGraph / Cfg.** `FlowGraph` has one operator per editing operation of `ir/graph.cpp`, each with its
precondition: the conjunction of the `ASSERT`s on its way. A graph is a record of the live blocks, successor
slots, predecessors and what the last instruction says about the number of successors. `Cfg` is the machine that
applies them in any order, with condition codes and the validity of one edge-sensitive analysis. An operation
whose assertion would fail is not enabled. `preds_` is a set, because the code asserts that it has no duplicates
and never uses its order.

**CfgShapes, Traversal, DomTree, Dbe.** These take a graph the builder may have made and run one pass on it step
by step; the input graph is the nondeterminism. Recursive functions are explicit stacks of activation records, so
that their intermediate states are states of the model. `CfgShapes` has the reference definitions that results are
compared with: reachability and dominance as sets closed under taking successors, and the two orders of a
depth-first walk, as one list of what the walk still has to look at. Graphs cannot have an edge to the start block
(a block without predecessors *is* the start block for the code), nor a branch with equal targets
(`AddPredecessor` asserts it away). What the proofs need of the graphs is in the assumption of each module,
`InputsAssumption`: edges lead to blocks that exist and no branch has two equal targets; for `Dbe` also that both
ends of each edge agree and that a block has the successors its last instruction asks for, as
`GraphBuilder::SetSuccessors` leaves it; `Loops` has an assumption of the same kind, and says also that no edge
leads to the start block.

**Loops, LinearOrder, BlockQueue, Layout.** `Loops` is the first run of the loop analysis on a graph:
`CollectBackEdges` as a stack of activation records, one action per loop split, per pre-header and per loop
populated. Loops are positions in `loops_`; `inner_loops_` is the inverse of `outer_loop_` and left out; the phis
that `PropagatePhis` rewrites are not modelled, its assertions about loops are. Splitting appends to the vector
that a range-for is walking; where the elements have been moved by then, the model enters the phase `undefined`
and claims nothing. New blocks take their ids from the finite set `Ids`; the guards `CanNewBlock` say that there is
one left, which is no condition in the code. Failed assertions of `Check` lead to the phase `aborted`, others would
be deadlocks.
`BlockQueue` is `LivenessAnalysis::LinearizeBlocks`, one block per turn, with `Loop::Inside` and the case that its
walk does not come to an end. `LinearOrder` is the layout of the code, and defines a little machine, `RunsInto`,
that knows only jumps, taken branches and the next block in memory. `Layout` composes them: whatever the loop
analysis has left, wrong loops, several entries and dominators that miss the pre-headers included, is what the
order of the blocks or the layout is made from.

**Insts, Meaning, Builder.** `Insts` is a table of instructions: the lists of the blocks, and by instruction its
block, opcode, inputs and users, the last two being the two ends of def-use that the code keeps by hand (`inputs_`
and `users_`, a user once per time it was entered; `RemoveUser` takes all entries of a user). Instructions are
destroyed when they are unlinked, so an instruction that is in no list is freed memory. Opcodes with the same
flags are represented by one of them. `Builder` makes every program within a *plan* (a graph, a length, some
opcodes) the way a front end does, one instruction after the other, the inputs of phis last; programs are in SSA
form, as `RunChecks` demands of phis: what is used dominates the use. `Meaning` is not in the source, where
opcodes have names only: it is an interpreter that takes the names at their word, on integers of a few bits. Which
way a branch goes is an input of the run, so that a property about all runs is one about all ways through the
graph. What can be seen of a run are the calls it makes, the check that stops it and what it returns.

**Inlining, Peepholes, CheckElim, Dce, Pipeline.** The passes that rewrite instructions, on one table, in the
order the plan says, so that each meets what the ones before it have left. `Inlining` has the callee's
instructions in the same table from the start; its blocks, edges, constants and returns are moved over as the code
does, and the call's block is split. `Peepholes` has the rules in the order they are tried. `CheckElim` is the
visitor and the deletion of what it has put down, `Dce` the marking and the sweep. What a pass touches although it
is freed is a phase of its own: `deletedTwice`, which is never reached, `touchesFreed` and `undefined`, which are
(section 4). Dominators are those of the definition, because the code's are shown to be the same
(`ImmDominatorsRight`, section 5); blocks that cannot be reached have none, and the passes leave them alone. The blocks that the loop analysis, which check
elimination requests, may insert hold no checks and change no dominance between the others; they and the phis it
moves to them are left out. The graph visitor has no module: it is a dispatch table, and its order the list
`insts` that the visiting passes work through.

**Liveness, Allocation.** `Liveness` goes on where `BlockQueue` ends: the numbering, and the backward sweep with
its live sets and ranges, one action per block. It starts from natural loops with one back edge each, which is
what `Layout` shows that the loop analysis leaves. `Allocation` is the rest of `linear_scan.cpp`: locations, the
moves into phis, the blocks on critical edges, `Check`. The locations are chosen nondeterministically from
everything the theorems about `LinearScan` allow until `active_` drains: registers that are exclusive, stack slots
that are private. So what is shown of the moves does not rest on which register the loop happens to take first.

**LinearScan.** The allocation loop, one action per live range, for every list of ranges sorted by start: expiry,
register choice, spilling. Where the code's `active_` and `reg_map_` part company is part of the model.

**Passes.** The pass manager and every pass, reduced to the steps that concern other passes: markers taken, passes
requested, edges edited, results computed, `SetValid`, dominators used. The stack is the stack of `Run` functions,
each the name of its pass, the number of its next step in `Steps` and the markers it holds; `in_use` counts the
slots of `slot_tracker_`. Three kinds of edits are told apart, because the dominator tree is in fact used after
one of them.

## 3. Runs

| Run | Question | Bounds, and why they are enough |
|---|---|---|
| `marker` | Are slots owned exactly, and do slots and generations implement private sets? | 3 scopes for 2 slots (one must wait), 2-bit generations so that the counter wraps, 2 objects |
| `cfg` | Do the edits keep the two ends of edges, hidden slots, dangling edges, validity, paths and branch meaning in order? | 4 blocks: a branch, its targets and one block to insert, split or destroy; all six condition codes to start from, two for each of the three blocks that may end in a branch, so that each is inverted, and inverted back |
| `dom_tree` | Are the four orders what others rely on, and does every intermediate result of the dominator tree agree with its definition? | all graphs of 5 blocks up to renaming: diamonds, loops with two entries, unreachable blocks; with 4 a semidominator is always the dominator or compression never takes two steps |
| `dbe` | Does it keep paths, remove what is empty, and abort only where paths meet? | all graphs of 4 blocks, every choice of empty blocks |
| `layout` | Are the loops the natural loops, entered through pre-headers, paths kept? Does the layout run the program? Is every block listed for liveness, in an order that fits? | all graphs of 4 blocks, those of 5 without single-block loops, those of 3 with another block that cannot be reached and leads anywhere, and 12 of 6: two back edges to one header inside another loop, loops with two entries, three back edges to one header with another loop behind, where the storage of `loops_` moves; 6 blocks for a branch between laid-out blocks with others to come; jumps already present or not; deadlock is checked |
| `rewriting` | Do both ends of def-use and the phis stay right, which calls are inlined, and does the program do what it did? | peepholes: 5 instructions in a line (a difference of two, a sum, what is returned) with constants 0 and 3, 4 in a loop, where users are phis; all passes: 4 instructions around a call in a loop and on one side of a branch, with callees that return once, twice, or have an empty block. Integers of 3 bits: all of them are arguments, and some are no immediates |
| `cleanup` | Do the right checks and instructions go, when does the sweep touch freed memory? Are live ranges exact, do moves feed the phis, when does the allocator abort? | 4 instructions on a loop, a diamond and a graph with an unreachable block: a constant, a phi, what it takes over the back edge and what needs it; 5 for `CHECK_SIZE` (an array, two indices, two checks); constants 0 and 1, so that two may be equal. Allocation: 3 instructions with 2 registers on a diamond, a loop and two nested ones, 4 on a loop left at its end, whose back edge is critical |
| `passes` | Do four markers suffice, and is what a pass gets up to date? | nothing bounded: requests and edits in any order, the state space is finite |
| `linear_scan` | Do values get places of their own? | 5 ranges in 6 points, 2 registers: spilling needs 3 live at once, the double release 3 ranges in a row |
| `linear_scan_shared`, `subtractions`, `live_ranges_short` | What the code does otherwise than it says (section 4) | the smallest instance with a counterexample |

The traversals are checked in `dom_tree`, whose walk `FillTree` goes on from the list of DFS. Type invariants are
not checked by the runs: those of the modules with proofs are proved, and the deeper properties of the others fail
on any badly typed state.

The runs with `CHECK_DEADLOCK FALSE` are of passes that come to an end, of graphs that fill their ids, or of
counters that reach their bound. `layout` and `passes` check deadlock: there it means that an assertion failed.

Each property is violated by a mutant of the code it is about: a definition replaced by what a plausible slip
would have made of it, kept next to the definition and marked *Mutated*. Nothing uses the mutants otherwise.

**Fairness.** `LayoutSpec` assumes weak fairness of `PlaceBlock`, the turn of the loop in `LinearizeBlocks`, and
of nothing else: the loop runs in the only thread there is, and a turn is all it can do next, so it is taken.
`EveryBlockListed` says with that alone that the loop ends with every reachable block listed, if the graph is
reducible, has no single-block loops, and no edge leads from a block that cannot be reached to one that can;
without these conditions it does not. Other passes are as sequential, and
their steps as forced; where a result must be there at the end, the property speaks of the final state, and no
fairness is needed.

## 4. What the runs showed

Where the repository says otherwise, a run of its own finds the violation:

* **`linear_scan_shared`.** `ExpireOldIntervals` leaves the last expired range in `active_` when all of them have
  expired, with its register released; it is released again by the next call, when the register may belong to a
  live value. Three ranges, [0,1), [1,2), [1,2), give two live values register 0 (`linear_scan.cpp:109-123`).
  `linear_scan` says what is true nevertheless: registers are exclusive until `active_` has been drained once.
* **`subtractions`.** (a - b) + b becomes b: the rule takes the input of the SUB at the index that says which
  input of the ADD is the common one (`peepholes.cpp:197`). With b + (a - b) the result is a, as the comment says.
* **`live_ranges_short`.** What lives around a loop is given a range up to the end of the block of its back edge.
  If the outer back edge starts in the header of an inner loop, the other blocks of the inner loop are listed
  behind it, and there the value has no range, although it will be used (`liveness_analysis.cpp:177-186`).
  `LiveRangesExact` says that ranges are exact whenever no loop has blocks listed behind its back edge.

Behaviour of the code that the properties state exactly, though nothing in the repository says otherwise:

* **Dead block elimination** can fail an assertion when an empty block has two predecessors, or when the branch above
  it leads to its successor already: an `if` without `else` whose body is empty (`dbe.cpp:38-46`).
  `AbortsAtMergesOnly` says that it does nowhere else, not that it always does there.
* **Single-block loops.** `RunLoopSearch` does not look at the mark of the block it is called for, and a block
  that is its own successor is its own back edge: the search starts in the header and leaves the loop at once, so
  that the blocks in front become part of the loop, up to the start block (`loop_analysis.cpp:78-105`). A loop
  around it becomes its inner and its outer loop, on which `Loop::Inside`, and with it the order of the blocks for
  liveness, does not terminate (the phase `endless`). `LoopsNestAsInGraph` says that the tree of loops is right
  exactly when there is no such block, irreducible graphs included, and a theorem says it of all graphs;
  `OrderFitsLiveness` says that nothing else makes the order endless.
* **Blocks that cannot be reached.** When one leads into a loop, the search, which goes against all edges, takes
  it in, and `LoopAnalysis::Check`, which counts the blocks that can be reached, fails its assertion
  (`loop_analysis.cpp:287-316`; first conjunct of `LoopsNestAsInGraph`: with single-block loops that is all that can
  make it fail). And a block that one leads to is never listed for liveness: it waits for its predecessor
  (`DeadEdges` in `OrderFitsLiveness` and `EveryBlockListed`). Where all others are listed nevertheless,
  `CheckLinearOrder` has a table with an entry for each listed block and indexes it by ids, of which the block that
  cannot be reached has one too: if a larger one is listed, an inserted pre-header say, it writes past the end
  (`liveness_analysis.cpp:95-99`; the phase `pastEnd`, of which `OrderFitsLiveness` says that it takes such a block).
* **Irreducible graphs.** `CheckLinearOrder` fails for them, and for such edges, only.
* **Inlining** does one call. Others in the same block stay, calling a function that is gone; with calls in other
  blocks it goes on with a callee that has no start block any more, and a block without instructions in the callee
  is asked for its last instruction (`FirstCallInlined`). When the block of the call has phis, they end up in the
  half that control does not come to from their sources (`PhisWrongAtCallsOnly`).
* **Peepholes.** x + x becomes x shifted by *two* (`SHLI` with 2), and a constant becomes a floating-point
  immediate, which rounds large ones. With the wrong difference above, and with inlining as described, these are
  all the deviations there are: `SameBehaviour` says that a program for which none was made does what it did.
* **Dead code elimination** goes through the blocks in postorder and tells the inputs of a dead instruction that
  it is no user any more. A dead phi at a loop header may take a dead value of the loop, which an earlier block's
  turn has destroyed: `RemoveUser` is called on freed memory (`dce.cpp:50-55`). A variable that is updated in a
  loop and read nowhere else does it. `TouchesFreedInLoopsOnly` says that it happens for such programs, always,
  and for no others but what inlining left with wrong phis.
* **Register allocation** aborts for a phi that nobody uses (it has no range and so no location), and for one that
  has an input already in place before one that comes over a critical edge: inputs that are skipped are not
  counted, and the edge of another input is looked at (`linear_scan.cpp:91`). Otherwise it aborts only where a
  block has several phis, as the others still name the edge that was replaced (`AbortsForPhisOnly`). The moves of
  a block are made one after the other and may overwrite what a later one reads; `Check` lets that pass.
  `MovesFeedPhis` says that the phis get their values exactly where that does not happen.

Noted while reading and not shown by a run: the dominator tree cannot be computed again once a block was destroyed
(`ClearDominators` follows null pointers); liveness stays valid when instructions are deleted; with `NDEBUG`,
`GetValidPass` runs nothing, because the call is inside `ASSERT` (`pass_manager.h:31`); `SpillAtInterval` reads
the back of an empty list if there are no registers (`linear_scan.cpp:127`); `CheckLinearOrder` writes past the
end of its table also when a block was destroyed, whose id is not given out again; `RunChecks` walks phis backwards from the first (`graph_builder.cpp:267`); and
others, at their lines in `PROJECT.json`.

## 5. Proofs

The modules `*Proofs` are checked by TLAPS with Z3, Zenon and LS4, for every value of the constants that satisfies
the named assumptions of the modules they extend: `MarkerAssumption`, `FlowGraphAssumption` and `FiniteIds` (the
block vector is finite), `CfgAssumption`, the `InputsAssumption` of `Traversal`, of `Dbe` and of `Loops` (section 2),
`NullLoopAssumption` (the null `Loop*` is the position of no loop), `LinearScanAssumption`, `PassesAssumption` (three
marker slots at least). TLC evaluates each of them in some run.

* **Markers.** `TypeCorrect`, `GenNeverUnset`, `SlotOwnership`: the tracker holds exactly the slots of the markers
  in scope, no two share one, none has generation `GEN_UNSET`, for any number of slots and any width.
  `MarkerRefinesMarkSets` is the refinement. Its inductive invariant says, besides the above, that until the
  counter wraps every generation in a cell or in a scope is at most the counter and that scopes have distinct
  generations: only then is a new generation in nobody's cell, which is why a new set is empty.
* **Graph.** `FlowGraphProofs` proves for each operation that, where its assertions hold, it leaves a graph that
  is well typed, symmetric, without hidden slots, without dangling edges and without two equal successors. The
  five need each other: replacing a successor keeps symmetry only if the replaced block is in one slot (no equal
  successors), and destroying keeps dangling edges out only because emptiness of the visible slots means emptiness
  of all (no hidden slots). Their conjunction, with a condition code for every branch (`BranchesHaveCodes`), is the
  inductive invariant of `CfgProofs`, which gives `TypeCorrect` and `EdgesStayIntact` for graphs with any number of blocks, and from which the action properties follow:
  `StaleStaysInvalid`, `BranchesKeepMeaning`, and `PathsStay`. The last rests on what each insertion does to the
  successors of the other blocks (`Detours`: where the old graph leads, the new one leads, sometimes by way of the
  new block) and on what is said of reachability next.
* **Reachability and walks.** `FlowGraphProofs` also says what the recursive functions of `FlowGraph` and `CfgShapes`
  compute. A function that adds to a set until the ids are used up yields the least set that is closed under the
  step (`Iterates`, by a count of the elements), so `ReachedFrom` and `ReachAvoiding` hold what they start from,
  are closed under taking successors, and are in every set that is: all later proofs reason with this alone. The
  same for the walk of `Preorder`: it ends, with just the blocks that can be reached (`PreorderLists`), because
  each block is expanded once and has at most two successors; each of them once, and behind one that leads to it
  (`Led`). And for `Postorder`: the blocks that can be reached, once each, a block behind those it dominates
  (`PostorderLists`): it is still on the way the walk has come while they are entered.
* **Depth-first trees and dominators.** The rest of `FlowGraphProofs` is about no program: a list of blocks, the
  tree of where each was entered from, and what this has to do with dominators. `IsDfsTree` says what makes them
  depth-first: the last block entered is below the one the next is entered from, and an edge to a block entered
  later leads down. *Above* (`Anc`) is defined by closed sets, so that it needs no induction of its own; what is
  above a block is above all that was entered in between (`AncBetween`), and a path to later blocks comes from
  above (`EdgeAcross`, `CandsAbove`). A semidominator (`IsSemi`) is the earliest block that leads to another
  through later ones. From these come the two theorems the algorithm is built on, `SemiIsIdom` and
  `IdomOfBestOnWay`: of the blocks on the way down from its semidominator, the one whose semidominator is earliest
  has the immediate dominator that a block has; and the two that say how a semidominator is found, `SemiCarriesOn`
  and `SemiComesFrom`. Their core is `DominatesIfWayGuarded`: a path around i would have to come to the way below i
  from outside, for the first time, and over blocks that make some semidominator too early.
* **Traversals.** `DomTreeProofs` first proves all three properties of the four traversals. `ListInv` says what is
  marked, what is on the stack or in the queue, and that a successor of a marked block is marked or still to be
  come to; so at the end the marked set is closed, and nothing is listed twice. That the recursion lists in the
  order of the walk by definition is a simulation: the `todo` lists of the activation records, topmost first and
  one behind the other (a *pile*), are what the walk still has to look at, and a call, a skip and a return are one
  step of it or none (`PreInv`; `PostInv` for the order at exit; what it takes for one call to go on beside the
  walk is `WalkAt`, which the dominator tree needs once more). `PostorderOrdersEdges`: calls are along a path
  (`CallsAlongPath`), and what is left while a successor is still active can come back from it (`LeavesLast`).
  `BFSListsByDistance`: list and queue go from level to level, and before the first of the queue is taken its
  whole level has been marked (`ByLevel`, `LevelsMarked`).
* **Dominator tree.** `DomTreeProofs` then proves that Lengauer and Tarjan's algorithm, as the code has it, is
  right on every graph: `SemidominatorsRight` and `ImmDominatorsRight`. The invariant, `DomTreeInv`, has one part
  per phase. *FillTree* (`FillInv`) is a second walk, not the one that made the list its numbers are from, and
  keeps a successor in hand while that is being entered. That its tree is the one of the list is shown by letting it
  go beside the walk of `Preorder`, as DFS does (`WalkAt`), so that what it has entered is always the first part of
  the list (`FillWalk`). The calls are along one way down the tree, whose end is above the block entered last
  (`FillCalls`), which is what makes the tree depth-first. *ComputeSdoms* (`SdomAt`): the linked nodes are a forest in
  which each hangs from one above it in the tree, and its label is the best on the way between the two, the one with
  the earliest semidominator, not counting the upper (`IsForest`, `IsBest`). `Compress` keeps that and leaves its
  node with the best of the whole way to its root (`CompressFacts`; its recursion ends because positions fall,
  `RankedRecursion`), and linking makes a way of one block (`LinkFacts`). So a turn finds the earliest of all the blocks that lead to its node
  (`PredTurnFacts`, `HeardAll`), and the node of the bucket gets what `IdomOfBestOnWay` asks for, the block whose
  immediate dominator it shares (`GoodDom`). A bucket is gone through in the turn of each child of its node and
  never emptied: every turn finds such a block anew (`OverBucketFacts`). *ComputeDoms* (`DomsAt`) goes
  forwards, so that the block shared with has its own dominator already (`FinalDomIsIdom`). `DfsOfDomTree` is that
  the list is right and stays as it is.
* **Dead block elimination.** `DbeProofs` proves all that the `dbe` run checks: `KeepsPathsAlways`,
  `EmptyBlocksGoneAlways`, `AbortsAtMergesOnlyAlways`. The invariant is about the blocks that are to stay, `Kept`,
  which loses the block being removed when its edge is taken away. They are connected as they were (`Connected`),
  the list holds every empty block that can still be reached (`ToVisit`), and unless paths meet at an empty block
  (`Merges`), an empty block has one predecessor and each slot leads to where it led, with empty blocks passed
  over (`SameLandings`). After the first call of a removal with predecessors left the program is bound to stop
  (`Stuck`); that is where the invariant gives up everything but `Merges`. The lemma that took most is `WayEnds`:
  empty blocks that can be reached and where no paths meet do not go round in circles, as a circle with one
  predecessor for each of its blocks has no way in; the pigeonhole principle makes the circle.
* **Layout.** `LayoutProofs` first proves of the loop analysis that each of its steps leaves a well-formed graph,
  however many headers a loop is given in a row and however many edges go to its pre-header (`AnalysisKeepsWF`):
  so the layout may start from anything it leaves, wrong loops included. The invariant of the layout, `LaidOut`, is
  about one list, what is laid out with what is to come: it holds each block that can be reached, once, and behind
  one that leads to it (`ListOK`); its first blocks are *settled*, that is, control gets from them to where the
  analysed graph says (`Leads`) and what `LinearOrder::Check` asserts holds of them and the next block
  (`Follows`); the others, the last one laid out included, are *untouched*. That is inductive because a decision
  changes one block only, and because what it is based on, the block that comes next, stays next: a jump block is
  put in between, once and for all (`SettleNext`, `SettleInserting`). What an inserted block does to reachability
  is `BypassReach`. From the invariant come `LayoutRunsProgramAlways`, `LaidOutOnceAlways`, where a dominator comes
  first because the list is led (`LedByDominators`), and `CheckPasses`: no assertion of `Check` fails.
* **Loops.** `LayoutProofs` then proves `KeepsPathsAndCyclesAlways` and `EnteredThroughPreHeaderAlways`, by one
  invariant, `LoopsIInv`, of three parts. *Ways*: what was inserted are blocks a way only passes through, and there
  is a rank that each step along it lowers (`WaysLead`); an insertion puts one block into some of the ways
  (`Detoured`) and the ranks in front of it up by one (`DetourKeepsWays`), and a way that goes down in rank ends
  within as many steps as `LeadsTo` takes (`WaysEnd`). *Cycles*: there is a rank of the blocks that every
  edge lowers that does not lead to a header (`CyclesCut`). While the back edges are being collected it is the order in
  which the calls of `CollectBackEdges` return: what a call that has returned has looked at was a header, had
  returned before, or was just being visited and has become a header by that (`Awaited`, `Descends`; the bits GREY
  and BLACK are the calls that are active and those that were made, `Calls`). Splitting a loop gives a new
  header a place, and the pre-header of a loop goes in front of a block that is a header, so both keep it
  (`DetourKeepsCut`). *Pre-headers*: the loops that `AddPreHeaders` has come to are entered through their
  pre-headers, and what it does to a loop touches no other, since no two have the same header (`HeadersOwn`) and
  every back edge comes from a block of the given graph, which no insertion takes away (`BackEdgesLead`).
* **Nesting of loops.** `LoopsNestAlways` says of every graph what the `layout` run checks of small ones:
  `LoopsNestAsInGraph`, with its exceptions. About natural loops alone, `FlowGraphProofs` shows that of two that share
  a block one has the other's header (`LoopsNested`), and that the one whose header is inside is part of the other
  (`LoopInside`). The invariant `NestIInv` has a part for each phase. Until the loops are populated (`CollectFlags`,
  `Unpopulated`, `FlagsRight`) the flag `is_reducible_` of a loop says whether its header dominates its back edges:
  right when the loop is found, wrong once it has been split and the dominators are stale, and right again by
  `RecalculateLoopsReducibility` (`RecalculatedFlags`); a pre-header changes no dominance between other blocks
  (`PreHeaderFlags`). While they are populated (`Populating`), headers come in an order in which none comes before
  one that it dominates (`ToCome`, from `PostorderLists`), so that the headers of the loops inside a loop have been
  come to before it (`NextToCome`); hence every block and every populated loop is in the innermost of the loops around it that
  have been come to (`NestedAs`). The search from the back edges finds just the natural loop: it does not leave
  through the header unless the header is the back edge, and passes over what is inside by the loops found
  before. In the end (`Ordered`) these loops form the tree of the natural loops, or, if some loop is a single block, the
  start block is in it, which is why the tree is then wrong and the property an equivalence.
* **Allocation.** `LinearScanProofs` proves every property the `linear_scan` run checks, for any register file and
  any list of ranges: every range is located (`AlwaysLocated`), stack slots are private (`SlotsNeverShared`),
  `active_` is complete (`ActiveListComplete`), registers are exclusive until the list is drained
  (`RegistersExclusiveUntilDrained`), the furthest range is spilled (`SpillsTheFurthest`). The inductive invariant
  `IInv` ties `active_` to `reg_map_`: a register in use is held by a range of the list (`UsedIsHeld`), which with
  the pigeonhole principle gives a free register whenever the list is shorter than the file; and until the list is
  drained a register held is in use and held once (`HeldIsUsed`, `HeldOnce`), which is what makes a free register
  safe to give away. The proof shows that the drained list is the *only* way in which registers can come to be
  shared.
* **Passes.** `PassesProofs` proves the three properties of the `passes` run for any number of slots from three
  on: `SlotsSuffice`, `HandsOutFresh`, `DominatorsMissOnlyPreHeaders`. The steps of the fourteen passes are looked
  at once, in `StepFacts`; everything else is an argument about stacks. A pass that waits for another has enough
  slots left for all that the other will ever take (`Budget`), and no pass that edits the graph runs on top of one
  that has results or goes by dominators (`Quiet`). Three slots are what is needed: one of the four is never used.

The theorems about the allocation loop are also what `Allocation` starts from: its choice of locations is what
they leave open.

Recursive *functions* can be reasoned about here although induction over a formula cannot be cited: the set of
numbers for which the formula holds contains 0 and every successor, and so all of them, by well-foundedness
(`SetInduction`, from `Least`); `RunExists` gives the function its equation.

Only model-checked: the order of the blocks for liveness, live ranges, moves, and everything about the rewriting passes (`SameBehaviour`, `UsersMatchInputs`,
`ChecksExact`, `NeededStay` and the rest of `rewriting` and `cleanup`), whose statements are about whole
algorithms of many phases or about the meaning of programs. Liveness under fairness (`EveryBlockListed`) and
`ENABLED` are out of the reach of the provers. `RECURSIVE` operators would be too; the project has none.

## 6. Plan

What is left, in this order:

1. `Loops` once more: its phis (`PropagatePhis`), for which `Insts` has all but `RemoveInput` and `ReplaceUser`,
   and a second run over what the first left behind; then `Liveness` can start from what the analysis computes on
   programs with phis instead of from natural loops.
2. One run that composes passes which edit blocks on one graph, dead block elimination and the dominator tree
   first: destroyed blocks, and phis that still name them.
3. `RunChecks` of the graph builder as an operation, on graphs that are not in SSA form.
4. Proofs: `OrderFitsLiveness`, which can start from the tree of loops that `LoopsNestAlways` gives; `NeededStay` of
   the dead code elimination; `UsersMatchInputs` as an invariant of the operations of `Insts`.

## 7. Not modelled

Instruction set tables, type lists and accessors (`isa/`, `utils/*.h` but markers and ranges) are compile-time;
`codegen` is an empty header; dumping and logging have no effect. Of instructions, types and the constructors of
the opcodes are left out: most of `ir/inst.h` declares one class per format. Tests are read, not modelled. What of
the remaining parts is still to be modelled is the plan above; the components in `PROJECT.json` carry the status
of each.
