----------------------------- MODULE DbeProofs -----------------------------
(***************************************************************************)
(* Dead block elimination on any graph, with any choice of empty blocks:   *)
(* what it keeps, what it removes, and when it stops.                      *)
(***************************************************************************)
EXTENDS Dbe, FlowGraphProofs

AllSlotsSet(g, B) == \A b \in B, s \in Slots : s < GetNumSuccessors(g, b) => g.succs[b][s] # None

TypeOK ==
  /\ graph \in Graphs /\ given \in Inputs /\ empty \in SUBSET given.blocks
  /\ todo \in Seq(Ids) /\ succ \in Ids \cup {None} /\ preds \in SUBSET Ids
  /\ removing \in BOOLEAN /\ aborted \in BOOLEAN

\* The edge of the block that is being removed has been taken away, although
\* there are predecessors still to come: the next of them fails an assertion.
Cut == removing /\ graph.succs[bb] = NoSuccs
Stuck == Cut /\ preds # {}

\* The blocks that are to stay, and the one to be removed until it is cut off.
Kept == IF Cut THEN graph.blocks \ {bb} ELSE graph.blocks

\* What is so of a graph g with the blocks K that are to stay.
GraphOK(g, K) ==
  /\ WF(g) /\ K \subseteq g.blocks /\ Start \in K /\ g.preds[Start] = {}
  /\ g.blocks \subseteq given.blocks /\ g.term = given.term
  /\ \A b \in given.blocks \ g.blocks : g.preds[b] = {}
  /\ AllSlotsSet(g, K)

RemovingOK ==
  removing => /\ bb \in empty /\ bb \in graph.blocks /\ bb # Start
              /\ (~Cut => preds = graph.preds[bb] /\ succ = graph.succs[bb][FALLTHROUGH])
              /\ (Cut => graph.preds[bb] = {})

\* What AbortsAtMergesOnly allows for, and what is so of the graph without it.
Merges == \E b \in empty \ {Start} : Cardinality(given.preds[b]) > 1

SidesMeet ==
  \E b \in Ids : /\ given.term[b] = "cond"
                 /\ Landing(given.succs[b][FALLTHROUGH]) = Landing(given.succs[b][BRANCH_TRUE])

OnePredecessor(g, B) == \A b \in B : \A p, q \in g.preds[b] : p = q

SameLandings(g, K) ==
  \A b \in K, s \in Slots :
    g.succs[b][s] # None => /\ given.succs[b][s] # None
                            /\ Landing(g.succs[b][s]) = Landing(given.succs[b][s])

Straight(g, K) == OnePredecessor(g, (K \cap empty) \ {Start}) /\ SameLandings(g, K)

\* The blocks left to visit are the empty ones that can be reached.
ToVisit(K, t) ==
  /\ ToSet(t) \subseteq Reachable(given)
  /\ (K \cap empty \cap Reachable(given)) \ {Start} \subseteq ToSet(t)

Connected(g, K) == \A b \in K : ReachedFrom(g, b) \cap K = ReachedFrom(given, b) \cap K

Running ==
  IF Stuck THEN Merges
  ELSE /\ GraphOK(graph, Kept) /\ RemovingOK /\ ToVisit(Kept, todo) /\ Connected(graph, Kept)
       /\ (Merges \/ Straight(graph, Kept))

IInv ==
  /\ TypeOK /\ (\A b \in empty : given.term[b] = "none") /\ (removing => todo # <<>>)
  /\ IF aborted THEN Merges \/ SidesMeet ELSE Running

-----------------------------------------------------------------------------
\* The graph the pass was given.
LEMMA GivenFacts ==
  ASSUME TypeOK
  PROVE  /\ given \in Graphs /\ WF(given) /\ AllSlotsSet(given, given.blocks)
         /\ Start \in given.blocks /\ given.preds[Start] = {} /\ given.blocks \subseteq Ids
         /\ empty \subseteq Ids /\ Start \in Ids
  BY InputsAssumption, FlowGraphAssumption
  DEF TypeOK, WF, Shape, HasNoPredecessors, AllSlotsSet, Graphs

\* The slots of a block without branch, and of one with.
LEMMA SlotsOfTerm ==
  ASSUME NEW g \in Graphs, NEW b \in Ids
  PROVE  /\ 0 \in Slots /\ 1 \in Slots /\ FALLTHROUGH = 0 /\ BRANCH_TRUE = 1
         /\ g.succs[b][0] \in Ids \cup {None} /\ g.succs[b][1] \in Ids \cup {None}
         /\ g.succs[b] = [s \in Slots |-> g.succs[b][s]]
         /\ (g.term[b] = "none" => GetNumSuccessors(g, b) = 1)
         /\ (\A s, t \in Slots : s # t /\ s < GetNumSuccessors(g, b) /\ t < GetNumSuccessors(g, b)
                                 => g.term[b] = "cond" /\ {s, t} = {FALLTHROUGH, BRANCH_TRUE})
         /\ \A c \in SuccSet(g, b) : c \in Ids /\ \E s \in Slots : g.succs[b][s] = c
<1>1. Slots = {0, 1} /\ FALLTHROUGH = 0 /\ BRANCH_TRUE = 1
  BY DEF Slots, FALLTHROUGH, BRANCH_TRUE
<1>2. g.succs[b] \in [Slots -> Ids \cup {None}] /\ g.term[b] \in Terms
  BY DEF Graphs
<1>3. /\ (g.term[b] = "none" => GetNumSuccessors(g, b) = 1)
      /\ (1 < GetNumSuccessors(g, b) => g.term[b] = "cond")
  BY <1>2 DEF GetNumSuccessors, Terms
<1>4. ASSUME NEW s \in Slots, NEW t \in Slots, s # t, s < GetNumSuccessors(g, b), t < GetNumSuccessors(g, b)
      PROVE  g.term[b] = "cond" /\ {s, t} = {FALLTHROUGH, BRANCH_TRUE}
  BY <1>1, <1>3, <1>4
<1>5. \A c \in SuccSet(g, b) : c \in Ids /\ \E s \in Slots : g.succs[b][s] = c
  BY <1>2 DEF SuccSet
<1> QED
  BY <1>1, <1>2, <1>3, <1>4, <1>5

\* Where no paths meet at an empty block, it has one predecessor at most.
LEMMA NoMerges ==
  ASSUME TypeOK, ~Merges
  PROVE  OnePredecessor(given, empty \ {Start})
<1> SUFFICES ASSUME NEW b \in empty \ {Start}, NEW p \in given.preds[b], NEW q \in given.preds[b], p # q
             PROVE  FALSE
  BY DEF OnePredecessor
<1>1. IsFiniteSet(given.preds[b])
  <2>1. given.preds[b] \subseteq Ids
    BY GivenFacts DEF Graphs
  <2> QED
    BY <2>1, FiniteIds, FS_Subset
<1>2. IsFiniteSet({p}) /\ Cardinality({p}) = 1
  BY FS_Singleton
<1>3. Cardinality({p} \cup {q}) = 2
  <2> DEFINE P == {p}
  <2>1. q \notin P /\ IsFiniteSet(P) /\ Cardinality(P) = 1
    BY <1>2
  <2> HIDE DEF P
  <2>2. Cardinality(P \cup {q}) = Cardinality(P) + 1
    BY <2>1, FS_AddElement
  <2> QED
    BY <2>1, <2>2 DEF P
<1>4. Cardinality({p} \cup {q}) <= Cardinality(given.preds[b])
  BY <1>1, FS_Subset
<1>5. Cardinality(given.preds[b]) \in Nat
  BY <1>1, FS_CardinalityType
<1> QED
  BY <1>3, <1>4, <1>5 DEF Merges

\* The way on from a block through empty ones, which Landing follows.
IsWay(c, W) ==
  /\ W = [n \in Nat |-> W[n]] /\ W[0] = c
  /\ \A n \in Nat : W[n + 1] = IF W[n] \in empty THEN given.succs[W[n]][FALLTHROUGH] ELSE W[n]

\* The function Landing is defined by is such a way.
LEMMA WayExists ==
  ASSUME TypeOK, NEW c \in Ids \cup {None}
  PROVE  \E W : /\ IsWay(c, W) /\ W \in [Nat -> Ids \cup {None}]
                /\ Landing(c) = W[Cardinality(Ids)]
<1> DEFINE Walk[n \in Nat] ==
             IF n = 0 THEN c
             ELSE LET d == Walk[n - 1] IN IF d \in empty THEN given.succs[d][FALLTHROUGH] ELSE d
           Rule(f) == f = [n \in Nat |->
             IF n = 0 THEN c
             ELSE LET d == f[n - 1] IN IF d \in empty THEN given.succs[d][FALLTHROUGH] ELSE d]
           S == Ids \cup {None}
           step == [d \in S |-> IF d \in empty THEN given.succs[d][FALLTHROUGH] ELSE d]
<1>1. step \in [S -> S] /\ c \in S
  BY GivenFacts, SlotsOfTerm
<1>2. PICK f : IsRun(S, c, step, f)
  <2> HIDE DEF S, step
  <2> QED
    BY <1>1, RunExists
<1>3. /\ f \in [Nat -> S] /\ f[0] = c
      /\ \A n \in Nat : f[n + 1] = IF f[n] \in empty THEN given.succs[f[n]][FALLTHROUGH] ELSE f[n]
  <2>1. f \in [Nat -> S] /\ f[0] = c /\ \A n \in Nat : f[n + 1] = step[f[n]]
    BY <1>2 DEF IsRun
  <2> QED
    BY <2>1
<1>4. Rule(f)
  <2>1. ASSUME NEW n \in Nat, n # 0
        PROVE  f[n] = IF f[n - 1] \in empty THEN given.succs[f[n - 1]][FALLTHROUGH] ELSE f[n - 1]
    <3>1. n - 1 \in Nat /\ n = (n - 1) + 1
      BY <2>1
    <3> QED
      BY <1>3, <3>1
  <2> QED
    BY <1>3, <2>1
<1>5. Walk = CHOOSE x : Rule(x)
  OBVIOUS
<1>6. Rule(Walk)
  <2> HIDE DEF Rule, Walk
  <2> QED
    BY <1>4, <1>5
<1>7. Landing(c) = Walk[Cardinality(Ids)]
  BY DEF Landing, Walk
<1> HIDE DEF Walk
<1>8. ASSUME NEW n \in Nat
      PROVE  Walk[n + 1] = IF Walk[n] \in empty THEN given.succs[Walk[n]][FALLTHROUGH] ELSE Walk[n]
  <2>1. n + 1 \in Nat /\ n + 1 # 0 /\ (n + 1) - 1 = n
    OBVIOUS
  <2> QED
    BY <1>6, <2>1
<1>9. Walk = [n \in Nat |-> Walk[n]] /\ Walk[0] = c
  BY <1>6
<1>10. Walk \in [Nat -> S]
  <2> DEFINE A == {n \in Nat : Walk[n] \in S}
  <2>1. 0 \in A /\ \A n \in Nat : n \in A => n + 1 \in A
    BY <1>1, <1>8, <1>9
  <2>2. Nat \subseteq A
    <3> HIDE DEF A
    <3> QED
      BY <2>1, SetInduction
  <2> QED
    BY <1>9, <2>2
<1> QED
  BY <1>7, <1>8, <1>9, <1>10 DEF IsWay

\* Where no paths meet at an empty block, empty blocks that can be reached do not
\* go round in circles: the way on from one comes to a block with contents.
LEMMA WayEnds ==
  ASSUME TypeOK, ~Merges, \A b \in empty : given.term[b] = "none",
         NEW c \in Reachable(given) \cap empty, c # Start,
         NEW W \in [Nat -> Ids \cup {None}], IsWay(c, W)
  PROVE  W[Cardinality(Ids)] \notin empty
<1> DEFINE N == Cardinality(Ids)
<1> SUFFICES ASSUME W[N] \in empty PROVE FALSE
  OBVIOUS
<1>n. N \in Nat
  BY FiniteIds, FS_CardinalityType
<1> HIDE DEF N
<1>g. /\ given \in Graphs /\ WF(given) /\ given.preds[Start] = {} /\ given.blocks \subseteq Ids
      /\ empty \subseteq given.blocks /\ AllSlotsSet(given, given.blocks)
  BY GivenFacts DEF TypeOK
<1>w. /\ W[0] = c
      /\ \A n \in Nat : W[n + 1] = IF W[n] \in empty THEN given.succs[W[n]][FALLTHROUGH] ELSE W[n]
  BY DEF IsWay
\* All of the way is empty.
<1>1. \A n \in 0 .. N : W[n] \in empty
  <2> SUFFICES ASSUME NEW n \in 0 .. N, W[n] \notin empty PROVE FALSE
    OBVIOUS
  <2> DEFINE A == {k \in Nat : W[n + k] = W[n]}
  <2>1. 0 \in A
    BY <1>n
  <2>2. ASSUME NEW k \in Nat, k \in A PROVE k + 1 \in A
    <3>1. n + k \in Nat /\ (n + k) + 1 = n + (k + 1)
      BY <1>n
    <3>2. W[(n + k) + 1] = W[n + k]
      BY <1>w, <2>2, <3>1
    <3> QED
      BY <2>2, <3>1, <3>2
  <2>3. Nat \subseteq A
    <3> HIDE DEF A
    <3> QED
      BY <2>1, <2>2, SetInduction
  <2>4. N - n \in Nat /\ n + (N - n) = N
    BY <1>n
  <2>5. W[N] = W[n]
    BY <2>3, <2>4
  <2> QED
    BY <2>5
\* Each of its blocks precedes the next, and nothing else does.
<1>2. ASSUME NEW n \in 0 .. N - 1
      PROVE  n + 1 \in 0 .. N /\ W[n] \in given.preds[W[n + 1]] /\ W[n + 1] # Start
  <2>1. n \in Nat /\ n \in 0 .. N /\ n + 1 \in 0 .. N
    BY <1>n
  <2>2. W[n] \in empty /\ W[n + 1] \in empty /\ W[n + 1] = given.succs[W[n]][FALLTHROUGH]
    BY <1>1, <1>w, <2>1
  <2>3. W[n] \in given.blocks /\ W[n + 1] \in given.blocks /\ W[n + 1] \in SuccSet(given, W[n])
    BY <1>g, <2>2, FlowGraphAssumption DEF SuccSet, Slots
  <2> QED
    BY <1>g, <2>1, <2>3 DEF WF, Shape, Symmetric
<1>3. \A b \in empty \ {Start} : \A p, q \in given.preds[b] : p = q
  BY NoMerges DEF OnePredecessor
\* It comes twice to the same block, for the first time at the i-th.
<1> DEFINE Twice == {i \in 0 .. N : \E j \in 0 .. N : i < j /\ W[i] = W[j]}
<1>4. Twice # {}
  <2> DEFINE S == 0 .. N
             f == [n \in S |-> W[n]]
  <2>1. IsFiniteSet(S) /\ Cardinality(S) = N + 1
    <3>1. 0 \in Int /\ N \in Int /\ ~(0 > N) /\ N - 0 + 1 = N + 1
      BY <1>n
    <3> QED
      BY <3>1, FS_Interval
  <2>2. f \in [S -> Ids]
    BY <1>1, <1>g
  <2>3. Cardinality(Ids) < Cardinality(S) /\ IsFiniteSet(Ids)
    BY <1>n, <2>1, FiniteIds DEF N
  <2> HIDE DEF S, f
  <2>4. \E x, y \in S : x # y /\ f[x] = f[y]
    BY <2>1, <2>2, <2>3, FS_PigeonHole
  <2>5. PICK x \in 0 .. N, y \in 0 .. N : x # y /\ W[x] = W[y]
    BY <2>4 DEF S, f
  <2>6. x < y \/ y < x
    BY <1>n, <2>5
  <2> QED
    BY <2>5, <2>6
<1>5. \E i \in Twice : \A k \in Twice : i <= k
  <2>1. Twice \subseteq Nat
    BY <1>n
  <2> HIDE DEF Twice
  <2> QED
    BY <1>4, <2>1, Least
<1>6. PICK i \in Twice : \A k \in Twice : i <= k
  BY <1>5
<1>7. PICK j \in 0 .. N : i < j /\ W[i] = W[j]
  BY <1>6
<1>8. CASE i # 0
  <2> DEFINE a == i - 1
             b == j - 1
  <2>1. /\ a \in 0 .. N - 1 /\ b \in 0 .. N - 1 /\ a \in 0 .. N /\ b \in 0 .. N
        /\ a + 1 = i /\ b + 1 = j /\ a < b /\ ~(i <= a)
    BY <1>7, <1>8, <1>n
  <2> HIDE DEF a, b
  <2>2. W[a] \in given.preds[W[i]] /\ W[b] \in given.preds[W[i]] /\ W[i] \in empty \ {Start}
    <3>1. W[a] \in given.preds[W[a + 1]] /\ W[a + 1] # Start
      BY <1>2, <2>1
    <3>2. W[b] \in given.preds[W[b + 1]]
      BY <1>2, <2>1
    <3>3. W[i] \in empty
      BY <1>1
    <3> QED
      BY <1>7, <2>1, <3>1, <3>2, <3>3
  <2>3. W[a] = W[b]
    BY <1>3, <2>2
  <2>4. a \in Twice
    BY <2>1, <2>3
  <2> QED
    BY <1>6, <2>1, <2>4
\* A circle has no way in.
<1>9. CASE i = 0
  <2> DEFINE K == {W[n] : n \in 0 .. j - 1}
             C == given.blocks \ K
  <2>1. c \in K /\ W[j] = c /\ j - 1 \in 0 .. N - 1 /\ (j - 1) + 1 = j /\ 0 .. j - 1 \subseteq 0 .. N
    BY <1>7, <1>9, <1>n, <1>w
  <2>2. ASSUME NEW n \in 0 .. j - 1, NEW p \in given.preds[W[n]] PROVE p \in K
    <3>1. W[n] \in empty
      BY <1>1, <2>1
    <3>2. CASE n = 0
      <4> DEFINE k == j - 1
      <4>1. k \in 0 .. N - 1 /\ k + 1 = j /\ k \in 0 .. j - 1
        BY <2>1
      <4> HIDE DEF k
      <4>2. W[k] \in given.preds[W[n]] /\ W[n] # Start
        <5>1. W[k] \in given.preds[W[k + 1]]
          BY <1>2, <4>1
        <5>2. W[k + 1] = W[n]
          BY <1>w, <2>1, <3>2, <4>1
        <5> QED
          BY <1>w, <3>2, <5>1, <5>2
      <4>3. p = W[k]
        BY <1>3, <3>1, <4>2
      <4> QED
        BY <4>1, <4>3
    <3>3. CASE n # 0
      <4> DEFINE k == n - 1
      <4>1. k \in 0 .. N - 1 /\ k + 1 = n /\ k \in 0 .. j - 1
        <5>1. j \in 0 .. N /\ n \in 0 .. j - 1
          OBVIOUS
        <5> QED
          BY <1>n, <3>3, <5>1
      <4> HIDE DEF k
      <4>2. W[k] \in given.preds[W[n]] /\ W[n] # Start
        <5>1. W[k] \in given.preds[W[k + 1]] /\ W[k + 1] # Start
          BY <1>2, <4>1
        <5> QED
          BY <4>1, <5>1
      <4>3. p = W[k]
        BY <1>3, <3>1, <4>2
      <4> QED
        BY <4>1, <4>3
    <3> QED
      BY <3>2, <3>3
  <2>3. Start \in C
    <3> SUFFICES ASSUME NEW n \in 0 .. j - 1, W[n] = Start PROVE FALSE
      BY GivenFacts
    <3>1. CASE n = 0
      BY <1>w, <3>1
    <3>2. CASE n # 0
      <4> DEFINE k == n - 1
      <4>1. k \in 0 .. N - 1 /\ k + 1 = n
        <5>1. j \in 0 .. N /\ n \in 0 .. j - 1
          OBVIOUS
        <5> QED
          BY <1>n, <3>2, <5>1
      <4> HIDE DEF k
      <4>2. W[k + 1] # Start
        BY <1>2, <4>1
      <4> QED
        BY <4>1, <4>2
    <3> QED
      BY <3>1, <3>2
  <2>4. ASSUME NEW b \in C, NEW d \in SuccSet(given, b) PROVE d \in C
    <3>1. d \in given.blocks /\ b \in given.preds[d]
      BY <1>g, <2>4 DEF WF, Shape, Symmetric, NoDangling
    <3> SUFFICES ASSUME d \in K PROVE FALSE
      BY <3>1
    <3>2. PICK n \in 0 .. j - 1 : d = W[n]
      OBVIOUS
    <3> QED
      BY <2>2, <2>4, <3>1, <3>2
  <2>5. Reachable(given) \subseteq C
    <3>1. C \in SUBSET Ids
      BY <1>g
    <3> HIDE DEF C
    <3> QED
      BY <1>g, <2>3, <2>4, <3>1, ReachableFacts
  <2> QED
    BY <2>1, <2>5
<1> QED
  BY <1>8, <1>9

\* So an empty block that can be reached leads where its successor leads.
LEMMA SameLanding ==
  ASSUME TypeOK, ~Merges, \A b \in empty : given.term[b] = "none",
         NEW c \in Reachable(given) \cap empty, c # Start
  PROVE  Landing(c) = Landing(given.succs[c][FALLTHROUGH])
<1> DEFINE d == given.succs[c][FALLTHROUGH]
           N == Cardinality(Ids)
<1>1. c \in Ids /\ d \in Ids \cup {None} /\ N \in Nat
  BY GivenFacts, SlotsOfTerm, FiniteIds, FS_CardinalityType
<1> HIDE DEF d, N
<1>2. PICK W : IsWay(c, W) /\ W \in [Nat -> Ids \cup {None}] /\ Landing(c) = W[N]
  BY <1>1, WayExists DEF N
<1>3. PICK V : IsWay(d, V) /\ Landing(d) = V[N]
  BY <1>1, WayExists DEF N
<1>4. W[N] \notin empty
  BY <1>2, WayEnds DEF N
<1> DEFINE A == {n \in Nat : V[n] = W[n + 1]}
<1>5. 0 \in A
  <2>1. W[0 + 1] = d
    BY <1>2 DEF IsWay, d
  <2> QED
    BY <1>3, <2>1 DEF IsWay
<1>6. ASSUME NEW n \in Nat, n \in A PROVE n + 1 \in A
  <2>1. n + 1 \in Nat
    OBVIOUS
  <2> QED
    BY <1>2, <1>3, <1>6, <2>1 DEF IsWay
<1>7. Nat \subseteq A
  <2> HIDE DEF A
  <2> QED
    BY <1>5, <1>6, SetInduction
<1>8. V[N] = W[N + 1]
  BY <1>1, <1>7
<1>9. W[N + 1] = W[N]
  BY <1>1, <1>2, <1>4 DEF IsWay
<1> QED
  BY <1>2, <1>3, <1>8, <1>9 DEF d

-----------------------------------------------------------------------------
\* What the calls of RemoveEmpty need, and the graph they make.
LEMMA HasSlot ==
  ASSUME NEW g, WF(g), NEW K, AllSlotsSet(g, K), NEW p \in K, p \in g.blocks, NEW b \in SuccSet(g, p)
  PROVE  b \in Ids /\ HasSuccessor(g, p, b)
<1>1. g \in Graphs /\ p \in Ids
  BY DEF WF, Shape, Graphs
<1>2. b \in Ids /\ b # None
  BY <1>1, SuccSetInIds, FlowGraphAssumption
<1>3. PICK s \in Slots : g.succs[p][s] = b
  BY DEF SuccSet
<1>4. s \in {0, 1} /\ GetNumSuccessors(g, p) \in 0 .. 2 /\ Slots = {0, 1}
  BY <1>1, SlotFacts, NumSuccessorsFacts
<1>5. s < GetNumSuccessors(g, p)
  BY <1>2, <1>3, <1>4 DEF WF, NoHiddenSlots
<1>6. ASSUME NEW t \in Slots, t < s PROVE g.succs[p][t] \notin {b, None}
  <2>1. t = 0 /\ s = 1 /\ t < GetNumSuccessors(g, p)
    BY <1>4, <1>5, <1>6
  <2>2. g.succs[p][0] # g.succs[p][1]
    BY <1>2, <1>3, <2>1 DEF WF, Shape, NoParallel, FALLTHROUGH, BRANCH_TRUE
  <2>3. g.succs[p][t] # None
    BY <2>1 DEF AllSlotsSet
  <2> QED
    BY <1>3, <2>1, <2>2, <2>3
<1>7. IsSlotOf(g, p, b, s)
  BY <1>3, <1>5, <1>6 DEF IsSlotOf
<1> QED
  BY <1>2, <1>7 DEF HasSuccessor

\* The block b between p and s is taken out: p leads to s instead.
IsTakenOut(g, h, b, p, s) ==
  /\ WF(h) /\ h.blocks = g.blocks /\ h.term = g.term
  /\ \E x, y \in Slots : /\ x # y /\ g.succs[p][x] = b
                         /\ h.succs[p][x] = s /\ h.succs[p][y] = g.succs[p][y]
  /\ \A c \in Ids \ {b, p} : h.succs[c] = g.succs[c]
  /\ \E x, y \in Slots : /\ x # y /\ g.succs[b][x] = s
                         /\ h.succs[b][x] = None /\ h.succs[b][y] = g.succs[b][y]
  /\ h.preds[b] = g.preds[b] \ {p} /\ h.preds[s] = (g.preds[s] \cup {p}) \ {b}
  /\ \A c \in Ids \ {b, s} : h.preds[c] = g.preds[c]

LEMMA TakenOut ==
  ASSUME NEW g, WF(g), NEW b \in Ids, NEW p \in Ids, NEW s \in g.blocks, p # b, s # b,
         CanReplaceSuccessor(g, p, b, s),
         CanReplaceSuccessor(ReplaceSuccessor(g, p, b, s), b, s, None)
  PROVE  IsTakenOut(g, ReplaceSuccessor(ReplaceSuccessor(g, p, b, s), b, s, None), b, p, s)
<1> DEFINE k == ReplaceSuccessor(g, p, b, s)
           h == ReplaceSuccessor(k, b, s, None)
<1>1. CanReplaceSuccessor(g, p, b, s) /\ CanReplaceSuccessor(k, b, s, None)
  OBVIOUS
<1>2. s \in g.blocks \cup {None} /\ s \in Ids /\ None \in k.blocks \cup {None} /\ s # None /\ b # None
  BY FlowGraphAssumption DEF WF, Shape, Graphs
<1>3. WF(k)
  BY <1>1, <1>2, ReplaceSuccessorWF
<1>4. /\ k.blocks = g.blocks /\ k.term = g.term
      /\ \E x, y \in Slots : /\ x # y /\ g.succs[p][x] = b
                             /\ k.succs[p][x] = s /\ k.succs[p][y] = g.succs[p][y]
      /\ \A c \in Ids \ {p} : k.succs[c] = g.succs[c]
      /\ \A c \in Ids : /\ c = s => k.preds[c] = g.preds[c] \cup {p}
                        /\ c # s /\ c = b => k.preds[c] = g.preds[c] \ {p}
                        /\ c # s /\ c # b => k.preds[c] = g.preds[c]
  BY <1>1, <1>2, ReplaceSuccessorFacts
<1> HIDE DEF k
<1>5. WF(h)
  BY <1>1, <1>2, <1>3, ReplaceSuccessorWF
<1>6. /\ h.blocks = k.blocks /\ h.term = k.term
      /\ \E x, y \in Slots : /\ x # y /\ k.succs[b][x] = s
                             /\ h.succs[b][x] = None /\ h.succs[b][y] = k.succs[b][y]
      /\ \A c \in Ids \ {b} : h.succs[c] = k.succs[c]
      /\ \A c \in Ids : /\ c = None => h.preds[c] = k.preds[c] \cup {b}
                        /\ c # None /\ c = s => h.preds[c] = k.preds[c] \ {b}
                        /\ c # None /\ c # s => h.preds[c] = k.preds[c]
  BY <1>1, <1>2, <1>3, ReplaceSuccessorFacts
<1> HIDE DEF h
<1>7. h.blocks = g.blocks /\ h.term = g.term
  BY <1>4, <1>6
<1>8. \E x, y \in Slots : /\ x # y /\ g.succs[p][x] = b
                          /\ h.succs[p][x] = s /\ h.succs[p][y] = g.succs[p][y]
  BY <1>4, <1>6
<1>9. \A c \in Ids \ {b, p} : h.succs[c] = g.succs[c]
  BY <1>4, <1>6
<1>10. \E x, y \in Slots : /\ x # y /\ g.succs[b][x] = s
                           /\ h.succs[b][x] = None /\ h.succs[b][y] = g.succs[b][y]
  BY <1>4, <1>6
<1>11. \A c \in Ids : c # None
  BY FlowGraphAssumption
<1>12. h.preds[b] = g.preds[b] \ {p} /\ h.preds[s] = (g.preds[s] \cup {p}) \ {b}
  BY <1>2, <1>4, <1>6, <1>11
<1>13. \A c \in Ids \ {b, s} : h.preds[c] = g.preds[c]
  BY <1>4, <1>6, <1>11
<1> QED
  BY <1>5, <1>7, <1>8, <1>9, <1>10, <1>12, <1>13 DEF h, k, IsTakenOut

\* Where the graph is connected as the given one, what could be reached still can be.
LEMMA StillReached ==
  ASSUME TypeOK, NEW g, NEW K, GraphOK(g, K), Connected(g, K)
  PROVE  Reachable(g) \cap K = Reachable(given) \cap K
<1>1. g \in Graphs /\ given \in Graphs /\ Start \in K
  BY GivenFacts DEF GraphOK, WF, Shape
<1>2. Reachable(g) = {Start} \cup ReachedFrom(g, Start) /\ Reachable(given) = {Start} \cup ReachedFrom(given, Start)
  BY <1>1, ReachableFromStart
<1>3. ReachedFrom(g, Start) \cap K = ReachedFrom(given, Start) \cap K
  BY <1>1 DEF Connected
<1> QED
  BY <1>2, <1>3

\* So such a block has a predecessor other than itself.
LEMMA HasOtherPred ==
  ASSUME TypeOK, NEW g, NEW K, GraphOK(g, K), Connected(g, K),
         NEW b \in Reachable(given) \cap K, b # Start
  PROVE  \E p \in g.preds[b] : p # b
<1>1. b \in Reachable(g) /\ b \in g.blocks
  BY StillReached DEF GraphOK
<1>2. g \in Graphs /\ WF(g) /\ Start \in g.blocks /\ g.blocks \subseteq Ids
  BY DEF GraphOK, WF, Shape, Graphs
<1>3. PICK p \in Reachable(g) : p # b /\ b \in SuccSet(g, p)
  BY <1>1, <1>2, ReachablePredecessor
<1>4. Reachable(g) \subseteq g.blocks
  <2>1. \A c \in g.blocks : SuccSet(g, c) \subseteq g.blocks
    BY <1>2 DEF WF, Shape, NoDangling
  <2> QED
    BY <1>2, <2>1, ReachableFacts
<1>5. p \in g.preds[b]
  BY <1>1, <1>2, <1>3, <1>4 DEF WF, Shape, Symmetric
<1> QED
  BY <1>3, <1>5

\* An empty block between its one predecessor p and its successor is taken out.
LEMMA Contracted ==
  ASSUME TypeOK, \A b \in empty : given.term[b] = "none",
         NEW g, GraphOK(g, g.blocks), Connected(g, g.blocks),
         NEW b \in Reachable(given) \cap empty, b \in g.blocks, b # Start,
         NEW p, g.preds[b] = {p}, NEW s, s = g.succs[b][FALLTHROUGH],
         CanReplaceSuccessor(g, p, b, s),
         CanReplaceSuccessor(ReplaceSuccessor(g, p, b, s), b, s, None)
  PROVE  LET h == ReplaceSuccessor(ReplaceSuccessor(g, p, b, s), b, s, None)
             K == g.blocks \ {b}
         IN  /\ GraphOK(h, K) /\ Connected(h, K) /\ h.blocks = g.blocks
             /\ h.succs[b] = NoSuccs /\ h.preds[b] = {}
             /\ (~Merges /\ Straight(g, g.blocks) => Straight(h, K))
<1> DEFINE h == ReplaceSuccessor(ReplaceSuccessor(g, p, b, s), b, s, None)
           K == g.blocks \ {b}
<1>1. /\ g \in Graphs /\ WF(g) /\ Start \in g.blocks /\ g.preds[Start] = {} /\ g.blocks \subseteq given.blocks
      /\ g.term = given.term /\ AllSlotsSet(g, g.blocks) /\ g.blocks \subseteq Ids
      /\ \A c \in given.blocks \ g.blocks : g.preds[c] = {}
  BY DEF GraphOK, WF, Shape, Graphs
<1>2. g.term[b] = "none" /\ b \in Ids /\ GetNumSuccessors(g, b) = 1 /\ Slots = {0, 1} /\ FALLTHROUGH = 0
  <2>1. b \in Ids /\ g.term[b] = "none"
    BY <1>1
  <2> QED
    BY <2>1, SlotFacts DEF GetNumSuccessors, FALLTHROUGH
<1>3. s # None /\ g.succs[b][1] = None /\ g.succs[b][0] = s
  BY <1>1, <1>2 DEF AllSlotsSet, WF, NoHiddenSlots
<1>4. SuccSet(g, b) = {s}
  BY <1>2, <1>3 DEF SuccSet
<1>5. s \in g.blocks /\ b \in g.preds[s] /\ s # Start
  BY <1>1, <1>4 DEF WF, Shape, NoDangling, Symmetric
<1>6. p # b
  BY HasOtherPred
<1>7. s # b
  BY <1>5, <1>6
<1>8. p \in g.blocks /\ b \in SuccSet(g, p)
  BY <1>1 DEF WF, Shape, NoDangling, Symmetric
<1>9. \A c \in g.blocks : b \in SuccSet(g, c) => c = p
  BY <1>1 DEF WF, Shape, Symmetric
<1>10. IsTakenOut(g, h, b, p, s)
  <2>1. p \in Ids /\ b \in Ids /\ s \in g.blocks /\ WF(g)
    BY <1>1, <1>2, <1>5, <1>8
  <2> QED
    BY <1>6, <1>7, <2>1, TakenOut
<1> HIDE DEF h
<1>11. h \in Graphs
  BY <1>10 DEF WF, Shape, IsTakenOut
<1>12. PICK x, y \in Slots : /\ x # y /\ g.succs[p][x] = b
                             /\ h.succs[p][x] = s /\ h.succs[p][y] = g.succs[p][y]
  BY <1>10 DEF IsTakenOut
<1>13. h.succs[b] = NoSuccs
  <2>1. h.succs[b] \in [Slots -> Ids \cup {None}]
    BY <1>2, <1>11 DEF Graphs
  <2>2. h.succs[b][0] = None /\ h.succs[b][1] = None
    BY <1>2, <1>3, <1>10 DEF IsTakenOut
  <2> QED
    BY <1>2, <2>1, <2>2 DEF NoSuccs
<1>14. h.preds[b] = {}
  BY <1>10 DEF IsTakenOut
<1>15. Start \in K /\ h.preds[Start] = {}
  BY <1>1, <1>5, <1>10, FlowGraphAssumption DEF IsTakenOut
<1>16. \A c \in given.blocks \ h.blocks : h.preds[c] = {}
  BY <1>1, <1>2, <1>5, <1>10, GivenFacts DEF IsTakenOut
<1>17. \A c \in K \ {p} : h.succs[c] = g.succs[c]
  BY <1>1, <1>10 DEF IsTakenOut
<1>18. AllSlotsSet(h, K)
  <2> SUFFICES ASSUME NEW c \in K, NEW t \in Slots, t < GetNumSuccessors(h, c) PROVE h.succs[c][t] # None
    BY DEF AllSlotsSet
  <2>1. t < GetNumSuccessors(g, c)
    BY <1>10 DEF GetNumSuccessors, IsTakenOut
  <2>2. g.succs[c][t] # None
    BY <1>1, <2>1 DEF AllSlotsSet
  <2>3. CASE c = p
    BY <1>2, <1>3, <1>12, <2>2, <2>3
  <2>4. CASE c # p
    BY <1>17, <2>2, <2>4
  <2> QED
    BY <2>3, <2>4
<1>19. GraphOK(h, K)
  BY <1>1, <1>10, <1>15, <1>16, <1>18 DEF GraphOK, IsTakenOut
\* The paths through the block are the same without it.
<1>20. \A c \in K \ {p} : SuccSet(h, c) = SuccSet(g, c) /\ b \notin SuccSet(g, c)
  BY <1>9, <1>17 DEF SuccSet
<1>21. SuccSet(h, p) = (SuccSet(g, p) \ {b}) \cup {s}
  <2>1. SuccSet(g, p) = {b, g.succs[p][y]} \ {None} /\ SuccSet(h, p) = {s, g.succs[p][y]} \ {None}
    BY <1>2, <1>12 DEF SuccSet
  <2>2. g.succs[p][y] # b
    <3>1. g.succs[p][0] = g.succs[p][1] => g.succs[p][0] = None
      BY <1>1, <1>8 DEF WF, Shape, NoParallel, FALLTHROUGH, BRANCH_TRUE
    <3>2. b # None
      BY <1>2, FlowGraphAssumption
    <3> QED
      BY <1>2, <1>12, <3>1, <3>2
  <2>3. b # None
    BY <1>2, FlowGraphAssumption
  <2> QED
    BY <1>3, <2>1, <2>2, <2>3
<1>22. Detours(h, g, b, K)
  <2> SUFFICES ASSUME NEW c \in K
               PROVE  SuccSet(h, c) = (SuccSet(g, c) \ {b})
                                      \cup (IF b \in SuccSet(g, c) THEN SuccSet(g, b) ELSE {})
    BY DEF Detours
  <2>1. CASE c = p
    BY <1>4, <1>8, <1>21, <2>1
  <2>2. CASE c # p
    BY <1>20, <2>2
  <2> QED
    BY <2>1, <2>2
<1>23. \A c \in K : SuccSet(h, c) \subseteq K
  <2> SUFFICES ASSUME NEW c \in K PROVE SuccSet(h, c) \subseteq K
    OBVIOUS
  <2>1. SuccSet(h, c) \subseteq h.blocks
    BY <1>10 DEF WF, Shape, NoDangling, IsTakenOut
  <2>2. b \notin SuccSet(h, c)
    BY <1>10, <1>14 DEF WF, Shape, Symmetric, IsTakenOut
  <2> QED
    BY <1>10, <2>1, <2>2 DEF IsTakenOut
<1>24. \A c \in K : ReachedFrom(h, c) \cap K = ReachedFrom(g, c) \cap K
  <2>1. K \in SUBSET Ids /\ b \in Ids \ K
    BY <1>1, <1>2
  <2> HIDE DEF K
  <2> QED
    BY <1>1, <1>11, <1>22, <1>23, <2>1, DetoursKeepPaths
<1>25. Connected(h, K)
  <2> SUFFICES ASSUME NEW c \in K PROVE ReachedFrom(h, c) \cap K = ReachedFrom(given, c) \cap K
    BY DEF Connected
  <2>1. ReachedFrom(g, c) \cap g.blocks = ReachedFrom(given, c) \cap g.blocks
    BY DEF Connected
  <2>2. ReachedFrom(g, c) \cap K = ReachedFrom(given, c) \cap K
    BY <2>1
  <2> QED
    BY <1>24, <2>2
\* And what comes after it is what came after it.
<1>26. ASSUME ~Merges, Straight(g, g.blocks) PROVE Straight(h, K)
  <2>1. OnePredecessor(h, (K \cap empty) \ {Start})
    <3> SUFFICES ASSUME NEW c \in (K \cap empty) \ {Start}, NEW q \in h.preds[c], NEW r \in h.preds[c]
                 PROVE  q = r
      BY DEF OnePredecessor
    <3>1. \A u, v \in g.preds[c] : u = v
      BY <1>26 DEF Straight, OnePredecessor
    <3>2. CASE c = s
      BY <1>5, <1>10, <3>1, <3>2 DEF IsTakenOut
    <3>3. CASE c # s
      BY <1>1, <1>10, <3>1, <3>3 DEF IsTakenOut
    <3> QED
      BY <3>2, <3>3
  <2>2. Landing(b) = Landing(s)
    <3>1. Landing(b) = Landing(given.succs[b][FALLTHROUGH])
      BY <1>26, SameLanding
    <3>2. Landing(g.succs[b][FALLTHROUGH]) = Landing(given.succs[b][FALLTHROUGH])
      BY <1>2, <1>3, <1>26 DEF Straight, SameLandings
    <3> QED
      BY <3>1, <3>2
  <2>3. SameLandings(h, K)
    <3> SUFFICES ASSUME NEW c \in K, NEW t \in Slots, h.succs[c][t] # None
                 PROVE  /\ given.succs[c][t] # None
                        /\ Landing(h.succs[c][t]) = Landing(given.succs[c][t])
      BY DEF SameLandings
    <3>1. g.succs[c][t] # None => /\ given.succs[c][t] # None
                                  /\ Landing(g.succs[c][t]) = Landing(given.succs[c][t])
      BY <1>26 DEF Straight, SameLandings
    <3>2. CASE c = p /\ t = x
      <4>1. h.succs[c][t] = s /\ g.succs[c][t] = b /\ b # None
        BY <1>2, <1>12, <3>2, FlowGraphAssumption
      <4> QED
        BY <2>2, <3>1, <4>1
    <3>3. CASE ~(c = p /\ t = x)
      <4>1. h.succs[c][t] = g.succs[c][t]
        BY <1>2, <1>12, <1>17, <3>3
      <4> QED
        BY <3>1, <4>1
    <3> QED
      BY <3>2, <3>3
  <2> QED
    BY <2>1, <2>3 DEF Straight
<1> QED
  BY <1>10, <1>13, <1>14, <1>19, <1>25, <1>26 DEF h, IsTakenOut

\* The calls fail only where paths meet.
LEMMA CallsSucceed ==
  ASSUME TypeOK, \A b \in empty : given.term[b] = "none", ~Merges, ~SidesMeet,
         NEW g, GraphOK(g, g.blocks), Connected(g, g.blocks), Straight(g, g.blocks),
         NEW b \in Reachable(given) \cap empty, b \in g.blocks, b # Start,
         NEW p \in g.preds[b], NEW s, s = g.succs[b][FALLTHROUGH]
  PROVE  /\ CanReplaceSuccessor(g, p, b, s)
         /\ CanReplaceSuccessor(ReplaceSuccessor(g, p, b, s), b, s, None)
<1> DEFINE k == ReplaceSuccessor(g, p, b, s)
<1>1. /\ g \in Graphs /\ WF(g) /\ AllSlotsSet(g, g.blocks) /\ g.blocks \subseteq Ids /\ g.term = given.term
  BY DEF GraphOK, WF, Shape, Graphs
<1>2. g.term[b] = "none" /\ b \in Ids /\ GetNumSuccessors(g, b) = 1 /\ Slots = {0, 1} /\ FALLTHROUGH = 0
  <2>1. b \in Ids /\ g.term[b] = "none"
    BY <1>1
  <2> QED
    BY <2>1, SlotFacts DEF GetNumSuccessors, FALLTHROUGH
<1>3. s # None /\ g.succs[b][1] = None /\ g.succs[b][0] = s
  BY <1>1, <1>2 DEF AllSlotsSet, WF, NoHiddenSlots
<1>4. s \in SuccSet(g, b) /\ s \in g.blocks /\ b \in g.preds[s]
  <2>1. s \in SuccSet(g, b)
    BY <1>2, <1>3 DEF SuccSet
  <2> QED
    BY <1>1, <2>1 DEF WF, Shape, NoDangling, Symmetric
<1>5. p \in g.blocks /\ b \in SuccSet(g, p) /\ p \in Ids
  BY <1>1 DEF WF, Shape, NoDangling, Symmetric
<1>6. \A q \in g.preds[b] : q = p
  BY DEF Straight, OnePredecessor
<1>7. p # b
  BY <1>6, HasOtherPred
<1>8. p \notin g.preds[s]
  <2> SUFFICES ASSUME p \in g.preds[s] PROVE FALSE
    OBVIOUS
  <2>1. s \in SuccSet(g, p) /\ s # b
    BY <1>1, <1>4, <1>5, <1>6, <1>7 DEF WF, Shape, Symmetric
  <2>2. PICK x, y \in Slots : g.succs[p][x] = b /\ g.succs[p][y] = s
    BY <1>5, <2>1 DEF SuccSet
  <2>3. b # None /\ x # y
    BY <1>2, <2>1, <2>2, FlowGraphAssumption
  <2>4. given.succs[p][0] # None /\ given.succs[p][1] # None
        /\ Landing(given.succs[p][0]) = Landing(given.succs[p][1])
    <3>1. /\ Landing(b) = Landing(given.succs[p][x]) /\ Landing(s) = Landing(given.succs[p][y])
          /\ given.succs[p][x] # None /\ given.succs[p][y] # None
      <4>1. \A t \in Slots : g.succs[p][t] # None =>
              given.succs[p][t] # None /\ Landing(g.succs[p][t]) = Landing(given.succs[p][t])
        BY <1>5 DEF Straight, SameLandings
      <4>2. Landing(g.succs[p][x]) = Landing(b) /\ Landing(g.succs[p][y]) = Landing(s)
        BY <2>2
      <4>3. g.succs[p][x] # None /\ g.succs[p][y] # None
        BY <1>3, <2>2, <2>3
      <4> QED
        BY <4>1, <4>2, <4>3
    <3>2. Landing(b) = Landing(given.succs[b][FALLTHROUGH])
      BY SameLanding
    <3>3. Landing(s) = Landing(given.succs[b][FALLTHROUGH])
      BY <1>2, <1>3 DEF Straight, SameLandings
    <3>4. Landing(given.succs[p][x]) = Landing(given.succs[p][y])
      BY <3>1, <3>2, <3>3
    <3>5. (x = 0 /\ y = 1) \/ (x = 1 /\ y = 0)
      BY <1>2, <2>3
    <3>6. CASE x = 0 /\ y = 1
      BY <3>1, <3>4, <3>6
    <3>7. CASE x = 1 /\ y = 0
      BY <3>1, <3>4, <3>7
    <3> QED
      BY <3>5, <3>6, <3>7
  <2>5. g.term[p] = "cond"
    <3>1. 1 < GetNumSuccessors(g, p)
      <4>1. g.succs[p][1] # None
        BY <1>2, <1>3, <2>2, <2>3
      <4> QED
        BY <1>1, <1>2, <1>5, <4>1, NumSuccessorsFacts DEF WF, NoHiddenSlots
    <3> QED
      BY <1>1, <1>5, <3>1, NumSuccessorsFacts DEF GetNumSuccessors, Terms
  <2> QED
    BY <1>1, <1>5, <2>4, <2>5 DEF SidesMeet, FALLTHROUGH, BRANCH_TRUE
<1>9. HasSuccessor(g, p, b) /\ HasSuccessor(g, b, s)
  BY <1>1, <1>4, <1>5, HasSlot
<1>10. CanReplaceSuccessor(g, p, b, s)
  BY <1>4, <1>5, <1>8, <1>9 DEF CanReplaceSuccessor
<1>11. CanReplaceSuccessor(k, b, s, None)
  <2>1. s \in g.blocks \cup {None} /\ s \in Ids
    BY <1>1, <1>4
  <2>2. /\ k.blocks = g.blocks /\ k.term = g.term
        /\ \A c \in Ids \ {p} : k.succs[c] = g.succs[c]
        /\ \A c \in Ids : c = s => k.preds[c] = g.preds[c] \cup {p}
    BY <1>1, <1>2, <1>5, <1>10, <2>1, ReplaceSuccessorFacts
  <2> HIDE DEF k
  <2>3. HasSuccessor(k, b, s)
    BY <1>2, <1>7, <1>9, <2>2 DEF HasSuccessor, IsSlotOf, GetNumSuccessors
  <2> QED
    BY <1>2, <1>4, <2>1, <2>2, <2>3 DEF CanReplaceSuccessor
<1> QED
  BY <1>10, <1>11 DEF k

-----------------------------------------------------------------------------
\* The invariant holds at first and is kept by every step.
LEMMA InitIInv == Init => IInv
<1> SUFFICES ASSUME Init PROVE IInv
  OBVIOUS
<1>1. given \in Inputs /\ graph = given /\ empty \in SUBSET given.blocks /\ todo = Preorder(given)
      /\ succ = None /\ preds = {} /\ removing = FALSE /\ aborted = FALSE
      /\ \A b \in empty : given.term[b] = "none"
  BY DEF Init
<1>2. given \in Graphs
  BY <1>1, InputsAssumption
<1>3. todo \in Seq(Ids) /\ ToSet(todo) = Reachable(given)
  BY <1>1, <1>2, PreorderLists
<1>4. TypeOK
  BY <1>1, <1>2, <1>3 DEF TypeOK
<1>5. ~Cut /\ ~Stuck /\ Kept = graph.blocks
  BY <1>1 DEF Cut, Stuck, Kept
<1>6. GraphOK(graph, Kept)
  BY <1>1, <1>4, <1>5, GivenFacts DEF GraphOK
<1>7. RemovingOK
  BY <1>1 DEF RemovingOK
<1>8. ToVisit(Kept, todo)
  BY <1>3 DEF ToVisit
<1>9. Connected(graph, Kept)
  BY <1>1 DEF Connected
<1>10. Merges \/ Straight(graph, Kept)
  <2> SUFFICES ASSUME ~Merges PROVE Straight(graph, Kept)
    OBVIOUS
  <2>1. OnePredecessor(given, empty \ {Start})
    BY <1>4, NoMerges
  <2>2. OnePredecessor(graph, (Kept \cap empty) \ {Start})
    BY <1>1, <2>1 DEF OnePredecessor
  <2>3. SameLandings(graph, Kept)
    BY <1>1 DEF SameLandings
  <2> QED
    BY <2>2, <2>3 DEF Straight
<1> QED
  BY <1>1, <1>4, <1>5, <1>6, <1>7, <1>8, <1>9, <1>10 DEF IInv, Running

\* What an invariant says of the graph given, it says after a step as before it.
LEMMA Unchanging ==
  ASSUME UNCHANGED <<given, empty>>
  PROVE  /\ Merges' = Merges /\ SidesMeet' = SidesMeet
         /\ \A g, K : GraphOK(g, K)' = GraphOK(g, K) /\ Connected(g, K)' = Connected(g, K)
         /\ \A g, K : Straight(g, K)' = Straight(g, K)
         /\ \A K, t : ToVisit(K, t)' = ToVisit(K, t)
<1>1. \A c : Landing(c)' = Landing(c)
  BY DEF Landing
<1>2. Merges' = Merges
  BY DEF Merges
<1>3. SidesMeet' = SidesMeet
  BY <1>1 DEF SidesMeet
<1> QED
  BY <1>1, <1>2, <1>3 DEF GraphOK, Connected, Straight, OnePredecessor, SameLandings, ToVisit

\* The block the loop has come to, when it is to be taken out.
LEMMA AtEmptyBlock ==
  ASSUME IInv, ~aborted, ~Stuck, todo # <<>>, bb \in empty
  PROVE  bb \in Reachable(given) \cap empty /\ bb \in ToSet(todo) /\ bb \in Ids
<1>1. todo \in Seq(Ids) /\ ToSet(todo) \subseteq Reachable(given)
  BY DEF IInv, TypeOK, Running, ToVisit
<1>2. bb \in Ids /\ ToSet(todo) = {bb} \cup ToSet(Tail(todo))
  BY <1>1, HeadTailFacts DEF bb
<1> QED
  BY <1>1, <1>2

\* A block with contents is none of those to visit, and an empty one without
\* predecessors cannot be reached.
LEMMA PassOverIInv == IInv /\ PassOver => IInv'
<1> SUFFICES ASSUME IInv, PassOver PROVE IInv'
  OBVIOUS
<1>1. /\ ~aborted /\ ~removing /\ todo # <<>> /\ todo' = Tail(todo)
      /\ graph' = graph /\ empty' = empty /\ succ' = succ /\ preds' = preds
      /\ removing' = removing /\ aborted' = aborted /\ given' = given
      /\ (graph.preds[bb] = {} \/ bb \notin empty)
  BY DEF PassOver, IsStartBlock, HasNoPredecessors
<1>2. TypeOK /\ \A b \in empty : given.term[b] = "none"
  BY DEF IInv
<1>3. ~Cut /\ ~Stuck /\ Kept = graph.blocks /\ ~Cut' /\ ~Stuck' /\ Kept' = graph.blocks
  BY <1>1 DEF Cut, Stuck, Kept
<1>4. /\ GraphOK(graph, graph.blocks) /\ ToVisit(graph.blocks, todo)
      /\ Connected(graph, graph.blocks) /\ (Merges \/ Straight(graph, graph.blocks))
  BY <1>1, <1>3 DEF IInv, Running
<1>5. todo' \in Seq(Ids) /\ ToSet(todo) = {bb} \cup ToSet(todo')
  BY <1>1, <1>2, HeadTailFacts DEF TypeOK, bb
<1>6. TypeOK'
  BY <1>1, <1>2, <1>5 DEF TypeOK
<1>7. ToVisit(graph.blocks, todo')
  <2>1. bb \notin (graph.blocks \cap empty \cap Reachable(given)) \ {Start}
    BY <1>1, <1>2, <1>4, HasOtherPred
  <2> QED
    BY <1>4, <1>5, <2>1 DEF ToVisit
<1>8. Running'
  BY <1>1, <1>3, <1>4, <1>7, Unchanging DEF Running, RemovingOK
<1> QED
  BY <1>1, <1>2, <1>6, <1>8 DEF IInv

\* The block whose removal begins still has its edge.
LEMMA RemoveEmptyIInv == IInv /\ RemoveEmpty => IInv'
<1> SUFFICES ASSUME IInv, RemoveEmpty PROVE IInv'
  OBVIOUS
<1>1. /\ ~aborted /\ ~removing /\ todo # <<>> /\ removing'
      /\ succ' = graph.succs[bb][FALLTHROUGH] /\ preds' = graph.preds[bb] /\ removing' = TRUE
      /\ graph' = graph /\ empty' = empty /\ todo' = todo /\ aborted' = aborted /\ given' = given
      /\ graph.preds[bb] # {} /\ bb \in empty
  BY DEF RemoveEmpty, IsStartBlock, HasNoPredecessors
<1>2. TypeOK /\ \A b \in empty : given.term[b] = "none"
  BY DEF IInv
<1>3. ~Cut /\ ~Stuck /\ Kept = graph.blocks
  BY <1>1 DEF Cut, Stuck, Kept
<1>4. /\ GraphOK(graph, graph.blocks) /\ ToVisit(graph.blocks, todo)
      /\ Connected(graph, graph.blocks) /\ (Merges \/ Straight(graph, graph.blocks))
  BY <1>1, <1>3 DEF IInv, Running
<1>5. bb \in Ids /\ bb \in graph.blocks /\ bb # Start /\ bb' = bb
  <2>1. bb \in Ids /\ bb \in given.blocks
    BY <1>1, <1>2, <1>3, AtEmptyBlock DEF TypeOK
  <2> QED
    BY <1>1, <1>4, <2>1 DEF GraphOK, bb
<1>6. graph.succs[bb][FALLTHROUGH] \in Ids /\ FALLTHROUGH \in Slots
  <2>1. graph.term[bb] = "none" /\ graph \in Graphs /\ FALLTHROUGH \in Slots /\ FALLTHROUGH = 0
    BY <1>1, <1>2, <1>4, SlotFacts DEF GraphOK, TypeOK, FALLTHROUGH
  <2>2. FALLTHROUGH < GetNumSuccessors(graph, bb)
    BY <2>1 DEF GetNumSuccessors
  <2> QED
    BY <1>4, <1>5, <2>1, <2>2 DEF GraphOK, AllSlotsSet, Graphs
<1>7. TypeOK'
  BY <1>1, <1>2, <1>5, <1>6 DEF TypeOK, Graphs
<1>8. graph.succs[bb] # NoSuccs
  BY <1>6, FlowGraphAssumption DEF NoSuccs
<1>9. ~Cut' /\ ~Stuck' /\ Kept' = graph.blocks
  BY <1>1, <1>5, <1>8 DEF Cut, Stuck, Kept
<1>10. RemovingOK'
  BY <1>1, <1>5, <1>9 DEF RemovingOK
<1>11. Running'
  BY <1>1, <1>4, <1>9, <1>10, Unchanging DEF Running
<1> QED
  BY <1>1, <1>2, <1>7, <1>11 DEF IInv

\* Once the edge of the block is gone the next call fails.
LEMMA StuckAborts ==
  ASSUME TypeOK, Cut, NEW p \in Ids
  PROVE  ~CanRewire(p)
<1> SUFFICES ASSUME CanRewire(p) PROVE FALSE
  OBVIOUS
<1> DEFINE k == ReplaceSuccessor(graph, p, bb, succ)
<1>1. CanReplaceSuccessor(graph, p, bb, succ) /\ CanReplaceSuccessor(k, bb, succ, None)
  BY DEF CanRewire, Rewired
<1>2. graph \in Graphs /\ graph.succs[bb] = NoSuccs
  BY DEF TypeOK, Cut
<1>3. bb \in Ids /\ bb # None
  BY <1>1, <1>2, FlowGraphAssumption DEF CanReplaceSuccessor, Graphs
<1>4. p # bb
  BY <1>1, <1>2, <1>3 DEF CanReplaceSuccessor, HasSuccessor, IsSlotOf, NoSuccs
<1>5. k.blocks = graph.blocks /\ k.succs[bb] = graph.succs[bb]
  BY <1>2, <1>3, <1>4 DEF ReplaceSuccessor, Graphs
<1> HIDE DEF k
<1>6. succ \in Ids /\ succ # None
  BY <1>1, <1>2, <1>5, FlowGraphAssumption DEF CanReplaceSuccessor, Graphs
<1> QED
  BY <1>1, <1>2, <1>5, <1>6 DEF CanReplaceSuccessor, HasSuccessor, IsSlotOf, NoSuccs

\* The first call cuts the block off: with one predecessor it is taken out, with
\* more the program will stop, and where a call fails paths meet.
LEMMA RewirePredIInv ==
  ASSUME IInv, NEW p \in Ids, RewirePred(p)
  PROVE  IInv'
<1> DEFINE h == ReplaceSuccessor(ReplaceSuccessor(graph, p, bb, succ), bb, succ, None)
<1>1. /\ ~aborted /\ removing /\ p \in preds
      /\ empty' = empty /\ todo' = todo /\ succ' = succ /\ removing' = removing /\ given' = given
      /\ IF CanRewire(p) THEN graph' = h /\ preds' = preds \ {p} /\ aborted' = aborted
                         ELSE aborted' = TRUE /\ graph' = graph /\ preds' = preds
  BY DEF RewirePred, Rewired
<1>2. TypeOK /\ (\A b \in empty : given.term[b] = "none") /\ todo # <<>> /\ bb' = bb
  BY <1>1 DEF IInv, bb
<1>3. CASE Stuck
  <2>1. ~CanRewire(p) /\ Merges
    BY <1>1, <1>2, <1>3, StuckAborts DEF Stuck, IInv, Running
  <2>2. TypeOK' /\ aborted'
    BY <1>1, <1>2, <2>1 DEF TypeOK
  <2> QED
    BY <1>1, <1>2, <2>1, <2>2, Unchanging DEF IInv
<1>4. CASE ~Stuck
  <2>1. ~Cut
    BY <1>1, <1>4 DEF Stuck
  <2>2. Kept = graph.blocks
    BY <2>1 DEF Kept
  <2>3. /\ GraphOK(graph, graph.blocks) /\ RemovingOK
        /\ ToVisit(graph.blocks, todo) /\ Connected(graph, graph.blocks)
        /\ (Merges \/ Straight(graph, graph.blocks))
    BY <1>1, <1>4, <2>2 DEF IInv, Running
  <2>4. /\ bb \in empty /\ bb \in graph.blocks /\ bb # Start
        /\ preds = graph.preds[bb] /\ succ = graph.succs[bb][FALLTHROUGH]
    BY <1>1, <2>1, <2>3 DEF RemovingOK
  <2>5. bb \in Reachable(given) \cap empty /\ bb \in Ids
    BY <1>1, <1>2, <1>4, <2>4, AtEmptyBlock
  <2>6. CASE ~CanRewire(p)
    <3>1. Merges \/ SidesMeet
      <4> SUFFICES ASSUME ~Merges, ~SidesMeet PROVE FALSE
        OBVIOUS
      <4>1. /\ CanReplaceSuccessor(graph, p, bb, succ)
            /\ CanReplaceSuccessor(ReplaceSuccessor(graph, p, bb, succ), bb, succ, None)
        BY <1>1, <1>2, <2>3, <2>4, <2>5, CallsSucceed
      <4> QED
        BY <2>6, <4>1 DEF CanRewire, Rewired
    <3>2. TypeOK' /\ aborted'
      BY <1>1, <1>2, <2>6 DEF TypeOK
    <3> QED
      BY <1>1, <1>2, <3>1, <3>2, Unchanging DEF IInv
  <2>7. CASE CanRewire(p)
    <3>1. /\ CanReplaceSuccessor(graph, p, bb, succ)
          /\ CanReplaceSuccessor(ReplaceSuccessor(graph, p, bb, succ), bb, succ, None)
      BY <2>7 DEF CanRewire, Rewired
    <3>2. /\ graph' = h /\ preds' = preds \ {p} /\ ~aborted' /\ aborted' = aborted
      BY <1>1, <2>7
    <3>3. WF(h) /\ h.blocks = graph.blocks /\ h.succs[bb] = NoSuccs
      <4> DEFINE k == ReplaceSuccessor(graph, p, bb, succ)
      <4>1. WF(graph) /\ graph \in Graphs /\ succ \in Ids \cup {None}
        BY <1>2, <2>3 DEF GraphOK, TypeOK
      <4>2. graph.term[bb] = "none" /\ succ # None /\ succ \in graph.blocks
        <5>1. graph.term[bb] = "none"
          BY <1>2, <2>3, <2>4 DEF GraphOK
        <5>2. FALLTHROUGH < GetNumSuccessors(graph, bb) /\ FALLTHROUGH \in Slots
          BY <5>1, SlotFacts DEF GetNumSuccessors, FALLTHROUGH
        <5>3. succ # None
          BY <2>3, <2>4, <5>2 DEF GraphOK, AllSlotsSet
        <5>4. succ \in SuccSet(graph, bb)
          BY <2>4, <5>2, <5>3 DEF SuccSet
        <5> QED
          BY <2>4, <4>1, <5>1, <5>3, <5>4 DEF WF, Shape, NoDangling
      <4>3. succ \in Ids /\ succ \in graph.blocks \cup {None}
        BY <4>1, <4>2
      <4>4. WF(k) /\ k.blocks = graph.blocks /\ k.term = graph.term
        BY <2>5, <3>1, <4>1, <4>3, ReplaceSuccessorWF, ReplaceSuccessorFacts
      <4>5. CanReplaceSuccessor(k, bb, succ, None) /\ None \in k.blocks \cup {None}
        BY <3>1
      <4> HIDE DEF k
      <4> DEFINE r == ReplaceSuccessor(k, bb, succ, None)
      <4>6. /\ WF(r) /\ r \in Graphs /\ r.blocks = k.blocks /\ r.term = k.term
            /\ \E s, t \in Slots : s # t /\ s < GetNumSuccessors(k, bb) /\ r.succs[bb][s] = None
        BY <2>5, <4>3, <4>4, <4>5, ReplaceSuccessorWF, ReplaceSuccessorFacts
      <4> HIDE DEF r
      <4>7. GetNumSuccessors(k, bb) = 1 /\ GetNumSuccessors(r, bb) = 1 /\ Slots = {0, 1}
        BY <4>2, <4>4, <4>6, SlotFacts DEF GetNumSuccessors
      <4>8. r.succs[bb][0] = None
        BY <4>6, <4>7
      <4>9. r.succs[bb][1] = None
        BY <2>4, <4>4, <4>6, <4>7 DEF WF, NoHiddenSlots
      <4>10. r.succs[bb] = NoSuccs
        <5>1. r.succs[bb] \in [Slots -> Ids \cup {None}]
          BY <2>5, <4>6 DEF Graphs
        <5> QED
          BY <4>7, <4>8, <4>9, <5>1 DEF NoSuccs
      <4> QED
        BY <4>4, <4>6, <4>10 DEF r, k
    <3> HIDE DEF h
    <3>4. TypeOK'
      BY <1>1, <1>2, <3>2, <3>3 DEF TypeOK, WF, Shape
    <3>5. Cut' /\ Kept' = graph.blocks \ {bb}
      BY <1>1, <1>2, <3>2, <3>3 DEF Cut, Kept
    <3>6. CASE preds' # {}
      <4>1. Stuck'
        BY <3>5, <3>6 DEF Stuck
      <4>2. Merges
        <5> SUFFICES ASSUME ~Merges PROVE FALSE
          OBVIOUS
        <5>1. \A q, r \in graph.preds[bb] : q = r
          BY <2>3, <2>4 DEF Straight, OnePredecessor
        <5> QED
          BY <1>1, <2>4, <3>2, <3>6, <5>1
      <4> QED
        BY <1>1, <1>2, <3>2, <3>4, <4>1, <4>2, Unchanging DEF IInv, Running
    <3>7. CASE preds' = {}
      <4>1. graph.preds[bb] = {p}
        BY <1>1, <2>4, <3>2, <3>7
      <4>2. /\ GraphOK(h, graph.blocks \ {bb}) /\ Connected(h, graph.blocks \ {bb})
            /\ h.preds[bb] = {}
            /\ (~Merges /\ Straight(graph, graph.blocks) => Straight(h, graph.blocks \ {bb}))
        BY <1>2, <2>3, <2>4, <2>5, <3>1, <4>1, Contracted DEF h
      <4>3. ~Stuck'
        BY <3>7 DEF Stuck
      <4>4. RemovingOK'
        BY <1>1, <1>2, <2>4, <3>2, <3>3, <3>5, <4>2 DEF RemovingOK
      <4>5. ToVisit(graph.blocks \ {bb}, todo)
        BY <2>3 DEF ToVisit
      <4>6. Running'
        BY <1>1, <2>3, <3>2, <3>5, <4>2, <4>3, <4>4, <4>5, Unchanging DEF Running
      <4> QED
        BY <1>1, <1>2, <3>2, <3>4, <4>6 DEF IInv
    <3> QED
      BY <3>6, <3>7
  <2> QED
    BY <2>6, <2>7
<1> QED
  BY <1>3, <1>4

\* The block that is destroyed was cut off, so its assertions hold.
LEMMA DestroyEmptyIInv == IInv /\ DestroyEmpty => IInv'
<1> SUFFICES ASSUME IInv, DestroyEmpty PROVE IInv'
  OBVIOUS
<1>1. /\ ~aborted /\ removing /\ preds = {} /\ removing' = FALSE /\ todo' = Tail(todo)
      /\ empty' = empty /\ succ' = succ /\ preds' = preds /\ given' = given
      /\ IF CanDestroy(graph, bb) THEN graph' = DestroyBlock(graph, bb) /\ aborted' = aborted
                                  ELSE aborted' = TRUE /\ graph' = graph
  BY DEF DestroyEmpty
<1>2. TypeOK /\ (\A b \in empty : given.term[b] = "none") /\ todo # <<>>
  BY <1>1 DEF IInv
<1>3. ~Stuck
  BY <1>1 DEF Stuck
<1>4. /\ GraphOK(graph, Kept) /\ RemovingOK /\ ToVisit(Kept, todo)
      /\ Connected(graph, Kept) /\ (Merges \/ Straight(graph, Kept))
  BY <1>1, <1>3 DEF IInv, Running
<1>5. bb \in empty /\ bb \in graph.blocks /\ bb # Start
  BY <1>1, <1>4 DEF RemovingOK
<1>6. bb \in Reachable(given) \cap empty /\ bb \in Ids
  BY <1>1, <1>2, <1>3, <1>5, AtEmptyBlock
<1>7. Cut
  <2> SUFFICES ASSUME ~Cut PROVE FALSE
    OBVIOUS
  <2>1. Kept = graph.blocks /\ graph.preds[bb] = {}
    BY <1>1, <1>4 DEF Kept, RemovingOK
  <2> QED
    BY <1>2, <1>4, <1>5, <1>6, <2>1, HasOtherPred
<1> DEFINE K == graph.blocks \ {bb}
<1>8. Kept = K /\ graph.preds[bb] = {} /\ graph.succs[bb] = NoSuccs
  BY <1>1, <1>4, <1>7 DEF Kept, Cut, RemovingOK
<1>9. CanDestroy(graph, bb)
  BY <1>5, <1>8 DEF CanDestroy, HasNoPredecessors, HasNoSuccessors, NoSuccs
<1>10. graph \in Graphs /\ WF(graph)
  BY <1>4 DEF GraphOK, WF, Shape
<1>11. /\ graph' \in Graphs /\ WF(graph') /\ graph'.blocks = K /\ graph'.succs = graph.succs
       /\ graph'.preds = graph.preds /\ graph'.term = graph.term /\ ~aborted'
  <2>1. graph' = DestroyBlock(graph, bb) /\ ~aborted'
    BY <1>1, <1>9
  <2>2. WF(graph')
    BY <1>6, <1>9, <1>10, <2>1, DestroyBlockWF
  <2> QED
    BY <1>10, <2>1, <2>2 DEF DestroyBlock, Graphs, WF, Shape
<1>12. todo' \in Seq(Ids) /\ ToSet(todo) = {bb} \cup ToSet(todo')
  BY <1>1, <1>2, HeadTailFacts DEF TypeOK, bb
<1>13. TypeOK'
  BY <1>1, <1>2, <1>11, <1>12 DEF TypeOK
<1>14. ~Cut' /\ ~Stuck' /\ Kept' = K
  BY <1>1, <1>11 DEF Cut, Stuck, Kept
<1>15. GraphOK(graph', K)
  <2>1. \A b \in K, s \in Slots : s < GetNumSuccessors(graph', b) => graph'.succs[b][s] # None
    BY <1>4, <1>8, <1>11 DEF GraphOK, AllSlotsSet, GetNumSuccessors
  <2> QED
    BY <1>4, <1>8, <1>11, <2>1 DEF GraphOK, AllSlotsSet
<1>16. Connected(graph', K)
  <2>1. \A b \in Ids : SuccSet(graph', b) = SuccSet(graph, b)
    BY <1>11 DEF SuccSet
  <2>2. \A b \in Ids : ReachedFrom(graph', b) = ReachedFrom(graph, b)
    <3> DEFINE h == graph'
    <3>1. h \in Graphs /\ \A b \in Ids : SuccSet(h, b) = SuccSet(graph, b)
      BY <1>11, <2>1
    <3> HIDE DEF h
    <3>2. \A b \in Ids : ReachedFrom(h, b) = ReachedFrom(graph, b)
      BY <1>10, <3>1, SameEdgesSameReach
    <3> QED
      BY <3>2 DEF h
  <2>3. K \subseteq Ids
    BY <1>10 DEF Graphs
  <2> QED
    BY <1>4, <1>8, <2>2, <2>3 DEF Connected
<1>17. Merges \/ Straight(graph', K)
  BY <1>4, <1>8, <1>11 DEF Straight, OnePredecessor, SameLandings
<1>18. ToVisit(K, todo')
  BY <1>4, <1>8, <1>12 DEF ToVisit
<1>19. Running'
  BY <1>1, <1>14, <1>15, <1>16, <1>17, <1>18, Unchanging DEF Running, RemovingOK
<1> QED
  BY <1>1, <1>2, <1>11, <1>13, <1>19 DEF IInv

-----------------------------------------------------------------------------
\* RemoveEmpty, RPO's snapshot and the calls on the edges together: between two
\* calls the pass knows of every block that is still to go, and of a graph where
\* paths meet that the program will stop.
THEOREM SpecIInv == Spec => []IInv
<1>1. IInv /\ [Next]_vars => IInv'
  <2> SUFFICES ASSUME IInv, [Next]_vars PROVE IInv'
    OBVIOUS
  <2>1. CASE PassOver
    BY <2>1, PassOverIInv
  <2>2. CASE RemoveEmpty
    BY <2>2, RemoveEmptyIInv
  <2>3. ASSUME NEW p \in Ids, RewirePred(p) PROVE IInv'
    BY <2>3, RewirePredIInv
  <2>4. CASE DestroyEmpty
    BY <2>4, DestroyEmptyIInv
  <2>5. CASE UNCHANGED vars
    <3>1. /\ graph' = graph /\ empty' = empty /\ todo' = todo /\ succ' = succ /\ preds' = preds
          /\ removing' = removing /\ aborted' = aborted /\ given' = given
      BY <2>5 DEF vars
    <3>2. bb' = bb /\ (Cut' <=> Cut) /\ (Stuck' <=> Stuck) /\ Kept' = Kept
      BY <3>1 DEF bb, Cut, Stuck, Kept
    <3>3. RemovingOK' <=> RemovingOK
      BY <3>1, <3>2 DEF RemovingOK
    <3>4. Running' <=> Running
      BY <3>1, <3>2, <3>3, Unchanging DEF Running
    <3> QED
      BY <3>1, <3>4, Unchanging DEF IInv, TypeOK
  <2> QED
    BY <2>1, <2>2, <2>3, <2>4, <2>5 DEF Next
<1> QED
  BY <1>1, InitIInv, PTL DEF Spec

\* What holds when the loop of DBE::Run has come to its end.
LEMMA AtEnd ==
  ASSUME IInv, Finished
  PROVE  /\ TypeOK /\ GraphOK(graph, graph.blocks) /\ Connected(graph, graph.blocks)
         /\ ToVisit(graph.blocks, <<>>)
<1>1. ~removing /\ ~aborted /\ todo = <<>>
  BY DEF IInv, Finished
<1>2. ~Stuck /\ Kept = graph.blocks
  BY <1>1 DEF Cut, Stuck, Kept
<1> QED
  BY <1>1, <1>2 DEF IInv, Running

\* However many empty blocks are taken out, the blocks that stay reach each other
\* as they did: sending predecessors on never loses or makes up a path.
THEOREM KeepsPathsAlways == Spec => []KeepsPaths
<1>1. IInv => KeepsPaths
  <2> SUFFICES ASSUME IInv, Finished, NEW b \in graph.blocks
               PROVE  ReachedFrom(graph, b) = ReachedFrom(given, b) \cap graph.blocks
    BY DEF KeepsPaths
  <2>1. GraphOK(graph, graph.blocks) /\ Connected(graph, graph.blocks)
    BY AtEnd
  <2>2. graph \in Graphs /\ graph.blocks \subseteq Ids /\ \A c \in graph.blocks : SuccSet(graph, c) \subseteq graph.blocks
    BY <2>1 DEF GraphOK, WF, Shape, Graphs, NoDangling
  <2>3. ReachedFrom(graph, b) \subseteq graph.blocks
    BY <2>2, ReachedFromLeast
  <2> QED
    BY <2>1, <2>3 DEF Connected
<1> QED
  BY <1>1, SpecIInv, PTL

\* The loop runs over the blocks RPO listed before the first was removed, and yet
\* it misses none: at its end no empty block but the start block can be reached.
THEOREM EmptyBlocksGoneAlways == Spec => []EmptyBlocksGone
<1>1. IInv => EmptyBlocksGone
  <2> SUFFICES ASSUME IInv, Finished, NEW b \in Reachable(graph) \cap empty, b # Start PROVE FALSE
    BY DEF EmptyBlocksGone
  <2>1. TypeOK /\ GraphOK(graph, graph.blocks) /\ Connected(graph, graph.blocks) /\ ToVisit(graph.blocks, <<>>)
    BY AtEnd
  <2>2. /\ graph \in Graphs /\ Start \in graph.blocks /\ graph.blocks \subseteq Ids
        /\ \A c \in graph.blocks : SuccSet(graph, c) \subseteq graph.blocks
    BY <2>1 DEF GraphOK, WF, Shape, Graphs, NoDangling
  <2>3. b \in graph.blocks
    BY <2>2, ReachableFacts
  <2>4. b \in Reachable(given)
    BY <2>1, <2>3, StillReached
  <2>5. b \in ToSet(<<>>)
    BY <2>1, <2>3, <2>4 DEF ToVisit
  <2> QED
    BY <2>5 DEF ToSet
<1> QED
  BY <1>1, SpecIInv, PTL

\* No assertion fails but where an empty block has several predecessors, or the
\* two sides of a branch come together after nothing but empty blocks.
THEOREM AbortsAtMergesOnlyAlways == Spec => []AbortsAtMergesOnly
<1>1. IInv => AbortsAtMergesOnly
  BY DEF IInv, AbortsAtMergesOnly, Merges, SidesMeet
<1> QED
  BY <1>1, SpecIInv, PTL
=============================================================================
