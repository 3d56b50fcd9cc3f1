--------------------------- MODULE DomTreeProofs ---------------------------
(***************************************************************************)
(* The four traversals on any graph: what each of them lists, and in what  *)
(* order.  Then the dominator tree, which takes its numbers from one of    *)
(* them: what FillTree builds is the depth-first tree, what ComputeSdoms   *)
(* finds are the semidominators, and what ComputeDoms makes of them are    *)
(* the immediate dominators.  What semidominators have to do with          *)
(* dominators on a given depth-first tree is shown in FlowGraphProofs.     *)
(***************************************************************************)
EXTENDS DomTree, FlowGraphProofs

-----------------------------------------------------------------------------
\* The steps of a traversal.

Frames == [bb : Ids, todo : Seq(Ids)]

TypeOK ==
  /\ graph \in Inputs /\ pass \in Passes
  /\ stack \in Seq(Frames) /\ queue \in Seq(Ids)
  /\ visited \in SUBSET Ids /\ blocks \in Seq(Ids)
  /\ IF pass = "BFS" THEN stack = <<>> ELSE queue = <<>>

\* The active call, and the successors that its loop has not come to.
Depth == Len(stack)
Active == stack[Len(stack)].bb
Ahead == stack[Len(stack)].todo

\* The graph is one, and a block has at most two successors, among the ids.
LEMMA GraphFacts ==
  ASSUME TypeOK
  PROVE  /\ graph \in Graphs /\ Start \in Ids
         /\ \A b \in Ids : /\ SuccSet(graph, b) \subseteq Ids
                          /\ GetSuccessors(graph, b) \in Seq(Ids)
                          /\ ToSet(GetSuccessors(graph, b)) = SuccSet(graph, b)
                          /\ Len(GetSuccessors(graph, b)) <= 2
<1>1. graph \in Graphs /\ Start \in Ids
  BY InputsAssumption, FlowGraphAssumption DEF TypeOK
<1>2. ASSUME NEW b \in Ids
      PROVE  /\ SuccSet(graph, b) \subseteq Ids
             /\ GetSuccessors(graph, b) \in Seq(Ids)
             /\ ToSet(GetSuccessors(graph, b)) = SuccSet(graph, b)
             /\ Len(GetSuccessors(graph, b)) <= 2
  <2>1. SuccSet(graph, b) \subseteq Ids /\ SuccSet(graph, b) \ {None} = SuccSet(graph, b)
    BY <1>1, SuccSetInIds DEF SuccSet
  <2> QED
    BY <1>1, <2>1, SuccessorsFacts DEF GetSuccessors
<1> QED
  BY <1>1, <1>2

\* The topmost call on a stack that is not empty.
LEMMA TopFacts ==
  ASSUME TypeOK, stack # <<>>
  PROVE  /\ Depth \in Nat \ {0} /\ Active \in Ids /\ Ahead \in Seq(Ids)
         /\ Top = [bb |-> Active, todo |-> Ahead]
         /\ pass \in {"PO", "RPO", "DFS"}
<1>1. Depth \in Nat \ {0} /\ Top = stack[Depth] /\ Top \in Frames
  BY FrontFacts DEF TypeOK, Depth, Top
<1> QED
  BY <1>1 DEF Frames, Active, Ahead, Depth, TypeOK, Passes

\* Taking a successor off a call changes nothing else of it or of the stack.
LEMMA ExceptTodo ==
  ASSUME NEW b, NEW t, NEW u
  PROVE  [[bb |-> b, todo |-> t] EXCEPT !.todo = u] = [bb |-> b, todo |-> u]
  OBVIOUS

LEMMA AdvancedFacts ==
  ASSUME TypeOK, stack # <<>>, Top.todo # <<>>
  PROVE  LET r == Append(Front(stack), [Top EXCEPT !.todo = Tail(@)])
         IN  /\ r \in Seq(Frames) /\ Len(r) = Depth
             /\ r[Depth] = [bb |-> Active, todo |-> Tail(Ahead)]
             /\ \A k \in 1 .. Depth - 1 : r[k] = stack[k]
<1>1. /\ Depth \in Nat \ {0} /\ Active \in Ids /\ Ahead \in Seq(Ids) /\ Ahead # <<>>
      /\ Top = [bb |-> Active, todo |-> Ahead]
  BY TopFacts
<1>2. [Top EXCEPT !.todo = Tail(@)] = [bb |-> Active, todo |-> Tail(Ahead)]
  <2>1. Top.todo = Ahead
    BY <1>1
  <2>2. [[bb |-> Active, todo |-> Ahead] EXCEPT !.todo = Tail(Ahead)]
        = [bb |-> Active, todo |-> Tail(Ahead)]
    BY ExceptTodo
  <2> QED
    BY <1>1, <2>1, <2>2, Zenon
<1>3. [bb |-> Active, todo |-> Tail(Ahead)] \in Frames
  BY <1>1, HeadTailFacts DEF Frames
<1>4. stack \in Seq(Frames) /\ Depth = Len(stack)
  BY DEF TypeOK, Depth
<1> QED
  BY <1>2, <1>3, <1>4, ReplaceTop

\* What each of the actions does, by index instead of with Append and Front.
LEMMA DescendFacts ==
  ASSUME TypeOK, Descend
  PROVE  /\ stack # <<>> /\ Ahead # <<>> /\ Head(Ahead) \in Ids \ visited
         /\ stack' \in Seq(Frames) /\ Len(stack') = Depth + 1
         /\ \A k \in 1 .. Depth - 1 : stack'[k] = stack[k]
         /\ stack'[Depth] = [bb |-> Active, todo |-> Tail(Ahead)]
         /\ stack'[Depth + 1] = [bb |-> Head(Ahead), todo |-> GetSuccessors(graph, Head(Ahead))]
         /\ visited' = visited \cup {Head(Ahead)}
         /\ blocks' = IF pass = "PO" THEN blocks ELSE Append(blocks, Head(Ahead))
         /\ UNCHANGED <<graph, pass, queue>>
<1>1. stack # <<>> /\ Top.todo # <<>>
  BY DEF Descend
<1>2. /\ Depth \in Nat \ {0} /\ Active \in Ids /\ Ahead \in Seq(Ids) /\ Ahead # <<>>
      /\ Top = [bb |-> Active, todo |-> Ahead] /\ pass \in {"PO", "RPO", "DFS"}
  BY <1>1, TopFacts
<1> DEFINE rest == Append(Front(stack), [Top EXCEPT !.todo = Tail(@)])
<1>3. /\ rest \in Seq(Frames) /\ Len(rest) = Depth
      /\ rest[Depth] = [bb |-> Active, todo |-> Tail(Ahead)]
      /\ \A k \in 1 .. Depth - 1 : rest[k] = stack[k]
  BY <1>1, AdvancedFacts
<1>4. /\ Head(Ahead) \notin visited /\ stack' = Append(rest, Call(Head(Ahead)))
      /\ visited' = visited \cup {Head(Ahead)} /\ blocks' = blocks \o ListedAtEntry(Head(Ahead))
      /\ UNCHANGED <<graph, pass, queue>>
  BY <1>2 DEF Descend, IsFresh
<1> HIDE DEF rest
<1>5. Head(Ahead) \in Ids
  BY <1>2, HeadTailFacts
<1>6. Call(Head(Ahead)) = [bb |-> Head(Ahead), todo |-> GetSuccessors(graph, Head(Ahead))]
  BY DEF Call
<1>7. [bb |-> Head(Ahead), todo |-> GetSuccessors(graph, Head(Ahead))] \in Frames
  BY <1>5, GraphFacts DEF Frames
<1>8. /\ stack' \in Seq(Frames) /\ Len(stack') = Depth + 1
      /\ stack'[Depth + 1] = Call(Head(Ahead))
      /\ \A k \in 1 .. Depth : stack'[k] = rest[k]
  BY <1>3, <1>4, <1>6, <1>7, AppendFacts
<1>9. blocks' = IF pass = "PO" THEN blocks ELSE Append(blocks, Head(Ahead))
  <2>1. blocks \in Seq(Ids)
    BY DEF TypeOK
  <2> QED
    BY <1>2, <1>4, <1>5, <2>1, AppendIsConcat, ConcatEmptySeq DEF ListedAtEntry
<1> QED
  BY <1>1, <1>2, <1>3, <1>4, <1>5, <1>6, <1>8, <1>9

LEMMA SkipFacts ==
  ASSUME TypeOK, Skip
  PROVE  /\ stack # <<>> /\ Ahead # <<>> /\ Head(Ahead) \in visited
         /\ stack' \in Seq(Frames) /\ Len(stack') = Depth
         /\ \A k \in 1 .. Depth - 1 : stack'[k] = stack[k]
         /\ stack'[Depth] = [bb |-> Active, todo |-> Tail(Ahead)]
         /\ UNCHANGED <<graph, pass, queue, visited, blocks>>
<1>1. stack # <<>> /\ Top.todo # <<>>
  BY DEF Skip
<1>2. Top = [bb |-> Active, todo |-> Ahead]
  BY <1>1, TopFacts
<1> QED
  BY <1>1, <1>2, AdvancedFacts DEF Skip, IsFresh

LEMMA ReturnFacts ==
  ASSUME TypeOK, Return
  PROVE  /\ stack # <<>> /\ Ahead = <<>>
         /\ stack' \in Seq(Frames) /\ Len(stack') = Depth - 1
         /\ \A k \in 1 .. Depth - 1 : stack'[k] = stack[k]
         /\ blocks' = IF pass = "PO" THEN Append(blocks, Active) ELSE blocks
         /\ UNCHANGED <<graph, pass, queue, visited>>
<1>1. stack # <<>> /\ Top.todo = <<>>
  BY DEF Return
<1>2. /\ Top = [bb |-> Active, todo |-> Ahead] /\ Active \in Ids
      /\ pass \in {"PO", "RPO", "DFS"}
  BY <1>1, TopFacts
<1>3. stack' = Front(stack) /\ blocks' = blocks \o ListedAtExit(Active) /\ UNCHANGED <<graph, pass, queue, visited>>
  BY <1>2 DEF Return
<1>4. /\ stack' \in Seq(Frames) /\ Len(stack') = Depth - 1
      /\ \A k \in 1 .. Depth - 1 : stack'[k] = stack[k]
  BY <1>1, <1>3, FrontFacts DEF TypeOK, Depth
<1>5. blocks' = IF pass = "PO" THEN Append(blocks, Active) ELSE blocks
  <2>1. blocks \in Seq(Ids)
    BY DEF TypeOK
  <2> QED
    BY <1>2, <1>3, <2>1, AppendIsConcat, ConcatEmptySeq DEF ListedAtExit
<1> QED
  BY <1>1, <1>2, <1>3, <1>4, <1>5

LEMMA DequeueFacts ==
  ASSUME TypeOK, Dequeue
  PROVE  LET new == SuccessorsBut(graph, Head(queue), visited \cup {None})
         IN  /\ queue # <<>> /\ Head(queue) \in Ids /\ pass = "BFS"
             /\ new \in Seq(Ids) /\ ToSet(new) = SuccSet(graph, Head(queue)) \ visited
             /\ queue' = Tail(queue) \o new /\ visited' = visited \cup ToSet(new)
             /\ blocks' = Append(blocks, Head(queue))
             /\ UNCHANGED <<graph, pass, stack>>
<1>1. queue # <<>> /\ queue \in Seq(Ids) /\ pass = "BFS"
  BY DEF Dequeue, TypeOK
<1>2. Head(queue) \in Ids
  BY <1>1, HeadTailFacts
<1> DEFINE new == SuccessorsBut(graph, Head(queue), visited \cup {None})
<1>3. /\ queue' = Tail(queue) \o new /\ visited' = visited \cup ToSet(new)
      /\ blocks' = Append(blocks, Head(queue)) /\ UNCHANGED <<graph, pass, stack>>
  BY DEF Dequeue, Enqueue
<1>4. new \in Seq(Ids) /\ ToSet(new) = SuccSet(graph, Head(queue)) \ (visited \cup {None})
  <2>1. graph \in Graphs /\ None \in visited \cup {None}
    BY GraphFacts
  <2> QED
    BY <1>2, <2>1, SuccessorsFacts
<1>5. SuccSet(graph, Head(queue)) \ (visited \cup {None}) = SuccSet(graph, Head(queue)) \ visited
  BY DEF SuccSet
<1> HIDE DEF new
<1> QED
  BY <1>1, <1>2, <1>3, <1>4, <1>5 DEF new

-----------------------------------------------------------------------------
\* What a traversal has marked and what it has listed.

\* A marked block can be reached, and is on the stack while it has successors
\* that are not marked.
MarkedReachable == Start \in visited /\ visited \subseteq Reachable(graph)

CallsMarked ==
  \A k \in 1 .. Len(stack) : /\ stack[k].bb \in visited
                             /\ ToSet(stack[k].todo) \subseteq SuccSet(graph, stack[k].bb)

LeftBehind(b, c) == \E k \in 1 .. Len(stack) : stack[k].bb = b /\ c \in ToSet(stack[k].todo)

SuccessorsMarked ==
  IF pass = "BFS" THEN \A b \in ToSet(blocks) : SuccSet(graph, b) \subseteq visited
  ELSE \A b \in visited : \A c \in SuccSet(graph, b) : c \in visited \/ LeftBehind(b, c)

\* RPO and DFS have listed what they marked, PO and BFS what they are through with.
OnStack == {stack[k].bb : k \in 1 .. Len(stack)}

CallsDistinct == \A j, k \in 1 .. Len(stack) : stack[j].bb = stack[k].bb => j = k

Unlisted == CASE pass = "PO" -> OnStack [] pass = "BFS" -> ToSet(queue) [] OTHER -> {}

ListedOnce ==
  /\ IsInjective(blocks) /\ IsInjective(queue)
  /\ ToSet(blocks) \cup Unlisted = visited
  /\ ToSet(blocks) \cap Unlisted = {}
  /\ pass = "PO" => CallsDistinct

ListInv == TypeOK /\ MarkedReachable /\ CallsMarked /\ SuccessorsMarked /\ ListedOnce

\* An element put at the end of a list that does not hold it.
LEMMA AppendInjective2 ==
  ASSUME NEW S, NEW s \in Seq(S), NEW e \in S, IsInjective(s), e \notin ToSet(s)
  PROVE  IsInjective(Append(s, e))
<1>1. /\ Append(s, e) \in Seq(S) /\ Len(Append(s, e)) = Len(s) + 1 /\ Append(s, e)[Len(s) + 1] = e
      /\ \A k \in 1 .. Len(s) : Append(s, e)[k] = s[k] /\ s[k] # e
      /\ Len(s) \in Nat
  BY AppendFacts, ToSetFacts
<1>2. \A j, k \in 1 .. Len(s) : s[j] = s[k] => j = k
  BY ToSetFacts DEF IsInjective
<1>3. DOMAIN Append(s, e) = 1 .. Len(s) + 1
  BY <1>1
<1> SUFFICES ASSUME NEW j \in 1 .. Len(s) + 1, NEW k \in 1 .. Len(s) + 1,
                    Append(s, e)[j] = Append(s, e)[k]
             PROVE  j = k
  BY <1>3 DEF IsInjective
<1> QED
  BY <1>1, <1>2

\* A list without repetition that grows by another, or loses its head.
LEMMA ConcatInjective ==
  ASSUME NEW S, NEW s \in Seq(S), NEW t \in Seq(S), IsInjective(s), IsInjective(t),
         ToSet(s) \cap ToSet(t) = {}
  PROVE  IsInjective(s \o t)
<1>1. /\ DOMAIN (s \o t) = 1 .. Len(s) + Len(t) /\ Len(s) \in Nat /\ Len(t) \in Nat
      /\ \A k \in 1 .. Len(s) : (s \o t)[k] = s[k] /\ s[k] \in ToSet(s)
      /\ \A k \in 1 .. Len(t) : (s \o t)[Len(s) + k] = t[k] /\ t[k] \in ToSet(t)
  BY ConcatFacts, ToSetFacts
<1>2. /\ \A j, k \in 1 .. Len(s) : s[j] = s[k] => j = k
      /\ \A j, k \in 1 .. Len(t) : t[j] = t[k] => j = k
  BY ToSetFacts DEF IsInjective
<1>3. ASSUME NEW k \in 1 .. Len(s) + Len(t), k \notin 1 .. Len(s)
      PROVE  k - Len(s) \in 1 .. Len(t) /\ Len(s) + (k - Len(s)) = k
  BY <1>1, <1>3
<1> SUFFICES ASSUME NEW j \in 1 .. Len(s) + Len(t), NEW k \in 1 .. Len(s) + Len(t),
                    (s \o t)[j] = (s \o t)[k]
             PROVE  j = k
  BY <1>1 DEF IsInjective
<1>4. CASE j \in 1 .. Len(s) /\ k \in 1 .. Len(s)
  BY <1>1, <1>2, <1>4
<1>5. CASE j \notin 1 .. Len(s) /\ k \notin 1 .. Len(s)
  <2>1. t[j - Len(s)] = t[k - Len(s)]
    BY <1>1, <1>3, <1>5
  <2>2. j - Len(s) = k - Len(s)
    BY <1>2, <1>3, <1>5, <2>1
  <2> QED
    BY <1>1, <2>2
<1>6. CASE j \in 1 .. Len(s) /\ k \notin 1 .. Len(s)
  BY <1>1, <1>3, <1>6
<1>7. CASE j \notin 1 .. Len(s) /\ k \in 1 .. Len(s)
  BY <1>1, <1>3, <1>7
<1> QED
  BY <1>4, <1>5, <1>6, <1>7

LEMMA TailInjective ==
  ASSUME NEW S, NEW s \in Seq(S), s # <<>>, IsInjective(s)
  PROVE  IsInjective(Tail(s)) /\ Head(s) \notin ToSet(Tail(s))
<1>1. /\ Head(s) = s[1] /\ Tail(s) \in Seq(S) /\ Len(Tail(s)) = Len(s) - 1 /\ Len(s) \in Nat \ {0}
      /\ \A k \in 1 .. Len(s) - 1 : Tail(s)[k] = s[k + 1]
      /\ ToSet(Tail(s)) = {Tail(s)[k] : k \in 1 .. Len(Tail(s))} /\ DOMAIN Tail(s) = 1 .. Len(Tail(s))
  <2>1. /\ Head(s) = s[1] /\ Tail(s) \in Seq(S) /\ Len(Tail(s)) = Len(s) - 1 /\ Len(s) \in Nat \ {0}
        /\ \A k \in 1 .. Len(s) - 1 : Tail(s)[k] = s[k + 1]
    BY HeadTailFacts
  <2> QED
    BY <2>1, ToSetFacts
<1>2. \A j, k \in 1 .. Len(s) : s[j] = s[k] => j = k
  BY ToSetFacts DEF IsInjective
<1>3. ASSUME NEW j \in 1 .. Len(s) - 1, NEW k \in 1 .. Len(s) - 1, Tail(s)[j] = Tail(s)[k] PROVE j = k
  <2>1. j + 1 \in 1 .. Len(s) /\ k + 1 \in 1 .. Len(s) /\ s[j + 1] = s[k + 1]
    BY <1>1, <1>3
  <2> QED
    BY <1>2, <2>1
<1>4. ASSUME NEW k \in 1 .. Len(s) - 1 PROVE Tail(s)[k] # Head(s)
  <2>1. k + 1 \in 1 .. Len(s) /\ 1 \in 1 .. Len(s) /\ k + 1 # 1
    BY <1>1
  <2> QED
    BY <1>1, <1>2, <2>1
<1> QED
  BY <1>1, <1>3, <1>4 DEF IsInjective

\* ListInv holds at first, and each of the actions keeps it.
LEMMA InitListInv == Init => ListInv
<1> SUFFICES ASSUME Init PROVE ListInv
  OBVIOUS
<1>1. /\ graph \in Inputs /\ graph \in Graphs /\ pass \in Passes /\ visited = {Start} /\ Start \in Ids
  BY InputsAssumption, FlowGraphAssumption DEF Init
<1>2. /\ GetSuccessors(graph, Start) \in Seq(Ids)
      /\ ToSet(GetSuccessors(graph, Start)) = SuccSet(graph, Start)
  <2>1. None \in {None} /\ SuccSet(graph, Start) \ {None} = SuccSet(graph, Start)
    BY DEF SuccSet
  <2> QED
    BY <1>1, <2>1, SuccessorsFacts DEF GetSuccessors
<1>3. Start \in Reachable(graph)
  BY <1>1, ReachableFacts
<1>e. /\ ToSet(<<>>) = {} /\ ToSet(<<Start>>) = {Start}
      /\ IsInjective(<<>>) /\ IsInjective(<<Start>>)
      /\ <<>> \in Seq(Ids) /\ <<Start>> \in Seq(Ids)
  BY <1>1 DEF ToSet, IsInjective
<1>4. CASE pass = "BFS"
  <2>1. stack = <<>> /\ queue = <<Start>> /\ blocks = <<>>
    BY <1>4 DEF Init, ListedAtEntry
  <2> QED
    BY <1>1, <1>3, <1>4, <1>e, <2>1
    DEF ListInv, TypeOK, MarkedReachable, CallsMarked, SuccessorsMarked, ListedOnce, Unlisted
<1>5. CASE pass # "BFS"
  <2>1. /\ stack = <<[bb |-> Start, todo |-> GetSuccessors(graph, Start)]>> /\ queue = <<>>
        /\ blocks = IF pass = "PO" THEN <<>> ELSE <<Start>>
    BY <1>1, <1>5 DEF Init, ListedAtEntry, Passes, Call
  <2>2. [bb |-> Start, todo |-> GetSuccessors(graph, Start)] \in Frames
    BY <1>1, <1>2 DEF Frames
  <2>3. /\ stack \in Seq(Frames) /\ Len(stack) = 1 /\ stack[1].bb = Start
        /\ stack[1].todo = GetSuccessors(graph, Start)
    BY <2>1, <2>2
  <2>4. TypeOK
    BY <1>1, <1>5, <1>e, <2>1, <2>3 DEF TypeOK
  <2>5. 1 .. Len(stack) = {1}
    BY <2>3
  <2>6. CallsMarked /\ OnStack = {Start} /\ CallsDistinct
    BY <1>1, <1>2, <2>3, <2>5 DEF CallsMarked, OnStack, CallsDistinct
  <2>7. SuccessorsMarked
    BY <1>1, <1>2, <1>5, <2>3, <2>5 DEF SuccessorsMarked, LeftBehind
  <2>8. ListedOnce
    BY <1>1, <1>5, <1>e, <2>1, <2>6 DEF ListedOnce, Unlisted, Passes
  <2> QED
    BY <1>1, <1>3, <2>4, <2>6, <2>7, <2>8 DEF ListInv, MarkedReachable
<1> QED
  BY <1>4, <1>5

\* The list of a pass that lists nothing new, or one block that it marks or is
\* through with.
LEMMA ListedBefore ==
  ASSUME TypeOK, NEW b \in Ids, b \notin ToSet(blocks), IsInjective(blocks)
  PROVE  /\ Append(blocks, b) \in Seq(Ids) /\ IsInjective(Append(blocks, b))
         /\ ToSet(Append(blocks, b)) = ToSet(blocks) \cup {b}
<1>1. blocks \in Seq(Ids)
  BY DEF TypeOK
<1> QED
  BY <1>1, AppendFacts, AppendInjective2

\* The indices of a stack that grows or shrinks by one.
LEMMA SetsOfStack ==
  ASSUME NEW n \in Nat \ {0}
  PROVE  1 .. n = 1 .. n - 1 \cup {n} /\ 1 .. n + 1 = 1 .. n - 1 \cup {n, n + 1} /\ n \notin 1 .. n - 1
         /\ n + 1 \notin 1 .. n
  OBVIOUS

LEMMA DescendListInv == ASSUME ListInv, Descend PROVE ListInv'
<1> DEFINE n == Depth
           b == Active
           list == Ahead
           succ == Head(Ahead)
<1>t. TypeOK /\ MarkedReachable /\ CallsMarked /\ SuccessorsMarked /\ ListedOnce
  BY DEF ListInv
<1>1. /\ stack # <<>> /\ list # <<>> /\ succ \in Ids \ visited
      /\ stack' \in Seq(Frames) /\ Len(stack') = n + 1
      /\ \A k \in 1 .. n - 1 : stack'[k] = stack[k]
      /\ stack'[n] = [bb |-> b, todo |-> Tail(list)]
      /\ stack'[n + 1] = [bb |-> succ, todo |-> GetSuccessors(graph, succ)]
      /\ visited' = visited \cup {succ}
      /\ blocks' = IF pass = "PO" THEN blocks ELSE Append(blocks, succ)
      /\ graph' = graph /\ pass' = pass /\ queue' = queue
  BY <1>t, DescendFacts
<1>2. /\ n \in Nat \ {0} /\ b \in Ids /\ list \in Seq(Ids) /\ pass \in {"PO", "RPO", "DFS"}
      /\ Len(stack) = n /\ stack[n].bb = b /\ stack[n].todo = list
      /\ queue = <<>> /\ graph \in Graphs
  BY <1>t, <1>1, TopFacts, GraphFacts DEF Depth, Active, Ahead, TypeOK
<1>3. /\ b \in visited /\ ToSet(list) \subseteq SuccSet(graph, b)
      /\ ToSet(list) = {succ} \cup ToSet(Tail(list))
  <2>1. ToSet(list) = {succ} \cup ToSet(Tail(list))
    BY <1>1, <1>2, HeadTailFacts
  <2>2. n \in 1 .. Len(stack)
    BY <1>2
  <2> HIDE DEF n, b, list, succ
  <2> QED
    BY <1>t, <1>2, <2>1, <2>2 DEF CallsMarked
<1>4. /\ GetSuccessors(graph, succ) \in Seq(Ids)
      /\ ToSet(GetSuccessors(graph, succ)) = SuccSet(graph, succ)
  BY <1>t, <1>1, GraphFacts
<1>5. /\ 1 .. n = 1 .. n - 1 \cup {n} /\ 1 .. n + 1 = 1 .. n - 1 \cup {n, n + 1}
      /\ n \notin 1 .. n - 1 /\ n + 1 \notin 1 .. n
  BY <1>2, SetsOfStack
<1>l. blocks \in Seq(Ids) /\ IsInjective(blocks) /\ ToSet(blocks) \subseteq visited
  BY <1>t DEF TypeOK, ListedOnce
<1>b. /\ blocks' \in Seq(Ids) /\ IsInjective(blocks')
      /\ ToSet(blocks') = IF pass = "PO" THEN ToSet(blocks) ELSE ToSet(blocks) \cup {succ}
  <2>1. succ \in Ids /\ succ \notin ToSet(blocks)
    BY <1>1, <1>l
  <2> HIDE DEF succ
  <2>2. /\ Append(blocks, succ) \in Seq(Ids) /\ IsInjective(Append(blocks, succ))
        /\ ToSet(Append(blocks, succ)) = ToSet(blocks) \cup {succ}
    BY <1>t, <1>l, <2>1, ListedBefore
  <2> QED
    BY <1>1, <1>l, <2>2
<1> HIDE DEF n, b, list, succ
<1>f. /\ stack'[n].bb = b /\ stack'[n].todo = Tail(list)
      /\ stack'[n + 1].bb = succ /\ stack'[n + 1].todo = GetSuccessors(graph, succ)
      /\ \A k \in 1 .. n - 1 : stack'[k].bb = stack[k].bb /\ stack'[k].todo = stack[k].todo
      /\ n \in 1 .. n + 1 /\ n + 1 \in 1 .. n + 1 /\ n \in 1 .. n
  BY <1>1, <1>2
<1>6. TypeOK'
  BY <1>t, <1>1, <1>2, <1>b DEF TypeOK
<1>7. MarkedReachable'
  <2>1. succ \in Reachable(graph)
    BY <1>t, <1>2, <1>3, ReachableFacts DEF MarkedReachable
  <2> QED
    BY <1>t, <1>1, <2>1 DEF MarkedReachable
<1>8. CallsMarked'
  <2> SUFFICES ASSUME NEW k \in 1 .. n + 1
               PROVE  /\ stack'[k].bb \in visited'
                      /\ ToSet(stack'[k].todo) \subseteq SuccSet(graph, stack'[k].bb)
    BY <1>1 DEF CallsMarked
  <2>1. CASE k \in 1 .. n - 1
    <3>1. stack[k].bb \in visited /\ ToSet(stack[k].todo) \subseteq SuccSet(graph, stack[k].bb)
      BY <1>t, <1>2, <1>5, <2>1 DEF CallsMarked
    <3> QED
      BY <1>1, <1>f, <2>1, <3>1
  <2>2. CASE k = n
    BY <1>1, <1>3, <1>f, <2>2
  <2>3. CASE k = n + 1
    BY <1>1, <1>4, <1>f, <2>3
  <2> QED
    BY <1>5, <2>1, <2>2, <2>3
<1>9. SuccessorsMarked'
  <2> SUFFICES ASSUME NEW x \in visited', NEW y \in SuccSet(graph, x), y \notin visited'
               PROVE  \E k \in 1 .. n + 1 : stack'[k].bb = x /\ y \in ToSet(stack'[k].todo)
    BY <1>1, <1>2 DEF SuccessorsMarked, LeftBehind
  <2>1. CASE x = succ
    BY <1>1, <1>4, <1>f, <2>1
  <2>2. CASE x # succ
    <3>1. PICK k \in 1 .. n : stack[k].bb = x /\ y \in ToSet(stack[k].todo)
      BY <1>t, <1>1, <1>2, <2>2 DEF SuccessorsMarked, LeftBehind
    <3>2. CASE k = n
      <4>1. y \in ToSet(Tail(list)) /\ x = b
        BY <1>1, <1>2, <1>3, <3>1, <3>2
      <4> QED
        BY <1>f, <4>1
    <3>3. CASE k # n
      <4>1. k \in 1 .. n - 1 /\ k \in 1 .. n + 1
        BY <1>2, <3>3
      <4> QED
        BY <1>f, <3>1, <4>1
    <3> QED
      BY <3>2, <3>3
  <2> QED
    BY <2>1, <2>2
<1>10. ListedOnce'
  <2>1. CASE pass = "PO"
    <3>1. OnStack' = OnStack \cup {succ}
      BY <1>1, <1>2, <1>5, <1>f DEF OnStack
    <3>2. succ \notin OnStack
      BY <1>t, <1>1 DEF CallsMarked, OnStack
    <3>3. CallsDistinct'
      <4> SUFFICES ASSUME NEW j \in 1 .. n + 1, NEW k \in 1 .. n + 1, stack'[j].bb = stack'[k].bb
                   PROVE  j = k
        BY <1>1 DEF CallsDistinct
      <4>1. ASSUME NEW i \in 1 .. n PROVE stack'[i].bb = stack[i].bb /\ stack[i].bb # succ
        BY <1>2, <1>5, <1>f, <3>2 DEF OnStack
      <4>2. \A i, m \in 1 .. n : stack[i].bb = stack[m].bb => i = m
        BY <1>t, <1>2, <2>1 DEF ListedOnce, CallsDistinct
      <4>3. CASE j = n + 1 \/ k = n + 1
        BY <1>2, <1>f, <4>1, <4>3
      <4>4. CASE j # n + 1 /\ k # n + 1
        <5>1. j \in 1 .. n /\ k \in 1 .. n
          BY <1>2, <4>4
        <5> QED
          BY <4>1, <4>2, <5>1
      <4> QED
        BY <4>3, <4>4
    <3> QED
      BY <1>t, <1>1, <1>b, <2>1, <3>1, <3>3 DEF ListedOnce, Unlisted
  <2>2. CASE pass # "PO"
    BY <1>t, <1>1, <1>2, <1>b, <2>2 DEF ListedOnce, Unlisted
  <2> QED
    BY <2>1, <2>2
<1> QED
  BY <1>6, <1>7, <1>8, <1>9, <1>10 DEF ListInv

LEMMA SkipListInv == ASSUME ListInv, Skip PROVE ListInv'
<1> DEFINE n == Depth
           b == Active
           list == Ahead
           succ == Head(Ahead)
<1>t. TypeOK /\ MarkedReachable /\ CallsMarked /\ SuccessorsMarked /\ ListedOnce
  BY DEF ListInv
<1>1. /\ stack # <<>> /\ list # <<>> /\ succ \in visited
      /\ stack' \in Seq(Frames) /\ Len(stack') = n
      /\ \A k \in 1 .. n - 1 : stack'[k] = stack[k]
      /\ stack'[n] = [bb |-> b, todo |-> Tail(list)]
      /\ graph' = graph /\ pass' = pass /\ queue' = queue /\ visited' = visited /\ blocks' = blocks
  BY <1>t, SkipFacts
<1>2. /\ n \in Nat \ {0} /\ b \in Ids /\ list \in Seq(Ids) /\ pass \in {"PO", "RPO", "DFS"}
      /\ Len(stack) = n /\ stack[n].bb = b /\ stack[n].todo = list
      /\ queue = <<>> /\ graph \in Graphs
  BY <1>t, <1>1, TopFacts, GraphFacts DEF Depth, Active, Ahead, TypeOK
<1>3. /\ b \in visited /\ ToSet(list) \subseteq SuccSet(graph, b)
      /\ ToSet(list) = {succ} \cup ToSet(Tail(list))
  <2>1. ToSet(list) = {succ} \cup ToSet(Tail(list))
    BY <1>1, <1>2, HeadTailFacts
  <2>2. n \in 1 .. Len(stack)
    BY <1>2
  <2> HIDE DEF n, b, list, succ
  <2> QED
    BY <1>t, <1>2, <2>1, <2>2 DEF CallsMarked
<1>5. 1 .. n = 1 .. n - 1 \cup {n} /\ n \notin 1 .. n - 1
  BY <1>2, SetsOfStack
<1> HIDE DEF n, b, list, succ
<1>6. TypeOK'
  BY <1>t, <1>1, <1>2 DEF TypeOK
<1>7. MarkedReachable'
  BY <1>t, <1>1 DEF MarkedReachable
<1>f. stack'[n].bb = b /\ stack'[n].todo = Tail(list)
  BY <1>1
<1>b. ASSUME NEW k \in 1 .. n
      PROVE  /\ stack'[k].bb = stack[k].bb
             /\ stack'[k].todo = IF k = n THEN Tail(list) ELSE stack[k].todo
  BY <1>1, <1>2, <1>5, <1>f
<1>8. CallsMarked'
  BY <1>t, <1>1, <1>2, <1>3, <1>b DEF CallsMarked
<1>9. SuccessorsMarked'
  <2> SUFFICES ASSUME NEW x \in visited, NEW y \in SuccSet(graph, x), y \notin visited
               PROVE  \E k \in 1 .. n : stack'[k].bb = x /\ y \in ToSet(stack'[k].todo)
    BY <1>1, <1>2 DEF SuccessorsMarked, LeftBehind
  <2>1. PICK k \in 1 .. n : stack[k].bb = x /\ y \in ToSet(stack[k].todo)
    BY <1>t, <1>2 DEF SuccessorsMarked, LeftBehind
  <2>2. y \in ToSet(stack'[k].todo)
    BY <1>1, <1>2, <1>3, <1>b, <2>1
  <2> QED
    BY <1>b, <2>1, <2>2
<1>10. ListedOnce'
  <2>1. OnStack' = OnStack /\ (CallsDistinct => CallsDistinct')
    <3>1. Len(stack') = Len(stack) /\ \A k \in 1 .. Len(stack) : stack'[k].bb = stack[k].bb
      BY <1>1, <1>2, <1>b
    <3> QED
      BY <3>1, Zenon DEF OnStack, CallsDistinct
  <2> QED
    BY <1>t, <1>1, <2>1 DEF ListedOnce, Unlisted
<1> QED
  BY <1>6, <1>7, <1>8, <1>9, <1>10 DEF ListInv

LEMMA ReturnListInv == ASSUME ListInv, Return PROVE ListInv'
<1> DEFINE n == Depth
           b == Active
<1>t. TypeOK /\ MarkedReachable /\ CallsMarked /\ SuccessorsMarked /\ ListedOnce
  BY DEF ListInv
<1>1. /\ stack # <<>> /\ Ahead = <<>>
      /\ stack' \in Seq(Frames) /\ Len(stack') = n - 1
      /\ \A k \in 1 .. n - 1 : stack'[k] = stack[k]
      /\ blocks' = IF pass = "PO" THEN Append(blocks, b) ELSE blocks
      /\ graph' = graph /\ pass' = pass /\ queue' = queue /\ visited' = visited
  BY <1>t, ReturnFacts
<1>2. /\ n \in Nat \ {0} /\ b \in Ids /\ pass \in {"PO", "RPO", "DFS"}
      /\ Len(stack) = n /\ stack[n].bb = b /\ ToSet(stack[n].todo) = {}
      /\ queue = <<>> /\ graph \in Graphs
  BY <1>t, <1>1, TopFacts, GraphFacts DEF Depth, Active, Ahead, TypeOK, ToSet
<1>5. 1 .. n = 1 .. n - 1 \cup {n} /\ n \notin 1 .. n - 1
  BY <1>2, SetsOfStack
<1>l. blocks \in Seq(Ids) /\ IsInjective(blocks)
  BY <1>t DEF TypeOK, ListedOnce
<1>b. pass = "PO" => /\ b \in OnStack /\ b \notin ToSet(blocks) /\ blocks' \in Seq(Ids)
                     /\ IsInjective(blocks') /\ ToSet(blocks') = ToSet(blocks) \cup {b}
  <2> SUFFICES ASSUME pass = "PO" PROVE /\ b \in OnStack /\ b \notin ToSet(blocks)
                                        /\ blocks' \in Seq(Ids) /\ IsInjective(blocks')
                                        /\ ToSet(blocks') = ToSet(blocks) \cup {b}
    OBVIOUS
  <2>1. b \in OnStack
    BY <1>2, <1>5 DEF OnStack
  <2>2. b \notin ToSet(blocks)
    BY <1>t, <2>1 DEF ListedOnce, Unlisted
  <2> HIDE DEF b
  <2> QED
    BY <1>t, <1>1, <1>2, <1>l, <2>1, <2>2, ListedBefore
<1> HIDE DEF n, b
<1>6. TypeOK'
  BY <1>t, <1>1, <1>2, <1>b DEF TypeOK
<1>7. MarkedReachable'
  BY <1>t, <1>1 DEF MarkedReachable
<1>8. CallsMarked'
  BY <1>t, <1>1, <1>2, <1>5 DEF CallsMarked
<1>9. SuccessorsMarked'
  <2> SUFFICES ASSUME NEW x \in visited, NEW y \in SuccSet(graph, x), y \notin visited
               PROVE  \E k \in 1 .. n - 1 : stack'[k].bb = x /\ y \in ToSet(stack'[k].todo)
    BY <1>1, <1>2 DEF SuccessorsMarked, LeftBehind
  <2>1. PICK k \in 1 .. n : stack[k].bb = x /\ y \in ToSet(stack[k].todo)
    BY <1>t, <1>2 DEF SuccessorsMarked, LeftBehind
  <2>2. k # n
    BY <1>2, <2>1
  <2> QED
    BY <1>1, <1>5, <2>1, <2>2
<1>10. ListedOnce'
  <2>1. CASE pass = "PO"
    <3>1. CallsDistinct /\ \A k \in 1 .. n - 1 : stack[k].bb # b
      BY <1>t, <1>2, <1>5, <2>1 DEF ListedOnce, CallsDistinct
    <3>2. OnStack' = OnStack \ {b}
      <4>1. OnStack' = {stack[k].bb : k \in 1 .. n - 1}
        BY <1>1 DEF OnStack
      <4>2. OnStack = {stack[k].bb : k \in 1 .. n - 1} \cup {b}
        BY <1>2, <1>5 DEF OnStack
      <4> QED
        BY <3>1, <4>1, <4>2
    <3>3. CallsDistinct'
      BY <1>1, <1>2, <1>5, <3>1 DEF CallsDistinct
    <3> QED
      BY <1>t, <1>1, <1>b, <2>1, <3>2, <3>3 DEF ListedOnce, Unlisted
  <2>2. CASE pass # "PO"
    BY <1>t, <1>1, <1>2, <2>2 DEF ListedOnce, Unlisted
  <2> QED
    BY <2>1, <2>2
<1> QED
  BY <1>6, <1>7, <1>8, <1>9, <1>10 DEF ListInv

\* Only blocks of the graph can be reached, so that NoParallel speaks of them.
LEMMA ReachableAreBlocks ==
  ASSUME TypeOK
  PROVE  /\ Reachable(graph) \subseteq graph.blocks
         /\ \A b \in Reachable(graph), s, t \in Slots :
              graph.succs[b][s] = graph.succs[b][t] => s = t \/ graph.succs[b][s] = None
<1>1. graph \in Graphs /\ Start \in graph.blocks /\ NoDangling(graph) /\ NoParallel(graph)
  BY InputsAssumption DEF TypeOK
<1>2. graph.blocks \in SUBSET Ids
  BY <1>1 DEF Graphs
<1>3. \A b \in graph.blocks : SuccSet(graph, b) \subseteq graph.blocks
  BY <1>1 DEF NoDangling
<1>4. Reachable(graph) \subseteq graph.blocks
  BY <1>1, <1>2, <1>3, ReachableFacts
<1>5. ASSUME NEW b \in graph.blocks, NEW s \in Slots, NEW t \in Slots,
             graph.succs[b][s] = graph.succs[b][t], s # t
      PROVE  graph.succs[b][s] = None
  <2>1. graph.succs[b][0] = graph.succs[b][1] => graph.succs[b][0] = None
    BY <1>1 DEF NoParallel, FALLTHROUGH, BRANCH_TRUE
  <2>2. (s = 0 /\ t = 1) \/ (s = 1 /\ t = 0)
    BY <1>5 DEF Slots, FALLTHROUGH, BRANCH_TRUE
  <2> QED
    BY <1>5, <2>1, <2>2
<1> QED
  BY <1>4, <1>5

LEMMA DequeueListInv == ASSUME ListInv, Dequeue PROVE ListInv'
<1> DEFINE h == Head(queue)
           new == SuccessorsBut(graph, Head(queue), visited \cup {None})
<1>t. TypeOK /\ MarkedReachable /\ CallsMarked /\ SuccessorsMarked /\ ListedOnce
  BY DEF ListInv
<1>1. /\ queue # <<>> /\ h \in Ids /\ pass = "BFS"
      /\ new \in Seq(Ids) /\ ToSet(new) = SuccSet(graph, h) \ visited
      /\ queue' = Tail(queue) \o new /\ visited' = visited \cup ToSet(new)
      /\ blocks' = Append(blocks, h)
      /\ graph' = graph /\ pass' = pass /\ stack' = stack
  BY <1>t, DequeueFacts
<1>2. /\ queue \in Seq(Ids) /\ IsInjective(queue) /\ stack = <<>> /\ graph \in Graphs
      /\ IsInjective(blocks) /\ blocks \in Seq(Ids)
      /\ ToSet(blocks) \cup ToSet(queue) = visited /\ ToSet(blocks) \cap ToSet(queue) = {}
  BY <1>t, <1>1, GraphFacts DEF TypeOK, ListedOnce, Unlisted
<1>3. /\ Tail(queue) \in Seq(Ids) /\ IsInjective(Tail(queue)) /\ h \notin ToSet(Tail(queue))
      /\ ToSet(queue) = {h} \cup ToSet(Tail(queue))
  BY <1>1, <1>2, HeadTailFacts, TailInjective
<1>4. IsInjective(new)
  <2>1. h \in Reachable(graph)
    BY <1>t, <1>2, <1>3 DEF MarkedReachable
  <2>2. \A s, t \in Slots : graph.succs[h][s] = graph.succs[h][t] => s = t \/ graph.succs[h][s] = None
    BY <1>t, <2>1, ReachableAreBlocks
  <2>3. None \in visited \cup {None}
    OBVIOUS
  <2> QED
    BY <1>1, <1>2, <2>2, <2>3, SuccessorsFacts
<1> HIDE DEF new
<1>5. queue' \in Seq(Ids) /\ ToSet(queue') = ToSet(Tail(queue)) \cup ToSet(new)
  <2>1. /\ Tail(queue) \o new \in Seq(Ids)
        /\ ToSet(Tail(queue) \o new) = ToSet(Tail(queue)) \cup ToSet(new)
    <3> DEFINE rest == Tail(queue)
    <3>1. rest \in Seq(Ids) /\ new \in Seq(Ids)
      BY <1>1, <1>3
    <3> HIDE DEF rest
    <3>2. rest \o new \in Seq(Ids) /\ ToSet(rest \o new) = ToSet(rest) \cup ToSet(new)
      BY <3>1, ConcatFacts
    <3> QED
      BY <3>2 DEF rest
  <2> QED
    BY <1>1, <2>1
<1>6. IsInjective(queue')
  <2>1. ToSet(Tail(queue)) \cap ToSet(new) = {}
    BY <1>1, <1>2, <1>3
  <2> QED
    BY <1>1, <1>3, <1>4, <2>1, ConcatInjective
<1>7. /\ blocks' \in Seq(Ids) /\ IsInjective(blocks') /\ ToSet(blocks') = ToSet(blocks) \cup {h}
  <2>1. h \notin ToSet(blocks)
    BY <1>2, <1>3
  <2> HIDE DEF h
  <2> QED
    BY <1>t, <1>1, <1>2, <2>1, ListedBefore
<1> HIDE DEF h
<1>8. SuccSet(graph, h) \subseteq visited' /\ h \in visited
  BY <1>1, <1>2, <1>3
<1>9. TypeOK'
  <2>1. ToSet(new) \subseteq Ids
    BY <1>1, ToSetFacts
  <2> QED
    BY <1>t, <1>1, <1>2, <1>5, <1>7, <2>1 DEF TypeOK
<1>10. MarkedReachable'
  <2>1. SuccSet(graph, h) \subseteq Reachable(graph)
    BY <1>t, <1>2, <1>8, ReachableFacts DEF MarkedReachable
  <2> QED
    BY <1>t, <1>1, <2>1 DEF MarkedReachable
<1>11. CallsMarked'
  BY <1>1, <1>2 DEF CallsMarked
<1>12. SuccessorsMarked'
  BY <1>t, <1>1, <1>7, <1>8 DEF SuccessorsMarked
<1>13. ListedOnce'
  BY <1>1, <1>2, <1>3, <1>5, <1>6, <1>7 DEF ListedOnce, Unlisted
<1> QED
  BY <1>9, <1>10, <1>11, <1>12, <1>13 DEF ListInv

LEMMA StepListInv == ListInv /\ [Next]_vars => ListInv'
<1> SUFFICES ASSUME ListInv, [Next]_vars PROVE ListInv'
  OBVIOUS
<1>1. CASE UNCHANGED vars
  <2>1. TypeOK' /\ MarkedReachable' /\ CallsMarked'
    BY <1>1 DEF ListInv, vars, TypeOK, MarkedReachable, CallsMarked
  <2>2. SuccessorsMarked'
    BY <1>1 DEF ListInv, vars, SuccessorsMarked, LeftBehind
  <2>3. ListedOnce'
    BY <1>1 DEF ListInv, vars, ListedOnce, Unlisted, OnStack, CallsDistinct
  <2> QED
    BY <2>1, <2>2, <2>3 DEF ListInv
<1> QED
  BY <1>1, DescendListInv, SkipListInv, ReturnListInv, DequeueListInv DEF Next

\* The passes mark what can be reached and nothing else, list no block twice
\* and leave no successor of a listed block unmarked or off the stack.
THEOREM SpecListInv == Spec => []ListInv
  BY InitListInv, StepListInv, PTL DEF Spec

\* A pass that has ended has marked all that can be reached and listed all it marked.
LEMMA ListedAtEnd ==
  ASSUME ListInv, Done
  PROVE  ToSet(blocks) = Reachable(graph) /\ visited = Reachable(graph) /\ IsInjective(blocks)
<1>t. TypeOK /\ MarkedReachable /\ SuccessorsMarked /\ ListedOnce /\ graph \in Graphs
  BY GraphFacts DEF ListInv
<1>1. stack = <<>> /\ queue = <<>>
  BY DEF Done
<1>2. ToSet(blocks) = visited
  BY <1>t, <1>1 DEF ListedOnce, Unlisted, OnStack, ToSet
<1>3. \A b \in visited : SuccSet(graph, b) \subseteq visited
  BY <1>t, <1>1, <1>2 DEF SuccessorsMarked, LeftBehind
<1>4. Reachable(graph) \subseteq visited
  BY <1>t, <1>3, ReachableFacts DEF TypeOK, MarkedReachable
<1> QED
  BY <1>t, <1>2, <1>4 DEF MarkedReachable, ListedOnce

-----------------------------------------------------------------------------
\* The recursive passes and the walks that Preorder and Postorder take: what the
\* walk still has to look at is what the calls on the stack have left to do, the
\* topmost first.

\* q is P[n], P[n - 1], ..., P[1] in one sequence of elements of T.
IsPile(T, n, P, q) ==
  \E F \in [0 .. n -> Seq(T)] :
    /\ F[0] = <<>> /\ F[n] = q
    /\ \A k \in 1 .. n : P[k] \in Seq(T) /\ F[k] = P[k] \o F[k - 1]

\* An empty stack makes an empty pile; the pile of a stack has its topmost
\* list in front, and the pile of what is below after it.
LEMMA EmptyPile == ASSUME NEW T, NEW P PROVE IsPile(T, 0, P, <<>>)
<1> DEFINE F == [k \in 0 .. 0 |-> <<>>]
<1>1. F \in [0 .. 0 -> Seq(T)] /\ F[0] = <<>>
  OBVIOUS
<1>2. \A k \in 1 .. 0 : FALSE
  OBVIOUS
<1> QED
  BY <1>1, <1>2 DEF IsPile

LEMMA NoPile == ASSUME NEW T, NEW P, NEW q, IsPile(T, 0, P, q) PROVE q = <<>>
  BY DEF IsPile

LEMMA PileTop ==
  ASSUME NEW T, NEW n \in Nat \ {0}, NEW P, NEW q, IsPile(T, n, P, q)
  PROVE  /\ P[n] \in Seq(T) /\ q \in Seq(T)
         /\ \E r \in Seq(T) : q = P[n] \o r /\ IsPile(T, n - 1, P, r)
<1>1. PICK F \in [0 .. n -> Seq(T)] :
        /\ F[0] = <<>> /\ F[n] = q
        /\ \A k \in 1 .. n : P[k] \in Seq(T) /\ F[k] = P[k] \o F[k - 1]
  BY DEF IsPile
<1>2. n - 1 \in 0 .. n /\ n \in 1 .. n /\ n \in 0 .. n /\ 0 \in 0 .. n - 1 /\ n - 1 \in 0 .. n - 1
  OBVIOUS
<1> DEFINE G == [k \in 0 .. n - 1 |-> F[k]]
<1>3. \A k \in 0 .. n - 1 : k \in 0 .. n /\ G[k] = F[k]
  OBVIOUS
<1>4. G \in [0 .. n - 1 -> Seq(T)]
  BY <1>1
<1> HIDE DEF G
<1>5. ASSUME NEW k \in 1 .. n - 1 PROVE P[k] \in Seq(T) /\ G[k] = P[k] \o G[k - 1]
  <2>1. k \in 1 .. n /\ k \in 0 .. n - 1 /\ k - 1 \in 0 .. n - 1
    OBVIOUS
  <2> QED
    BY <1>1, <1>3, <2>1
<1>6. IsPile(T, n - 1, P, F[n - 1])
  BY <1>1, <1>2, <1>3, <1>4, <1>5 DEF IsPile
<1>7. F[n - 1] \in Seq(T) /\ q \in Seq(T) /\ P[n] \in Seq(T) /\ q = P[n] \o F[n - 1]
  BY <1>1, <1>2
<1> QED
  BY <1>6, <1>7

LEMMA PilePush ==
  ASSUME NEW T, NEW n \in Nat \ {0}, NEW P, NEW r, IsPile(T, n - 1, P, r),
         NEW Q, \A k \in 1 .. n - 1 : Q[k] = P[k], NEW L \in Seq(T), Q[n] = L
  PROVE  IsPile(T, n, Q, L \o r) /\ r \in Seq(T)
<1>1. PICK F \in [0 .. n - 1 -> Seq(T)] :
        /\ F[0] = <<>> /\ F[n - 1] = r
        /\ \A k \in 1 .. n - 1 : P[k] \in Seq(T) /\ F[k] = P[k] \o F[k - 1]
  BY DEF IsPile
<1>2. /\ n - 1 \in 0 .. n - 1 /\ 0 \in 0 .. n /\ n \in 0 .. n /\ 0 # n /\ n - 1 # n
      /\ 0 \in 0 .. n - 1 /\ \A k \in 0 .. n - 1 : k \in 0 .. n /\ k # n
  OBVIOUS
<1> DEFINE top == L \o r
<1>3. r \in Seq(T) /\ top \in Seq(T)
  <2>1. r \in Seq(T)
    BY <1>1, <1>2
  <2> QED
    BY <2>1, ConcatFacts
<1>4. top = L \o r
  OBVIOUS
<1> HIDE DEF top
<1> DEFINE G == [k \in 0 .. n |-> IF k = n THEN top ELSE F[k]]
<1>5. G \in [0 .. n -> Seq(T)]
  <2> SUFFICES ASSUME NEW k \in 0 .. n PROVE (IF k = n THEN top ELSE F[k]) \in Seq(T)
    OBVIOUS
  <2>1. k # n => k \in 0 .. n - 1
    OBVIOUS
  <2> QED
    BY <1>1, <1>3, <2>1
<1>6. G[n] = top /\ \A k \in 0 .. n - 1 : G[k] = F[k]
  BY <1>2
<1> HIDE DEF G
<1>7. ASSUME NEW k \in 1 .. n PROVE Q[k] \in Seq(T) /\ G[k] = Q[k] \o G[k - 1]
  <2>1. CASE k = n
    BY <1>1, <1>2, <1>4, <1>6, <2>1
  <2>2. CASE k # n
    <3>1. k \in 1 .. n - 1 /\ k \in 0 .. n - 1 /\ k - 1 \in 0 .. n - 1
      BY <2>2
    <3> QED
      BY <1>1, <1>6, <3>1
  <2> QED
    BY <2>1, <2>2
<1>8. G[0] = <<>>
  BY <1>1, <1>2, <1>6
<1>9. IsPile(T, n, Q, top)
  BY <1>5, <1>6, <1>7, <1>8 DEF IsPile
<1> QED
  BY <1>3, <1>4, <1>9

LEMMA SamePile ==
  ASSUME NEW T, NEW n \in Nat, NEW P, NEW q, IsPile(T, n, P, q),
         NEW Q, \A k \in 1 .. n : Q[k] = P[k]
  PROVE  IsPile(T, n, Q, q)
  BY DEF IsPile

\* One frame on the stack.
LEMMA PileOfOne ==
  ASSUME NEW T, NEW P, P[1] \in Seq(T)
  PROVE  IsPile(T, 1, P, P[1])
<1>1. IsPile(T, 0, P, <<>>)
  BY EmptyPile
<1>2. 1 \in Nat \ {0} /\ 1 - 1 = 0
  OBVIOUS
<1>3. IsPile(T, 1, P, P[1] \o <<>>)
  BY <1>1, <1>2, PilePush
<1>4. P[1] \o <<>> = P[1]
  BY ConcatEmptySeq
<1> QED
  BY <1>3, <1>4

\* The walk of Preorder, beside a pass whose n calls still have D[1] to D[n] to
\* look at, that has met l, and c blocks in all.

WalkAt(W, l, n, D, m, q, c) ==
  /\ m \in Nat /\ IsPile(Ids, n, D, q) /\ q \in Seq(Ids)
  /\ W[m] = PreState(l, q)
  /\ m + Len(q) <= 2 * c + 1

\* The list on top is not empty: its head, and what is below.
LEMMA WalkTop ==
  ASSUME NEW W, NEW l, NEW n \in Nat \ {0}, NEW D, NEW m, NEW q, NEW c, WalkAt(W, l, n, D, m, q, c),
         D[n] # <<>>
  PROVE  /\ D[n] \in Seq(Ids) /\ Tail(D[n]) \in Seq(Ids)
         /\ \E r \in Seq(Ids) :
              /\ IsPile(Ids, n - 1, D, r)
              /\ Splits(q, Head(D[n]), Tail(D[n]) \o r)
              /\ Tail(D[n]) \o r \in Seq(Ids)
              /\ Len(Tail(D[n]) \o r) \in Nat /\ Len(q) = Len(Tail(D[n]) \o r) + 1
<1> DEFINE t == D[n]
<1>1. IsPile(Ids, n, D, q)
  BY DEF WalkAt
<1>2. t \in Seq(Ids) /\ \E r \in Seq(Ids) : q = t \o r /\ IsPile(Ids, n - 1, D, r)
  BY <1>1, PileTop
<1>3. PICK r \in Seq(Ids) : q = t \o r /\ IsPile(Ids, n - 1, D, r)
  BY <1>2
<1>4. t # <<>>
  OBVIOUS
<1> HIDE DEF t
<1>5. /\ t \o r # <<>> /\ Head(t \o r) = Head(t) /\ Tail(t \o r) = Tail(t) \o r
      /\ Tail(t) \o r \in Seq(Ids)
      /\ Len(Tail(t) \o r) \in Nat /\ Len(t \o r) = Len(Tail(t) \o r) + 1
  BY <1>2, <1>4, HeadTailOfConcat
<1>6. Tail(t) \in Seq(Ids)
  BY <1>2, <1>4, HeadTailFacts
<1>7. Splits(q, Head(t), Tail(t) \o r) /\ Len(q) = Len(Tail(t) \o r) + 1
  BY <1>3, <1>5, Zenon DEF Splits
<1> QED
  BY <1>2, <1>3, <1>5, <1>6, <1>7 DEF t

\* What the walk does with a block it has met, and with a new one. The end of a
\* call is none of its steps.
LEMMA WalkPasses ==
  ASSUME NEW g, NEW W, IsPreWalk(g, W), NEW l, NEW n \in Nat \ {0}, NEW D, NEW m, NEW q, NEW c \in Nat,
         WalkAt(W, l, n, D, m, q, c), D[n] # <<>>, Head(D[n]) \in ToSet(l),
         NEW E, E[n] = Tail(D[n]), \A k \in 1 .. n - 1 : E[k] = D[k]
  PROVE  \E q2 : WalkAt(W, l, n, E, m + 1, q2, c)
<1> DEFINE w == Head(D[n])
           t == Tail(D[n])
<1>1. PICK r \in Seq(Ids) :
        /\ IsPile(Ids, n - 1, D, r) /\ Splits(q, w, t \o r) /\ t \o r \in Seq(Ids)
        /\ Len(t \o r) \in Nat /\ Len(q) = Len(t \o r) + 1
  BY WalkTop
<1>2. t \in Seq(Ids) /\ E[n] = t /\ w \in ToSet(l)
  BY WalkTop
<1> HIDE DEF w, t
<1>3. IsPile(Ids, n, E, t \o r)
  BY <1>1, <1>2, PilePush
<1>4. W[m + 1] = PreState(l, t \o r)
  <2>1. m \in Nat /\ W[m] = PreState(l, q)
    BY DEF WalkAt
  <2>2. W[m + 1] = PreStep(g, W[m])
    BY <2>1 DEF IsPreWalk
  <2>3. PreStep(g, PreState(l, q)) = PreState(l, t \o r)
    BY <1>1, <1>2, PrePasses
  <2> QED
    BY <2>1, <2>2, <2>3
<1>5. m + 1 \in Nat /\ (m + 1) + Len(t \o r) <= 2 * c + 1
  BY <1>1 DEF WalkAt
<1> QED
  BY <1>1, <1>3, <1>4, <1>5 DEF WalkAt

LEMMA WalkMeets ==
  ASSUME NEW g \in Graphs, NEW W, IsPreWalk(g, W), NEW l, NEW n \in Nat \ {0}, NEW D, NEW m, NEW q,
         NEW c \in Nat, WalkAt(W, l, n, D, m, q, c), D[n] # <<>>, NEW w \in Ids, w = Head(D[n]),
         w \notin ToSet(l),
         NEW E, E[n] = Tail(D[n]), E[n + 1] = GetSuccessors(g, w), \A k \in 1 .. n - 1 : E[k] = D[k]
  PROVE  \E q2 : WalkAt(W, Append(l, w), n + 1, E, m + 1, q2, c + 1)
<1> DEFINE t == Tail(D[n])
           next == GetSuccessors(g, w)
<1>1. PICK r \in Seq(Ids) :
        /\ IsPile(Ids, n - 1, D, r) /\ Splits(q, w, t \o r) /\ t \o r \in Seq(Ids)
        /\ Len(t \o r) \in Nat /\ Len(q) = Len(t \o r) + 1
  BY WalkTop
<1>2. t \in Seq(Ids) /\ E[n] = t /\ E[n + 1] = next
  BY WalkTop
<1>3. next \in Seq(Ids) /\ Len(next) \in Nat /\ Len(next) <= 2
  BY SuccessorsInIds
<1> DEFINE rest == t \o r
           all == next \o rest
<1> HIDE DEF t
<1>4. IsPile(Ids, n, E, rest)
  BY <1>1, <1>2, PilePush
<1>5. W[m + 1] = PreState(Append(l, w), all)
  <2>1. m \in Nat /\ W[m] = PreState(l, q)
    BY DEF WalkAt
  <2>2. W[m + 1] = PreStep(g, W[m])
    BY <2>1 DEF IsPreWalk
  <2>3. PreStep(g, PreState(l, q)) = PreState(Append(l, w), next \o rest)
    BY <1>1, PreMeets
  <2> QED
    BY <2>1, <2>2, <2>3
<1>6. rest \in Seq(Ids) /\ Len(rest) \in Nat /\ Len(q) = Len(rest) + 1
  BY <1>1
<1> HIDE DEF rest, next
<1>7. IsPile(Ids, n + 1, E, all)
  <2>1. n + 1 \in Nat \ {0} /\ (n + 1) - 1 = n
    OBVIOUS
  <2> DEFINE k == n + 1
  <2>2. k \in Nat \ {0} /\ IsPile(Ids, k - 1, E, rest) /\ E[k] = next
    BY <1>2, <1>4, <2>1
  <2> HIDE DEF k
  <2>3. IsPile(Ids, k, E, next \o rest)
    BY <1>3, <2>2, PilePush
  <2> QED
    BY <2>3 DEF k
<1>8. all \in Seq(Ids) /\ Len(all) <= Len(q) + 1 /\ Len(all) \in Nat
  BY <1>3, <1>6, ConcatFacts
<1> HIDE DEF all
<1>9. m + 1 \in Nat /\ (m + 1) + Len(all) <= 2 * (c + 1) + 1
  BY <1>6, <1>8 DEF WalkAt
<1> QED
  BY <1>5, <1>7, <1>8, <1>9 DEF WalkAt

LEMMA WalkReturns ==
  ASSUME NEW W, NEW l, NEW n \in Nat \ {0}, NEW D, NEW m, NEW q, NEW c, WalkAt(W, l, n, D, m, q, c),
         D[n] = <<>>, NEW E, \A k \in 1 .. n - 1 : E[k] = D[k]
  PROVE  WalkAt(W, l, n - 1, E, m, q, c)
<1>1. IsPile(Ids, n, D, q)
  BY DEF WalkAt
<1>2. PICK r \in Seq(Ids) : q = D[n] \o r /\ IsPile(Ids, n - 1, D, r)
  BY <1>1, PileTop
<1>3. q = r
  BY <1>2, ConcatEmptySeq
<1>4. IsPile(Ids, n - 1, E, q)
  <2>1. n - 1 \in Nat
    OBVIOUS
  <2> QED
    BY <1>2, <1>3, <2>1, SamePile
<1> QED
  BY <1>4 DEF WalkAt

\* The first step of the walk meets the start block.
LEMMA WalkStarts ==
  ASSUME NEW g \in Graphs, NEW W, IsPreWalk(g, W), NEW D, D[1] = GetSuccessors(g, Start)
  PROVE  WalkAt(W, <<Start>>, 1, D, 1, D[1], 1)
<1> DEFINE q == GetSuccessors(g, Start)
<1>1. Start \in Ids /\ q \in Seq(Ids) /\ Len(q) <= 2 /\ Len(q) \in Nat
  BY FlowGraphAssumption, SuccessorsInIds
<1>2. W[0] = PreState(<<>>, <<Start>>) /\ W[1] = PreStep(g, W[0])
  <2>1. 0 \in Nat /\ 0 + 1 = 1
    OBVIOUS
  <2> QED
    BY <2>1 DEF IsPreWalk
<1>3. PreStep(g, PreState(<<>>, <<Start>>)) = PreState(<<Start>>, q)
  <2> DEFINE one == <<Start>>
             none == <<>>
             first == Append(none, Start)
             more == q \o none
  <2>1. Splits(one, Start, none) /\ Start \notin ToSet(none) /\ first = one
    BY DEF ToSet, Splits
  <2>m. more = q
    <3> HIDE DEF q
    <3> QED
      BY <1>1, ConcatEmptySeq
  <2> HIDE DEF one, none, first
  <2>2. PreStep(g, PreState(none, one)) = PreState(Append(none, Start), GetSuccessors(g, Start) \o none)
    BY <2>1, PreMeets
  <2>3. PreStep(g, PreState(none, one)) = PreState(first, more)
    BY <2>2 DEF first
  <2> HIDE DEF more, q
  <2>4. PreStep(g, PreState(none, one)) = PreState(one, q)
    BY <2>1, <2>m, <2>3
  <2> QED
    BY <2>4 DEF one, none
<1>4. IsPile(Ids, 1, D, D[1])
  BY <1>1, PileOfOne
<1>5. 1 + Len(q) <= 2 * 1 + 1
  BY <1>1
<1> QED
  BY <1>1, <1>2, <1>3, <1>4, <1>5 DEF WalkAt

\* A walk that has nothing left to look at stays as it is.
LEMMA PreWalkEnds ==
  ASSUME NEW g, NEW W, IsPreWalk(g, W), NEW m \in Nat, NEW list, W[m] = PreState(list, <<>>),
         NEW n \in Nat, m <= n
  PROVE  W[n].met = list
<1> DEFINE A == {k \in Nat : W[m + k] = PreState(list, <<>>)}
<1>1. 0 \in A
  OBVIOUS
<1>2. ASSUME NEW k \in Nat, k \in A PROVE k + 1 \in A
  <2>1. W[(m + k) + 1] = PreStep(g, W[m + k]) /\ m + (k + 1) = (m + k) + 1
    BY DEF IsPreWalk
  <2>2. PreStep(g, PreState(list, <<>>)) = PreState(list, <<>>)
    BY PreStays
  <2> QED
    BY <1>2, <2>1, <2>2
<1>3. n - m \in A
  <2>1. n - m \in Nat
    OBVIOUS
  <2> HIDE DEF A
  <2> QED
    BY <1>1, <1>2, <2>1, SetInduction
<1>4. W[n] = PreState(list, <<>>)
  <2>1. m + (n - m) = n
    OBVIOUS
  <2> QED
    BY <1>3, <2>1
<1> QED
  BY <1>4 DEF PreState

\* A walk that has met l when no call is left has listed what Preorder gives.
LEMMA WalkEnds ==
  ASSUME NEW g \in Graphs, NEW l, NEW S \in SUBSET Ids,
         \A W : IsPreWalk(g, W) => \E m, q, D : WalkAt(W, l, 0, D, m, q, Cardinality(S))
  PROVE  l = Preorder(g)
<1>1. PICK W : IsPreWalk(g, W) /\ Preorder(g) = W[2 * Cardinality(Ids) + 1].met
  BY PreorderWalk
<1>2. PICK m, q, D : WalkAt(W, l, 0, D, m, q, Cardinality(S))
  BY <1>1
<1>3. q = <<>> /\ m \in Nat /\ W[m] = PreState(l, <<>>) /\ m + Len(q) <= 2 * Cardinality(S) + 1
  BY <1>2, NoPile DEF WalkAt
<1>4. Cardinality(S) \in Nat /\ Cardinality(Ids) \in Nat /\ Cardinality(S) <= Cardinality(Ids)
  BY FiniteIds, FS_Subset, FS_CardinalityType
<1>5. m <= 2 * Cardinality(Ids) + 1 /\ 2 * Cardinality(Ids) + 1 \in Nat
  <2>1. Len(q) = 0
    BY <1>3
  <2> QED
    BY <1>3, <1>4, <2>1
<1> QED
  BY <1>1, <1>3, <1>5, PreWalkEnds

\* The walk that goes beside RPO and DFS has met what they have listed.
Todos == [k \in 1 .. Len(stack) |-> stack[k].todo]

PreAt(W, m, q) == WalkAt(W, blocks, Len(stack), Todos, m, q, Cardinality(visited))

PreInv ==
  pass \in {"RPO", "DFS"} => \A W : IsPreWalk(graph, W) => \E m, q : PreAt(W, m, q)

\* The number of the marked blocks counts the steps that met one.
LEMMA MarkOneMore ==
  ASSUME TypeOK, NEW b \in Ids \ visited
  PROVE  /\ Cardinality(visited \cup {b}) = Cardinality(visited) + 1
         /\ Cardinality(visited) \in Nat
<1>1. IsFiniteSet(visited)
  BY FiniteIds, FS_Subset DEF TypeOK
<1> QED
  BY <1>1, FS_AddElement, FS_CardinalityType

\* The walk and the pass start alike.
LEMMA InitPreInv == Init => PreInv
<1> SUFFICES ASSUME Init, pass \in {"RPO", "DFS"}, NEW W, IsPreWalk(graph, W)
             PROVE  \E m, q : PreAt(W, m, q)
  BY DEF PreInv
<1>1. /\ graph \in Graphs /\ visited = {Start} /\ blocks = <<Start>>
      /\ stack = <<[bb |-> Start, todo |-> GetSuccessors(graph, Start)]>>
  BY InputsAssumption DEF Init, ListedAtEntry, Call
<1>2. Len(stack) = 1 /\ Todos[1] = GetSuccessors(graph, Start)
  BY <1>1 DEF Todos
<1>3. Cardinality(visited) = 1
  BY <1>1, FS_Singleton
<1>4. WalkAt(W, <<Start>>, 1, Todos, 1, Todos[1], 1)
  BY <1>1, <1>2, WalkStarts
<1> QED
  BY <1>1, <1>2, <1>3, <1>4 DEF PreAt

\* Descend and Skip are a step of the walk each, Return is none.
LEMMA DescendPreInv == ASSUME ListInv, PreInv, Descend PROVE PreInv'
<1>t. TypeOK /\ ListedOnce
  BY DEF ListInv
<1>1. PICK n, succ, c, g : n = Depth /\ succ = Head(Ahead) /\ c = Cardinality(visited) /\ g = graph
  OBVIOUS
<1>2. /\ stack # <<>> /\ Ahead # <<>> /\ succ \in Ids \ visited
      /\ Len(stack') = n + 1 /\ stack'[n].todo = Tail(Ahead)
      /\ stack'[n + 1].todo = GetSuccessors(g, succ)
      /\ \A k \in 1 .. n - 1 : stack'[k] = stack[k]
      /\ visited' = visited \cup {succ}
      /\ blocks' = IF pass = "PO" THEN blocks ELSE Append(blocks, succ)
      /\ graph' = g /\ pass' = pass
  <2>1. /\ stack'[n] = [bb |-> Active, todo |-> Tail(Ahead)]
        /\ stack'[n + 1] = [bb |-> succ, todo |-> GetSuccessors(g, succ)]
    BY <1>t, <1>1, DescendFacts
  <2>2. stack'[n].todo = Tail(Ahead) /\ stack'[n + 1].todo = GetSuccessors(g, succ)
    BY <2>1
  <2> QED
    BY <1>t, <1>1, <2>2, DescendFacts
<1>3. n \in Nat \ {0} /\ g \in Graphs /\ Len(stack) = n /\ Todos[n] = Ahead
  BY <1>t, <1>1, <1>2, TopFacts, GraphFacts DEF Depth, Todos, Ahead
<1> SUFFICES ASSUME pass \in {"RPO", "DFS"}, NEW W, IsPreWalk(g, W)
             PROVE  \E m, q : PreAt(W, m, q)'
  BY <1>2 DEF PreInv
<1>4. PICK m, q : WalkAt(W, blocks, n, Todos, m, q, c)
  BY <1>1, <1>3 DEF PreInv, PreAt
<1>5. /\ Todos'[n] = Tail(Ahead) /\ Todos'[n + 1] = GetSuccessors(g, succ)
      /\ \A k \in 1 .. n - 1 : Todos'[k] = Todos[k]
  <2>1. n \in 1 .. n + 1 /\ n + 1 \in 1 .. n + 1 /\ \A k \in 1 .. n - 1 : k \in 1 .. n + 1 /\ k \in 1 .. n
    BY <1>3
  <2> QED
    BY <1>2, <1>3, <2>1 DEF Todos
<1>6. c \in Nat /\ Cardinality(visited') = c + 1 /\ succ \notin ToSet(blocks)
  BY <1>t, <1>1, <1>2, MarkOneMore DEF ListedOnce
<1>7. \E q2 : WalkAt(W, Append(blocks, succ), n + 1, Todos', m + 1, q2, c + 1)
  BY <1>1, <1>2, <1>3, <1>4, <1>5, <1>6, WalkMeets
<1> QED
  BY <1>2, <1>6, <1>7 DEF PreAt

LEMMA SkipPreInv == ASSUME ListInv, PreInv, Skip PROVE PreInv'
<1>t. TypeOK /\ ListedOnce
  BY DEF ListInv
<1>1. PICK n, c, g : n = Depth /\ c = Cardinality(visited) /\ g = graph
  OBVIOUS
<1>2. /\ stack # <<>> /\ Ahead # <<>> /\ Head(Ahead) \in visited
      /\ Len(stack') = n /\ stack'[n].todo = Tail(Ahead)
      /\ \A k \in 1 .. n - 1 : stack'[k] = stack[k]
      /\ graph' = g /\ pass' = pass /\ visited' = visited /\ blocks' = blocks
  <2>1. stack'[n] = [bb |-> Active, todo |-> Tail(Ahead)]
    BY <1>t, <1>1, SkipFacts
  <2>2. stack'[n].todo = Tail(Ahead)
    BY <2>1
  <2> QED
    BY <1>t, <1>1, <2>2, SkipFacts
<1>3. n \in Nat \ {0} /\ Len(stack) = n /\ Todos[n] = Ahead
  BY <1>t, <1>1, <1>2, TopFacts DEF Depth, Todos, Ahead
<1> SUFFICES ASSUME pass \in {"RPO", "DFS"}, NEW W, IsPreWalk(g, W)
             PROVE  \E m, q : PreAt(W, m, q)'
  BY <1>2 DEF PreInv
<1>4. PICK m, q : WalkAt(W, blocks, n, Todos, m, q, c)
  BY <1>1, <1>3 DEF PreInv, PreAt
<1>5. Todos'[n] = Tail(Ahead) /\ \A k \in 1 .. n - 1 : Todos'[k] = Todos[k]
  <2>1. n \in 1 .. n /\ \A k \in 1 .. n - 1 : k \in 1 .. n
    BY <1>3
  <2> QED
    BY <1>2, <1>3, <2>1 DEF Todos
<1>6. c \in Nat /\ Head(Ahead) \in ToSet(blocks)
  <2>1. IsFiniteSet(visited)
    BY <1>t, FiniteIds, FS_Subset DEF TypeOK
  <2> QED
    BY <1>t, <1>1, <1>2, <2>1, FS_CardinalityType DEF ListedOnce, Unlisted
<1>7. \E q2 : WalkAt(W, blocks, n, Todos', m + 1, q2, c)
  BY <1>2, <1>3, <1>4, <1>5, <1>6, WalkPasses
<1> QED
  BY <1>1, <1>2, <1>7 DEF PreAt

LEMMA ReturnPreInv == ASSUME ListInv, PreInv, Return PROVE PreInv'
<1>t. TypeOK
  BY DEF ListInv
<1>1. PICK n, c, g : n = Depth /\ c = Cardinality(visited) /\ g = graph
  OBVIOUS
<1>2. /\ stack # <<>> /\ Ahead = <<>> /\ Len(stack') = n - 1
      /\ \A k \in 1 .. n - 1 : stack'[k] = stack[k]
      /\ blocks' = IF pass = "PO" THEN Append(blocks, Active) ELSE blocks
      /\ graph' = g /\ pass' = pass /\ visited' = visited
  BY <1>t, <1>1, ReturnFacts
<1>3. n \in Nat \ {0} /\ Len(stack) = n /\ Todos[n] = Ahead
  BY <1>t, <1>1, <1>2, TopFacts DEF Depth, Todos, Ahead
<1> SUFFICES ASSUME pass \in {"RPO", "DFS"}, NEW W, IsPreWalk(g, W)
             PROVE  \E m, q : PreAt(W, m, q)'
  BY <1>2 DEF PreInv
<1>4. PICK m, q : WalkAt(W, blocks, n, Todos, m, q, c)
  BY <1>1, <1>3 DEF PreInv, PreAt
<1>5. \A k \in 1 .. n - 1 : Todos'[k] = Todos[k]
  <2>1. \A k \in 1 .. n - 1 : k \in 1 .. n
    BY <1>3
  <2> QED
    BY <1>2, <1>3, <2>1 DEF Todos
<1>6. WalkAt(W, blocks, n - 1, Todos', m, q, c)
  BY <1>2, <1>3, <1>4, <1>5, WalkReturns
<1> QED
  BY <1>1, <1>2, <1>6 DEF PreAt

LEMMA StepPreInv == ListInv /\ PreInv /\ [Next]_vars => PreInv'
<1> SUFFICES ASSUME ListInv, PreInv, [Next]_vars PROVE PreInv'
  OBVIOUS
<1>1. CASE UNCHANGED vars
  BY <1>1 DEF vars, PreInv, PreAt, Todos
<1>2. CASE Dequeue
  <2>1. pass' = "BFS"
    BY <1>2, DequeueFacts DEF ListInv
  <2> QED
    BY <2>1 DEF PreInv
<1> QED
  BY <1>1, <1>2, DescendPreInv, SkipPreInv, ReturnPreInv DEF Next

\* A pass that has ended is where the walk has come to its end.
LEMMA PreorderListed ==
  ASSUME ListInv, PreInv, Done, pass \in {"RPO", "DFS"}
  PROVE  blocks = Preorder(graph)
<1>1. graph \in Graphs /\ visited \in SUBSET Ids /\ Len(stack) = 0
  BY GraphFacts DEF ListInv, Done, TypeOK
<1> QED
  BY <1>1, WalkEnds DEF PreInv, PreAt

-----------------------------------------------------------------------------
\* The same for PO and the walk of Postorder. A call has the rest of its
\* successors to enter, and then to leave its block.

\* Where the walk is that PO has got to: it has met what is marked and left what
\* is listed, in at most three steps for each block it met.
Pendings == [k \in 1 .. Len(stack) |-> Pending(stack[k].bb, stack[k].todo)]

PostAt(W, m, q) ==
  /\ m \in Nat /\ IsPile(Items, Len(stack), Pendings, q) /\ q \in Seq(Items)
  /\ W[m] = PostState(visited, blocks, q)
  /\ m + Len(q) <= 3 * Cardinality(visited) + 1

PostInv ==
  pass = "PO" => \A W : IsPostWalk(graph, W) => \E m, q : PostAt(W, m, q)

\* The walk of Postorder and the pass start alike, and Descend, Skip and Return
\* are a step of the walk each.
LEMMA InitPostInv == Init => PostInv
<1> SUFFICES ASSUME Init, pass = "PO", NEW W, IsPostWalk(graph, W)
             PROVE  \E m, q : PostAt(W, m, q)
  BY DEF PostInv
<1>1. /\ graph \in Graphs /\ Start \in Ids /\ visited = {Start} /\ blocks = <<>>
      /\ stack = <<[bb |-> Start, todo |-> GetSuccessors(graph, Start)]>>
  BY InputsAssumption, FlowGraphAssumption DEF Init, ListedAtEntry, Call
<1> DEFINE list == GetSuccessors(graph, Start)
           q == Pending(Start, list)
<1>2. list \in Seq(Ids) /\ Len(list) <= 2 /\ Len(list) \in Nat
  BY <1>1, SuccessorsInIds
<1>3. Len(stack) = 1 /\ Pendings[1] = q
  BY <1>1 DEF Pendings
<1>4. q \in Seq(Items) /\ Len(q) = Len(list) + 1
  <2> HIDE DEF list
  <2> QED
    BY <1>1, <1>2, PendingFacts
<1>5. IsPile(Items, Len(stack), Pendings, q)
  <2> HIDE DEF q
  <2> QED
    BY <1>3, <1>4, PileOfOne
<1>6. W[1] = PostState({Start}, <<>>, q)
  <2> DEFINE one == <<Entering(Start)>>
             none == <<>>
             init == {}
             met == init \cup {Start}
             more == q \o none
  <2>1. Splits(one, Entering(Start), none) /\ Start \notin init
    BY DEF Splits
  <2>2. W[0] = PostState(init, none, one) /\ W[1] = PostStep(graph, W[0])
    <3>1. 0 \in Nat /\ 0 + 1 = 1
      OBVIOUS
    <3> QED
      BY <3>1 DEF IsPostWalk
  <2>3. more = q /\ met = {Start}
    BY <1>4, ConcatEmptySeq
  <2> HIDE DEF one, none, init
  <2>4. PostStep(graph, PostState(init, none, one)) = PostState(met, none, more)
    BY <2>1, PostMeets
  <2> HIDE DEF q, more, met
  <2>5. W[1] = PostState({Start}, none, q)
    BY <2>2, <2>3, <2>4
  <2> QED
    BY <2>5 DEF none
<1>7. Cardinality(visited) = 1
  BY <1>1, FS_Singleton
<1>8. PostAt(W, 1, q)
  <2> HIDE DEF q, list
  <2>1. 1 + Len(q) <= 3 * Cardinality(visited) + 1
    BY <1>2, <1>4, <1>7
  <2>2. W[1] = PostState(visited, blocks, q)
    BY <1>1, <1>6
  <2> QED
    BY <1>4, <1>5, <2>1, <2>2 DEF PostAt
<1> QED
  BY <1>8

\* What the topmost call still has to do comes first.
LEMMA PostTop ==
  ASSUME TypeOK, stack # <<>>, NEW W, NEW m, NEW q, PostAt(W, m, q)
  PROVE  \E r \in Seq(Items) : /\ q = Pending(Active, Ahead) \o r
                               /\ IsPile(Items, Depth - 1, Pendings, r)
<1>1. Depth \in Nat \ {0} /\ Len(stack) = Depth /\ Pendings[Depth] = Pending(Active, Ahead)
  BY TopFacts DEF Depth, Pendings, Ahead, Active
<1>2. \E r \in Seq(Items) : q = Pendings[Depth] \o r /\ IsPile(Items, Depth - 1, Pendings, r)
  BY <1>1, PileTop DEF PostAt
<1> QED
  BY <1>1, <1>2

\* Entering the first of the successors to come is taken from the top.
LEMMA PostTopEnters ==
  ASSUME TypeOK, stack # <<>>, Ahead # <<>>, NEW W, NEW m, NEW q, PostAt(W, m, q)
  PROVE  \E r, rest :
           /\ IsPile(Items, Depth - 1, Pendings, r) /\ rest = Pending(Active, Tail(Ahead)) \o r
           /\ Splits(q, Entering(Head(Ahead)), rest)
           /\ rest \in Seq(Items) /\ Len(rest) \in Nat /\ Len(q) = Len(rest) + 1
<1>1. PICK r \in Seq(Items) : q = Pending(Active, Ahead) \o r /\ IsPile(Items, Depth - 1, Pendings, r)
  BY PostTop
<1>2. Active \in Ids /\ Ahead \in Seq(Ids)
  BY TopFacts
<1> DEFINE p == Pending(Active, Ahead)
           u == Pending(Active, Tail(Ahead))
           x == Entering(Head(Ahead))
<1>3. p \in Seq(Items) /\ Splits(p, x, u)
  BY <1>2, PendingFacts
<1> HIDE DEF p, u, x
<1>4. /\ Splits(p \o r, x, u \o r) /\ u \o r \in Seq(Items)
      /\ Len(u \o r) \in Nat /\ Len(p \o r) = Len(u \o r) + 1
  BY <1>3, SplitsConcat
<1> QED
  BY <1>1, <1>4 DEF p, u, x

LEMMA DescendPostInv == ASSUME ListInv, PostInv, Descend PROVE PostInv'
<1> DEFINE n == Depth
           succ == Head(Ahead)
           next == GetSuccessors(graph, succ)
<1>t. TypeOK
  BY DEF ListInv
<1>1. /\ stack # <<>> /\ Ahead # <<>> /\ succ \in Ids \ visited
      /\ Len(stack') = n + 1
      /\ stack'[n].bb = Active /\ stack'[n].todo = Tail(Ahead)
      /\ stack'[n + 1].bb = succ /\ stack'[n + 1].todo = next
      /\ \A k \in 1 .. n - 1 : stack'[k] = stack[k]
      /\ visited' = visited \cup {succ}
      /\ blocks' = IF pass = "PO" THEN blocks ELSE Append(blocks, succ)
      /\ graph' = graph /\ pass' = pass
  <2>1. /\ stack'[n] = [bb |-> Active, todo |-> Tail(Ahead)]
        /\ stack'[n + 1] = [bb |-> succ, todo |-> next]
    BY <1>t, DescendFacts
  <2>2. /\ stack'[n].bb = Active /\ stack'[n].todo = Tail(Ahead)
        /\ stack'[n + 1].bb = succ /\ stack'[n + 1].todo = next
    BY <2>1
  <2> QED
    BY <1>t, <2>2, DescendFacts
<1>2. /\ n \in Nat \ {0} /\ Active \in Ids /\ Ahead \in Seq(Ids) /\ graph \in Graphs /\ Len(stack) = n
      /\ Tail(Ahead) \in Seq(Ids)
      /\ next \in Seq(Ids) /\ Len(next) \in Nat /\ Len(next) <= 2
  <2>1. n \in Nat \ {0} /\ Active \in Ids /\ Ahead \in Seq(Ids) /\ graph \in Graphs /\ Len(stack) = n
    BY <1>t, <1>1, TopFacts, GraphFacts DEF Depth
  <2> QED
    BY <1>1, <2>1, HeadTailFacts, SuccessorsInIds
<1> SUFFICES ASSUME pass = "PO", NEW W, IsPostWalk(graph, W)
             PROVE  \E m, q : PostAt(W, m, q)'
  BY <1>1 DEF PostInv
<1>3. PICK m, q : PostAt(W, m, q)
  BY DEF PostInv
<1>4. PICK r, rest :
        /\ IsPile(Items, n - 1, Pendings, r) /\ rest = Pending(Active, Tail(Ahead)) \o r
        /\ Splits(q, Entering(succ), rest)
        /\ rest \in Seq(Items) /\ Len(rest) \in Nat /\ Len(q) = Len(rest) + 1
  BY <1>t, <1>1, <1>3, PostTopEnters
<1> DEFINE low == Pending(Active, Tail(Ahead))
           high == Pending(succ, next)
<1>5. low \in Seq(Items) /\ high \in Seq(Items) /\ Len(high) = Len(next) + 1
  <2> HIDE DEF next, succ
  <2> QED
    BY <1>1, <1>2, PendingFacts
<1> HIDE DEF n, succ, next
<1>6. Pendings'[n] = low /\ Pendings'[n + 1] = high /\ \A k \in 1 .. n - 1 : Pendings'[k] = Pendings[k]
  <2>1. n \in 1 .. n + 1 /\ n + 1 \in 1 .. n + 1 /\ \A k \in 1 .. n - 1 : k \in 1 .. n + 1 /\ k \in 1 .. n
    BY <1>2
  <2> QED
    BY <1>1, <1>2, <2>1 DEF Pendings
<1> HIDE DEF low, high
<1>7. IsPile(Items, n + 1, Pendings', high \o rest)
  <2> DEFINE P == Pendings
             Q == Pendings'
  <2>1. n \in Nat \ {0} /\ n + 1 \in Nat \ {0} /\ (n + 1) - 1 = n
    BY <1>2
  <2>2. IsPile(Items, n - 1, P, r) /\ Q[n] = low /\ Q[n + 1] = high /\ \A k \in 1 .. n - 1 : Q[k] = P[k]
    BY <1>4, <1>6
  <2> HIDE DEF P, Q
  <2>3. IsPile(Items, n, Q, low \o r)
    BY <1>5, <2>1, <2>2, PilePush
  <2>4. rest = low \o r
    BY <1>4 DEF low
  <2>5. IsPile(Items, n, Q, rest)
    BY <2>3, <2>4
  <2>6. IsPile(Items, n + 1, Q, high \o rest)
    BY <1>5, <2>1, <2>2, <2>5, PilePush
  <2> QED
    BY <2>6 DEF Q
<1>8. PICK q1 : q1 = high \o rest
  OBVIOUS
<1>9. q1 \in Seq(Items) /\ Len(q1) = Len(next) + 1 + Len(rest)
  <2>1. high \o rest \in Seq(Items) /\ Len(high \o rest) = Len(high) + Len(rest)
    BY <1>4, <1>5, ConcatFacts
  <2> QED
    BY <1>5, <1>8, <2>1
<1>10. W[m + 1] = PostState(visited', blocks', q1)
  <2>1. PostStep(graph, PostState(visited, blocks, q)) = PostState(visited \cup {succ}, blocks, high \o rest)
    BY <1>1, <1>4, PostMeets DEF high, next
  <2>2. W[m] = PostState(visited, blocks, q) /\ W[m + 1] = PostStep(graph, W[m])
    BY <1>3 DEF PostAt, IsPostWalk
  <2>3. visited' = visited \cup {succ} /\ blocks' = blocks
    BY <1>1
  <2> DEFINE l == high \o rest
             v == visited \cup {succ}
  <2>4. W[m + 1] = PostState(v, blocks, l) /\ q1 = l /\ visited' = v
    BY <1>8, <2>1, <2>2, <2>3
  <2> HIDE DEF l, v
  <2> QED
    BY <2>3, <2>4
<1>11. m \in Nat /\ (m + 1) + Len(q1) <= 3 * Cardinality(visited') + 1
  <2>1. Cardinality(visited') = Cardinality(visited) + 1 /\ Cardinality(visited) \in Nat
    BY <1>t, <1>1, MarkOneMore
  <2>2. m \in Nat /\ m + Len(q) <= 3 * Cardinality(visited) + 1
    BY <1>3 DEF PostAt
  <2>3. Len(q) \in Nat /\ Len(q1) \in Nat /\ Len(q1) <= Len(q) + 2
    BY <1>2, <1>4, <1>9
  <2>4. ASSUME NEW a \in Nat, NEW b \in Nat, NEW c \in Nat, b <= a + 2, m + a <= 3 * c + 1
        PROVE  (m + 1) + b <= 3 * (c + 1) + 1
    BY <2>2, <2>4
  <2>5. (m + 1) + Len(q1) <= 3 * (Cardinality(visited) + 1) + 1
    BY <2>1, <2>2, <2>3, <2>4
  <2> QED
    BY <2>1, <2>2, <2>5
<1>12. IsPile(Items, n + 1, Pendings', q1)
  BY <1>7, <1>8
<1>13. PostAt(W, m + 1, q1)'
  BY <1>1, <1>9, <1>10, <1>11, <1>12 DEF PostAt
<1> QED
  BY <1>13

LEMMA SkipPostInv == ASSUME ListInv, PostInv, Skip PROVE PostInv'
<1> DEFINE n == Depth
           succ == Head(Ahead)
<1>t. TypeOK
  BY DEF ListInv
<1>1. /\ stack # <<>> /\ Ahead # <<>> /\ succ \in visited
      /\ Len(stack') = n /\ stack'[n].bb = Active /\ stack'[n].todo = Tail(Ahead)
      /\ \A k \in 1 .. n - 1 : stack'[k] = stack[k]
      /\ graph' = graph /\ pass' = pass /\ visited' = visited /\ blocks' = blocks
  <2>1. stack'[n] = [bb |-> Active, todo |-> Tail(Ahead)]
    BY <1>t, SkipFacts
  <2>2. stack'[n].bb = Active /\ stack'[n].todo = Tail(Ahead)
    BY <2>1
  <2> QED
    BY <1>t, <2>2, SkipFacts
<1>2. n \in Nat \ {0} /\ Active \in Ids /\ Ahead \in Seq(Ids) /\ Len(stack) = n /\ Tail(Ahead) \in Seq(Ids)
  <2>1. n \in Nat \ {0} /\ Active \in Ids /\ Ahead \in Seq(Ids) /\ Len(stack) = n
    BY <1>t, <1>1, TopFacts DEF Depth
  <2> QED
    BY <1>1, <2>1, HeadTailFacts
<1> SUFFICES ASSUME pass = "PO", NEW W, IsPostWalk(graph, W)
             PROVE  \E m, q : PostAt(W, m, q)'
  BY <1>1 DEF PostInv
<1>3. PICK m, q : PostAt(W, m, q)
  BY DEF PostInv
<1>4. PICK r, rest :
        /\ IsPile(Items, n - 1, Pendings, r) /\ rest = Pending(Active, Tail(Ahead)) \o r
        /\ Splits(q, Entering(succ), rest)
        /\ rest \in Seq(Items) /\ Len(rest) \in Nat /\ Len(q) = Len(rest) + 1
  BY <1>t, <1>1, <1>3, PostTopEnters
<1> HIDE DEF n, succ
<1> DEFINE low == Pending(Active, Tail(Ahead))
<1>5. low \in Seq(Items)
  BY <1>2, PendingFacts
<1>6. Pendings'[n] = low /\ \A k \in 1 .. n - 1 : Pendings'[k] = Pendings[k]
  <2>1. n \in 1 .. n /\ \A k \in 1 .. n - 1 : k \in 1 .. n
    BY <1>2
  <2> QED
    BY <1>1, <1>2, <2>1 DEF Pendings
<1> HIDE DEF low
<1>7. IsPile(Items, n, Pendings', rest)
  <2> DEFINE P == Pendings
             Q == Pendings'
  <2>1. /\ n \in Nat \ {0} /\ IsPile(Items, n - 1, P, r) /\ Q[n] = low
        /\ \A k \in 1 .. n - 1 : Q[k] = P[k]
    BY <1>2, <1>4, <1>6
  <2> HIDE DEF P, Q
  <2>2. IsPile(Items, n, Q, low \o r)
    BY <1>5, <2>1, PilePush
  <2>3. rest = low \o r
    BY <1>4 DEF low
  <2> QED
    BY <2>2, <2>3 DEF Q
<1>8. W[m + 1] = PostState(visited, blocks, rest)
  <2>1. PostStep(graph, PostState(visited, blocks, q)) = PostState(visited, blocks, rest)
    BY <1>1, <1>4, PostPasses
  <2>2. W[m] = PostState(visited, blocks, q) /\ W[m + 1] = PostStep(graph, W[m])
    BY <1>3 DEF PostAt, IsPostWalk
  <2> QED
    BY <2>1, <2>2
<1>9. m \in Nat /\ (m + 1) + Len(rest) <= 3 * Cardinality(visited) + 1
  <2>1. m \in Nat /\ m + Len(q) <= 3 * Cardinality(visited) + 1
    BY <1>3 DEF PostAt
  <2>2. (m + 1) + Len(rest) = m + Len(q)
    BY <1>4, <2>1
  <2> QED
    BY <2>1, <2>2
<1>10. PostAt(W, m + 1, rest)'
  BY <1>1, <1>4, <1>7, <1>8, <1>9 DEF PostAt
<1> QED
  BY <1>10

LEMMA ReturnPostInv == ASSUME ListInv, PostInv, Return PROVE PostInv'
<1> DEFINE n == Depth
<1>t. TypeOK
  BY DEF ListInv
<1>1. /\ stack # <<>> /\ Ahead = <<>> /\ Len(stack') = n - 1
      /\ \A k \in 1 .. n - 1 : stack'[k] = stack[k]
      /\ blocks' = IF pass = "PO" THEN Append(blocks, Active) ELSE blocks
      /\ graph' = graph /\ pass' = pass /\ visited' = visited
  BY <1>t, ReturnFacts
<1>2. n \in Nat \ {0} /\ Active \in Ids /\ Len(stack) = n
  BY <1>t, <1>1, TopFacts DEF Depth
<1> SUFFICES ASSUME pass = "PO", NEW W, IsPostWalk(graph, W)
             PROVE  \E m, q : PostAt(W, m, q)'
  BY <1>1 DEF PostInv
<1>3. PICK m, q : PostAt(W, m, q)
  BY DEF PostInv
<1>4. PICK r \in Seq(Items) : /\ q = Pending(Active, Ahead) \o r
                              /\ IsPile(Items, n - 1, Pendings, r)
  BY <1>t, <1>1, <1>3, PostTop
<1> HIDE DEF n
<1>5. Splits(q, Leaving(Active), r) /\ Len(r) \in Nat /\ Len(q) = Len(r) + 1
  <2> DEFINE p == Pending(Active, Ahead)
             none == <<>>
  <2>1. none \in Seq(Ids) /\ none \in Seq(Items) /\ Ahead = none /\ none \o r = r
    BY <1>1, ConcatEmptySeq
  <2>2. p \in Seq(Items) /\ Splits(p, Leaving(Active), none)
    BY <1>1, <1>2, <2>1, PendingFacts
  <2> HIDE DEF p, none
  <2>3. /\ Splits(p \o r, Leaving(Active), none \o r)
        /\ Len(none \o r) \in Nat /\ Len(p \o r) = Len(none \o r) + 1
    BY <2>2, SplitsConcat
  <2> QED
    BY <1>4, <2>1, <2>3 DEF p
<1>6. \A k \in 1 .. n - 1 : Pendings'[k] = Pendings[k]
  <2>1. \A k \in 1 .. n - 1 : k \in 1 .. n
    BY <1>2
  <2> QED
    BY <1>1, <1>2, <2>1 DEF Pendings
<1>7. IsPile(Items, n - 1, Pendings', r)
  <2>1. n - 1 \in Nat
    BY <1>2
  <2> QED
    BY <1>4, <1>6, <2>1, SamePile
<1>8. W[m + 1] = PostState(visited, blocks', r)
  <2>1. PostStep(graph, PostState(visited, blocks, q)) = PostState(visited, Append(blocks, Active), r)
    BY <1>5, PostLeaves
  <2>2. W[m] = PostState(visited, blocks, q) /\ W[m + 1] = PostStep(graph, W[m])
    BY <1>3 DEF PostAt, IsPostWalk
  <2> DEFINE l == Append(blocks, Active)
  <2>3. W[m + 1] = PostState(visited, l, r) /\ blocks' = l
    BY <1>1, <2>1, <2>2
  <2> HIDE DEF l
  <2> QED
    BY <2>3
<1>9. m \in Nat /\ (m + 1) + Len(r) <= 3 * Cardinality(visited) + 1
  <2>1. m \in Nat /\ m + Len(q) <= 3 * Cardinality(visited) + 1
    BY <1>3 DEF PostAt
  <2>2. (m + 1) + Len(r) = m + Len(q)
    BY <1>5, <2>1
  <2> QED
    BY <2>1, <2>2
<1>10. PostAt(W, m + 1, r)'
  BY <1>1, <1>4, <1>7, <1>8, <1>9 DEF PostAt
<1> QED
  BY <1>10

LEMMA StepPostInv == ListInv /\ PostInv /\ [Next]_vars => PostInv'
<1> SUFFICES ASSUME ListInv, PostInv, [Next]_vars PROVE PostInv'
  OBVIOUS
<1>1. CASE UNCHANGED vars
  BY <1>1 DEF vars, PostInv, PostAt, Pendings
<1>2. CASE Dequeue
  <2>1. pass' = "BFS"
    BY <1>2, DequeueFacts DEF ListInv
  <2> QED
    BY <2>1 DEF PostInv
<1> QED
  BY <1>1, <1>2, DescendPostInv, SkipPostInv, ReturnPostInv DEF Next

\* A walk that has nothing left stays as it is.
LEMMA PostWalkEnds ==
  ASSUME NEW g, NEW W, IsPostWalk(g, W), NEW m \in Nat, NEW met, NEW list,
         W[m] = PostState(met, list, <<>>), NEW n \in Nat, m <= n
  PROVE  W[n].left = list
<1> DEFINE A == {k \in Nat : W[m + k] = PostState(met, list, <<>>)}
<1>1. 0 \in A
  OBVIOUS
<1>2. ASSUME NEW k \in Nat, k \in A PROVE k + 1 \in A
  <2>1. W[(m + k) + 1] = PostStep(g, W[m + k]) /\ m + (k + 1) = (m + k) + 1
    BY DEF IsPostWalk
  <2>2. PostStep(g, PostState(met, list, <<>>)) = PostState(met, list, <<>>)
    BY PostStays
  <2> QED
    BY <1>2, <2>1, <2>2
<1>3. n - m \in A
  <2>1. n - m \in Nat
    OBVIOUS
  <2> HIDE DEF A
  <2> QED
    BY <1>1, <1>2, <2>1, SetInduction
<1>4. W[n] = PostState(met, list, <<>>)
  <2>1. m + (n - m) = n
    OBVIOUS
  <2> QED
    BY <1>3, <2>1
<1> QED
  BY <1>4 DEF PostState

\* A pass that has ended is where the walk has come to its end.
LEMMA PostorderListed ==
  ASSUME ListInv, PostInv, Done, pass = "PO"
  PROVE  blocks = Postorder(graph)
<1>1. graph \in Graphs /\ stack = <<>> /\ visited \in SUBSET Ids
  BY GraphFacts DEF ListInv, Done, TypeOK
<1>2. PICK W : IsPostWalk(graph, W) /\ Postorder(graph) = W[3 * Cardinality(Ids) + 1].left
  BY <1>1, PostorderWalk
<1>3. PICK m, q : PostAt(W, m, q)
  BY <1>2 DEF PostInv
<1>4. Len(stack) = 0
  BY <1>1
<1>5. q = <<>> /\ m \in Nat /\ W[m] = PostState(visited, blocks, <<>>) /\ m <= 3 * Cardinality(visited) + 1
  <2>1. q = <<>>
    BY <1>3, <1>4, NoPile DEF PostAt
  <2>2. Len(<<>>) = 0
    OBVIOUS
  <2>3. Cardinality(visited) \in Nat
    BY <1>1, FiniteIds, FS_Subset, FS_CardinalityType
  <2> QED
    BY <1>3, <2>1, <2>2, <2>3 DEF PostAt
<1>6. /\ Cardinality(visited) \in Nat /\ Cardinality(Ids) \in Nat
      /\ Cardinality(visited) <= Cardinality(Ids)
  BY <1>1, FiniteIds, FS_Subset, FS_CardinalityType
<1>7. 3 * Cardinality(Ids) + 1 \in Nat /\ m <= 3 * Cardinality(Ids) + 1
  BY <1>5, <1>6
<1> QED
  BY <1>2, <1>5, <1>7, PostWalkEnds

\* What the invariants say of a pass that has ended.
LEMMA OnceInOrder == ListInv /\ PreInv /\ PostInv => ListsReachableOnce
  BY ListedAtEnd, PreorderListed, PostorderListed DEF ListsReachableOnce

\* Every block that can be reached is listed once and no other is, and RPO, DFS and
\* PO list them in the orders that Preorder and Postorder give: on any graph.
THEOREM ListsOnceInOrder == Spec => []ListsReachableOnce
<1>1. Init => PreInv /\ PostInv
  BY InitPreInv, InitPostInv
<1>2. ListInv /\ PreInv /\ PostInv /\ [Next]_vars => (PreInv /\ PostInv)'
  BY StepPreInv, StepPostInv
<1>3. ListInv /\ PreInv /\ PostInv => ListsReachableOnce
  BY OnceInOrder
<1> QED
  BY <1>1, <1>2, <1>3, SpecListInv, PTL DEF Spec

-----------------------------------------------------------------------------
\* PO's order and the cycles of the graph.

ReachFrom(b) == ReachAvoiding(graph, b, {})

\* What can be reached from a block is closed under successors.
LEMMA ReachFromFacts ==
  ASSUME NEW g \in Graphs, NEW b \in Ids
  PROVE  /\ b \in ReachAvoiding(g, b, {}) /\ ReachAvoiding(g, b, {}) \subseteq Ids
         /\ \A c \in ReachAvoiding(g, b, {}) : SuccSet(g, c) \subseteq ReachAvoiding(g, b, {})
<1>1. {b} \ {} = {b} /\ \A c : SuccSet(g, c) \ {} = SuccSet(g, c)
  OBVIOUS
<1>2. /\ ReachAvoiding(g, b, {}) \subseteq Ids /\ {b} \ {} \subseteq ReachAvoiding(g, b, {})
      /\ \A c \in ReachAvoiding(g, b, {}) : SuccSet(g, c) \ {} \subseteq ReachAvoiding(g, b, {})
  BY ReachAvoidingLeast
<1> QED
  BY <1>1, <1>2

\* The calls on the stack are along a path.
CallsAlongPath ==
  \A j, k \in 1 .. Len(stack) : j <= k => stack[k].bb \in ReachFrom(stack[j].bb)

\* A successor of a listed block that is not listed before it leads back to it.
LeavesLast ==
  pass = "PO" =>
    \A k \in 1 .. Len(blocks) : \A c \in SuccSet(graph, blocks[k]) :
      (\E j \in 1 .. k - 1 : blocks[j] = c) \/ blocks[k] \in ReachFrom(c)

\* Both hold at first, and each of the actions keeps them.
LEMMA InitCycles == Init => CallsAlongPath /\ LeavesLast
<1> SUFFICES ASSUME Init PROVE CallsAlongPath /\ LeavesLast
  OBVIOUS
<1>1. graph \in Graphs /\ Start \in Ids /\ pass \in Passes
  BY InputsAssumption, FlowGraphAssumption DEF Init
<1>2. LeavesLast
  BY DEF Init, LeavesLast, ListedAtEntry
<1>3. CASE pass = "BFS"
  BY <1>2, <1>3 DEF Init, CallsAlongPath
<1>4. CASE pass # "BFS"
  <2>1. Len(stack) = 1 /\ stack[1].bb = Start
    BY <1>4 DEF Init, Call
  <2>2. \A k \in 1 .. 1 : k = 1
    OBVIOUS
  <2> QED
    BY <1>1, <1>2, <2>1, <2>2, ReachFromFacts DEF CallsAlongPath, ReachFrom
<1> QED
  BY <1>3, <1>4

LEMMA DescendCycles == ASSUME ListInv, CallsAlongPath, LeavesLast, Descend PROVE CallsAlongPath' /\ LeavesLast'
<1> DEFINE n == Depth
           succ == Head(Ahead)
<1>t. TypeOK /\ CallsMarked
  BY DEF ListInv
<1>1. /\ stack # <<>> /\ Ahead # <<>> /\ succ \in Ids
      /\ Len(stack') = n + 1 /\ stack'[n].bb = Active /\ stack'[n + 1].bb = succ
      /\ \A k \in 1 .. n - 1 : stack'[k] = stack[k]
      /\ (pass = "PO" => blocks' = blocks) /\ graph' = graph /\ pass' = pass
  <2>1. /\ stack'[n] = [bb |-> Active, todo |-> Tail(Ahead)]
        /\ stack'[n + 1] = [bb |-> succ, todo |-> GetSuccessors(graph, succ)]
    BY <1>t, DescendFacts
  <2>2. stack'[n].bb = Active /\ stack'[n + 1].bb = succ
    BY <2>1
  <2> QED
    BY <1>t, <2>2, DescendFacts
<1>2. /\ n \in Nat \ {0} /\ Active \in Ids /\ Ahead \in Seq(Ids) /\ graph \in Graphs /\ Len(stack) = n
      /\ stack[n].bb = Active /\ stack[n].todo = Ahead
  BY <1>t, <1>1, TopFacts, GraphFacts DEF Depth, Active, Ahead
<1>3. succ \in SuccSet(graph, Active)
  <2>1. n \in 1 .. Len(stack)
    BY <1>2
  <2>2. succ \in ToSet(Ahead)
    BY <1>1, <1>2, HeadTailFacts
  <2> HIDE DEF n, succ
  <2> QED
    BY <1>t, <1>2, <2>1, <2>2 DEF CallsMarked
<1> HIDE DEF n, succ
<1>4. ASSUME NEW k \in 1 .. n PROVE stack'[k].bb = stack[k].bb
  <2>1. CASE k = n
    BY <1>1, <1>2, <2>1
  <2>2. CASE k # n
    <3>1. k \in 1 .. n - 1
      BY <1>2, <2>2
    <3> QED
      BY <1>1, <3>1
  <2> QED
    BY <2>1, <2>2
<1>5. ASSUME NEW j \in 1 .. n + 1, NEW k \in 1 .. n + 1, j <= k
      PROVE  stack'[k].bb \in ReachAvoiding(graph, stack'[j].bb, {})
  <2>1. CASE k # n + 1
    <3>1. j \in 1 .. n /\ k \in 1 .. n
      BY <1>2, <1>5, <2>1
    <3> QED
      BY <1>2, <1>4, <1>5, <3>1 DEF CallsAlongPath, ReachFrom
  <2>2. CASE k = n + 1 /\ j = n + 1
    BY <1>1, <1>2, <2>2, ReachFromFacts
  <2>3. CASE k = n + 1 /\ j # n + 1
    <3>1. j \in 1 .. n /\ n \in 1 .. n /\ j <= n
      BY <1>2, <1>5, <2>3
    <3>2. Active \in ReachAvoiding(graph, stack[j].bb, {})
      BY <1>2, <3>1 DEF CallsAlongPath, ReachFrom
    <3>3. stack[j].bb \in Ids
      <4>1. stack[j] \in Frames
        BY <1>t, <1>2, <3>1 DEF TypeOK
      <4> QED
        BY <4>1 DEF Frames
    <3>4. succ \in ReachAvoiding(graph, stack[j].bb, {})
      BY <1>2, <1>3, <3>2, <3>3, ReachFromFacts
    <3> QED
      BY <1>1, <1>4, <2>3, <3>1, <3>4
  <2> QED
    BY <2>1, <2>2, <2>3
<1>6. CallsAlongPath'
  BY <1>1, <1>5 DEF CallsAlongPath, ReachFrom
<1>7. LeavesLast'
  BY <1>1 DEF LeavesLast, ReachFrom
<1> QED
  BY <1>6, <1>7

LEMMA SkipCycles == ASSUME ListInv, CallsAlongPath, LeavesLast, Skip PROVE CallsAlongPath' /\ LeavesLast'
<1> DEFINE n == Depth
<1>t. TypeOK
  BY DEF ListInv
<1>1. /\ stack # <<>> /\ Len(stack') = n /\ stack'[n].bb = Active
      /\ \A k \in 1 .. n - 1 : stack'[k] = stack[k]
      /\ blocks' = blocks /\ graph' = graph /\ pass' = pass
  <2>1. stack'[n] = [bb |-> Active, todo |-> Tail(Ahead)]
    BY <1>t, SkipFacts
  <2>2. stack'[n].bb = Active
    BY <2>1
  <2> QED
    BY <1>t, <2>2, SkipFacts
<1>2. n \in Nat \ {0} /\ Len(stack) = n /\ stack[n].bb = Active
  BY <1>t, <1>1, TopFacts DEF Depth, Active
<1> HIDE DEF n
<1>3. ASSUME NEW k \in 1 .. n PROVE stack'[k].bb = stack[k].bb
  <2>1. CASE k = n
    BY <1>1, <1>2, <2>1
  <2>2. CASE k # n
    <3>1. k \in 1 .. n - 1
      BY <1>2, <2>2
    <3> QED
      BY <1>1, <3>1
  <2> QED
    BY <2>1, <2>2
<1> QED
  BY <1>1, <1>2, <1>3 DEF CallsAlongPath, LeavesLast, ReachFrom

LEMMA ReturnCycles == ASSUME ListInv, CallsAlongPath, LeavesLast, Return PROVE CallsAlongPath' /\ LeavesLast'
<1> DEFINE n == Depth
<1>t. TypeOK /\ CallsMarked /\ SuccessorsMarked /\ ListedOnce
  BY DEF ListInv
<1>1. /\ stack # <<>> /\ Ahead = <<>> /\ Len(stack') = n - 1
      /\ \A k \in 1 .. n - 1 : stack'[k] = stack[k]
      /\ blocks' = IF pass = "PO" THEN Append(blocks, Active) ELSE blocks
      /\ graph' = graph /\ pass' = pass
  BY <1>t, ReturnFacts
<1>2. /\ n \in Nat \ {0} /\ Active \in Ids /\ Len(stack) = n
      /\ stack[n].bb = Active /\ ToSet(stack[n].todo) = {} /\ blocks \in Seq(Ids)
  BY <1>t, <1>1, TopFacts DEF Depth, Active, Ahead, ToSet, TypeOK
<1> HIDE DEF n
<1>3. CallsAlongPath'
  <2>1. \A k \in 1 .. n - 1 : k \in 1 .. n
    BY <1>2
  <2> QED
    BY <1>1, <1>2, <2>1 DEF CallsAlongPath, ReachFrom
<1>4. LeavesLast'
  <2> SUFFICES ASSUME pass = "PO", NEW k \in 1 .. Len(blocks'), NEW c \in SuccSet(graph, blocks'[k])
               PROVE  (\E j \in 1 .. k - 1 : blocks'[j] = c) \/ blocks'[k] \in ReachAvoiding(graph, c, {})
    BY <1>1 DEF LeavesLast, ReachFrom
  <2>1. /\ Len(blocks') = Len(blocks) + 1 /\ Len(blocks) \in Nat /\ blocks'[Len(blocks) + 1] = Active
        /\ \A j \in 1 .. Len(blocks) : blocks'[j] = blocks[j]
        /\ ToSet(blocks) = {blocks[j] : j \in 1 .. Len(blocks)}
    BY <1>1, <1>2, AppendFacts, ToSetFacts
  <2>2. CASE k # Len(blocks) + 1
    <3>1. k \in 1 .. Len(blocks) /\ \A j \in 1 .. k - 1 : j \in 1 .. Len(blocks)
      BY <2>1, <2>2
    <3> QED
      BY <2>1, <3>1 DEF LeavesLast, ReachFrom
  <2>3. CASE k = Len(blocks) + 1
    <3>1. blocks'[k] = Active /\ c \in SuccSet(graph, Active) /\ k - 1 = Len(blocks)
      BY <2>1, <2>3
    <3>2. n \in 1 .. n /\ n \in 1 .. Len(stack)
      BY <1>2
    <3>3. Active \in visited
      BY <1>t, <1>2, <3>2 DEF CallsMarked
    <3>4. c \in visited
      <4>1. ASSUME NEW i \in 1 .. n, stack[i].bb = Active, c \in ToSet(stack[i].todo) PROVE FALSE
        <5>1. i = n
          BY <1>t, <1>2, <3>2, <4>1 DEF ListedOnce, CallsDistinct
        <5> QED
          BY <1>2, <4>1, <5>1
      <4> QED
        BY <1>t, <1>2, <3>1, <3>3, <4>1 DEF SuccessorsMarked, LeftBehind
    <3>5. CASE c \in ToSet(blocks)
      BY <2>1, <3>1, <3>5
    <3>6. CASE c \in OnStack
      <4>1. PICK j \in 1 .. n : stack[j].bb = c
        BY <1>2, <3>6 DEF OnStack
      <4>2. Active \in ReachFrom(stack[j].bb)
        <5>1. j <= n
          BY <1>2
        <5> QED
          BY <1>2, <3>2, <5>1 DEF CallsAlongPath
      <4> QED
        BY <3>1, <4>1, <4>2 DEF ReachFrom
    <3> QED
      BY <1>t, <3>4, <3>5, <3>6 DEF ListedOnce, Unlisted
  <2> QED
    BY <2>2, <2>3
<1> QED
  BY <1>3, <1>4

LEMMA StepCycles == ListInv /\ CallsAlongPath /\ LeavesLast /\ [Next]_vars => CallsAlongPath' /\ LeavesLast'
<1> SUFFICES ASSUME ListInv, CallsAlongPath, LeavesLast, [Next]_vars PROVE CallsAlongPath' /\ LeavesLast'
  OBVIOUS
<1>1. CASE UNCHANGED vars
  BY <1>1 DEF vars, CallsAlongPath, LeavesLast, ReachFrom
<1>2. CASE Dequeue
  <2>1. pass' = "BFS" /\ stack' = stack /\ stack = <<>>
    BY <1>2, DequeueFacts DEF ListInv, TypeOK
  <2> QED
    BY <2>1 DEF CallsAlongPath, LeavesLast
<1> QED
  BY <1>1, <1>2, DescendCycles, SkipCycles, ReturnCycles DEF Next

\* The position of a block in a list that holds it once.
LEMMA PositionFacts ==
  ASSUME TypeOK, IsInjective(blocks), NEW k \in 1 .. Len(blocks)
  PROVE  Position(blocks[k]) = k
<1>1. blocks \in Seq(Ids) /\ DOMAIN blocks = 1 .. Len(blocks)
  BY DEF TypeOK
<1>2. \A i, j \in DOMAIN blocks : blocks[i] = blocks[j] => i = j
  BY DEF IsInjective
<1> QED
  BY <1>1, <1>2 DEF Position

\* What LeavesLast says by the blocks' positions.
LEMMA LeavesLastOrders == ListInv /\ LeavesLast => PostorderClosesCycles
<1> SUFFICES ASSUME ListInv, LeavesLast, pass = "PO",
                    NEW b \in ToSet(blocks), NEW c \in SuccSet(graph, b)
             PROVE  Before(c, b) \/ b \in ReachAvoiding(graph, c, {})
  BY DEF PostorderClosesCycles
<1>1. TypeOK /\ IsInjective(blocks) /\ blocks \in Seq(Ids)
  BY DEF ListInv, ListedOnce, TypeOK
<1>2. PICK k \in 1 .. Len(blocks) : blocks[k] = b
  BY <1>1, ToSetFacts
<1>3. CASE b \in ReachFrom(c)
  BY <1>3 DEF ReachFrom
<1>4. CASE \E j \in 1 .. k - 1 : blocks[j] = c
  <2>1. PICK j \in 1 .. k - 1 : blocks[j] = c
    BY <1>4
  <2>2. j \in 1 .. Len(blocks) /\ j < k
    BY <1>1
  <2>3. Position(c) = j /\ Position(b) = k
    BY <1>1, <1>2, <2>1, <2>2, PositionFacts
  <2> QED
    BY <2>2, <2>3 DEF Before
<1> QED
  BY <1>2, <1>3, <1>4 DEF LeavesLast

\* Without cycles PO lists a block after its successors: on any graph an edge that
\* does not lead to an earlier block of the list lies on a cycle.
THEOREM PostorderOrdersEdges == Spec => []PostorderClosesCycles
<1>1. ListInv /\ LeavesLast => PostorderClosesCycles
  BY LeavesLastOrders
<1> QED
  BY <1>1, InitCycles, StepCycles, SpecListInv, PTL DEF Spec

-----------------------------------------------------------------------------
\* BFS and the number of edges it takes to reach a block.

\* R[n] is what can be reached over n edges or fewer.
IsLevels(g, R) ==
  /\ R \in [Nat -> SUBSET Ids] /\ R[0] = {Start}
  /\ \A n \in Nat : R[n + 1] = R[n] \cup UNION {SuccSet(g, c) : c \in R[n]}

\* Distance is the first level that has the block.
LEMMA DistanceFacts ==
  ASSUME TypeOK
  PROVE  \E R : /\ IsLevels(graph, R)
                /\ \A b \in Reachable(graph) : /\ Distance(b) \in Nat /\ b \in R[Distance(b)]
                                              /\ \A m \in 0 .. Distance(b) - 1 : b \notin R[m]
<1> DEFINE Levels[n \in Nat] == IF n = 0 THEN {Start}
                                ELSE LET P == Levels[n - 1] IN P \cup UNION {SuccSet(graph, c) : c \in P}
           step == [P \in SUBSET Ids |-> P \cup UNION {SuccSet(graph, c) : c \in P}]
           Rule(f) == f = [n \in Nat |-> IF n = 0 THEN {Start}
                                ELSE LET P == f[n - 1] IN P \cup UNION {SuccSet(graph, c) : c \in P}]
<1>t. graph \in Graphs /\ Start \in Ids
  BY GraphFacts
<1>1. step \in [SUBSET Ids -> SUBSET Ids] /\ {Start} \in SUBSET Ids
  BY <1>t, SuccSetInIds
<1>2. PICK f : IsRun(SUBSET Ids, {Start}, step, f)
  <2> DEFINE S == SUBSET Ids
             a == {Start}
  <2>1. a \in S /\ step \in [S -> S]
    BY <1>1
  <2> HIDE DEF step, S, a
  <2>2. \E f : IsRun(S, a, step, f)
    BY <2>1, RunExists
  <2> QED
    BY <2>2 DEF S, a
<1>3. /\ f \in [Nat -> SUBSET Ids] /\ f[0] = {Start}
      /\ \A n \in Nat : f[n + 1] = f[n] \cup UNION {SuccSet(graph, c) : c \in f[n]}
  <2>1. f \in [Nat -> SUBSET Ids] /\ f[0] = {Start} /\ \A n \in Nat : f[n + 1] = step[f[n]]
    BY <1>2 DEF IsRun
  <2> QED
    BY <2>1
<1>4. Rule(f)
  <2>1. ASSUME NEW n \in Nat, n # 0
        PROVE  f[n] = f[n - 1] \cup UNION {SuccSet(graph, c) : c \in f[n - 1]}
    <3>1. n - 1 \in Nat /\ n = (n - 1) + 1
      BY <2>1
    <3> QED
      BY <1>3, <3>1
  <2> QED
    BY <1>3, <2>1
<1>5. Levels = CHOOSE x : Rule(x)
  OBVIOUS
<1>6. Rule(Levels)
  <2> HIDE DEF Rule
  <2> QED
    BY <1>4, <1>5
<1>d. \A b : Distance(b) = CHOOSE n \in 0 .. Cardinality(Ids) :
                             b \in Levels[n] /\ \A m \in 0 .. n - 1 : b \notin Levels[m]
  BY DEF Distance, Levels
<1> HIDE DEF Levels
<1>7. IsLevels(graph, Levels)
  <2> DEFINE A == {n \in Nat : Levels[n] = f[n]}
  <2>1. 0 \in A
    BY <1>3, <1>6
  <2>2. ASSUME NEW n \in Nat, n \in A PROVE n + 1 \in A
    <3>1. n + 1 \in Nat /\ n + 1 # 0 /\ (n + 1) - 1 = n
      OBVIOUS
    <3>2. Levels[n + 1] = Levels[n] \cup UNION {SuccSet(graph, c) : c \in Levels[n]}
      BY <1>6, <3>1
    <3> QED
      BY <1>3, <2>2, <3>1, <3>2
  <2>3. Nat \subseteq A
    <3> HIDE DEF A
    <3> QED
      BY <2>1, <2>2, SetInduction
  <2>4. DOMAIN Levels = Nat /\ DOMAIN f = Nat /\ Levels = [n \in Nat |-> Levels[n]]
    BY <1>3, <1>6
  <2>5. f = [n \in Nat |-> f[n]]
    BY <1>3
  <2>6. Levels = f
    BY <2>3, <2>4, <2>5
  <2> QED
    BY <1>3, <2>6 DEF IsLevels
<1>8. IsIteration(Ids, {Start}, step, Levels)
  BY <1>1, <1>7 DEF IsIteration, IsLevels
<1> DEFINE Q == Levels[Cardinality(Ids)]
<1>9. IsLeastFixpoint(Ids, {Start}, step, Q)
  BY <1>8, FiniteIds, Iterates
<1>10. Reachable(graph) \subseteq Q
  <2>1. Q \in SUBSET Ids /\ {Start} \subseteq Q /\ step[Q] = Q
    BY <1>9 DEF IsLeastFixpoint
  <2>2. \A c \in Q : SuccSet(graph, c) \subseteq Q
    BY <2>1
  <2> QED
    BY <1>t, <2>1, <2>2, ReachableFacts
<1>11. ASSUME NEW b \in Reachable(graph)
       PROVE  /\ Distance(b) \in Nat /\ b \in Levels[Distance(b)]
              /\ \A m \in 0 .. Distance(b) - 1 : b \notin Levels[m]
  <2> DEFINE T == {n \in 0 .. Cardinality(Ids) : b \in Levels[n]}
  <2>1. Cardinality(Ids) \in Nat
    BY FiniteIds, FS_CardinalityType
  <2>2. T \subseteq Nat /\ T # {}
    BY <1>10, <2>1
  <2>3. \E n \in T : \A y \in T : n <= y
    <3> HIDE DEF T
    <3> QED
      BY <2>2, Least
  <2>4. PICK n \in T : \A y \in T : n <= y
    BY <2>3
  <2>5. ASSUME NEW m \in 0 .. n - 1 PROVE b \notin Levels[m]
    <3>1. m \in 0 .. Cardinality(Ids) /\ ~(n <= m)
      BY <2>1
    <3> QED
      BY <2>4, <3>1
  <2>6. \E k \in 0 .. Cardinality(Ids) : b \in Levels[k] /\ \A m \in 0 .. k - 1 : b \notin Levels[m]
    BY <2>5
  <2>7. /\ Distance(b) \in 0 .. Cardinality(Ids) /\ b \in Levels[Distance(b)]
        /\ \A m \in 0 .. Distance(b) - 1 : b \notin Levels[m]
    BY <1>d, <2>6, Zenon
  <2> QED
    BY <2>1, <2>7
<1> QED
  BY <1>7, <1>11

\* The list and then the queue go from level to level. Before the first in the
\* queue is looked at, all of its level is marked, and there is nothing in the
\* queue that is more than one level on.
ByLevel(R) ==
  /\ \A n \in Nat : \A j, k \in 1 .. Len(blocks) : j < k /\ blocks[k] \in R[n] => blocks[j] \in R[n]
  /\ \A n \in Nat : \A j, k \in 1 .. Len(queue) : j < k /\ queue[k] \in R[n] => queue[j] \in R[n]
  /\ \A n \in Nat : \A b \in ToSet(blocks), c \in ToSet(queue) : c \in R[n] => b \in R[n]

LevelsMarked(R) ==
  queue # <<>> => \A n \in Nat : /\ (Head(queue) \notin R[n] => R[n + 1] \subseteq visited)
                                 /\ (Head(queue) \in R[n] => visited \subseteq R[n + 1])

BFSInv ==
  pass = "BFS" => \A R : IsLevels(graph, R) => ByLevel(R) /\ LevelsMarked(R)

\* BFSInv holds at first, and each turn of the loop keeps it.
LEMMA InitBFSInv == Init => BFSInv
<1> SUFFICES ASSUME Init, pass = "BFS", NEW R, IsLevels(graph, R) PROVE ByLevel(R) /\ LevelsMarked(R)
  BY DEF BFSInv
<1>1. /\ visited = {Start} /\ queue = <<Start>> /\ blocks = <<>> /\ Len(blocks) = 0 /\ Len(queue) = 1
      /\ ToSet(blocks) = {} /\ Head(queue) = Start
  BY DEF Init, ListedAtEntry, ToSet
<1>2. \A j, k \in 1 .. 1 : ~(j < k)
  OBVIOUS
<1>3. ByLevel(R)
  BY <1>1, <1>2 DEF ByLevel
<1>4. \A n \in Nat : Start \in R[n] /\ R[n] \subseteq R[n + 1]
  <2> DEFINE A == {n \in Nat : Start \in R[n]}
  <2>1. 0 \in A /\ \A n \in Nat : n \in A => n + 1 \in A
    BY DEF IsLevels
  <2>2. Nat \subseteq A
    <3> HIDE DEF A
    <3> QED
      BY <2>1, SetInduction
  <2> QED
    BY <2>2 DEF IsLevels
<1> QED
  BY <1>1, <1>3, <1>4 DEF LevelsMarked

LEMMA DequeueBFSInv == ASSUME ListInv, BFSInv, Dequeue PROVE BFSInv'
<1> DEFINE h == Head(queue)
           rest == Tail(queue)
           new == SuccessorsBut(graph, Head(queue), visited \cup {None})
<1>t. TypeOK /\ MarkedReachable /\ ListedOnce /\ SuccessorsMarked
  BY DEF ListInv
<1>i. ListInv'
  BY DequeueListInv
<1>1. /\ queue # <<>> /\ h \in Ids /\ pass = "BFS"
      /\ new \in Seq(Ids) /\ ToSet(new) = SuccSet(graph, h) \ visited
      /\ queue' = rest \o new /\ visited' = visited \cup ToSet(new)
      /\ blocks' = Append(blocks, h)
      /\ graph' = graph /\ pass' = pass
  BY <1>t, DequeueFacts
<1>2. /\ queue \in Seq(Ids) /\ blocks \in Seq(Ids) /\ ToSet(blocks) \cup ToSet(queue) = visited
      /\ Start \in visited /\ graph \in Graphs
  BY <1>t, <1>1, GraphFacts DEF TypeOK, ListedOnce, Unlisted, MarkedReachable
<1>3. /\ h = queue[1] /\ rest \in Seq(Ids) /\ Len(rest) = Len(queue) - 1 /\ Len(queue) \in Nat \ {0}
      /\ \A k \in 1 .. Len(queue) - 1 : rest[k] = queue[k + 1]
      /\ ToSet(queue) = {h} \cup ToSet(rest)
  BY <1>1, <1>2, HeadTailFacts
<1> HIDE DEF h, rest, new
<1>4. /\ queue' \in Seq(Ids) /\ Len(queue') = Len(rest) + Len(new)
      /\ \A k \in 1 .. Len(rest) : queue'[k] = rest[k]
      /\ \A k \in 1 .. Len(new) : queue'[Len(rest) + k] = new[k]
      /\ ToSet(queue') = ToSet(rest) \cup ToSet(new)
  <2> DEFINE both == rest \o new
  <2>1. /\ both \in Seq(Ids) /\ Len(both) = Len(rest) + Len(new)
        /\ \A k \in 1 .. Len(rest) : both[k] = rest[k]
        /\ \A k \in 1 .. Len(new) : both[Len(rest) + k] = new[k]
        /\ ToSet(both) = ToSet(rest) \cup ToSet(new)
    <3>1. rest \in Seq(Ids) /\ new \in Seq(Ids)
      BY <1>1, <1>3
    <3> QED
      BY <3>1, ConcatFacts
  <2>2. queue' = both
    BY <1>1
  <2> HIDE DEF both
  <2> QED
    BY <2>1, <2>2
<1>5. /\ Len(blocks') = Len(blocks) + 1 /\ blocks'[Len(blocks) + 1] = h
      /\ \A k \in 1 .. Len(blocks) : blocks'[k] = blocks[k]
      /\ ToSet(blocks') = ToSet(blocks) \cup {h}
  BY <1>1, <1>2, AppendFacts
<1>6. /\ Len(blocks) \in Nat /\ Len(new) \in Nat /\ Len(rest) \in Nat
      /\ ToSet(new) = {new[k] : k \in 1 .. Len(new)} /\ ToSet(rest) = {rest[k] : k \in 1 .. Len(rest)}
      /\ ToSet(blocks) = {blocks[k] : k \in 1 .. Len(blocks)}
      /\ ToSet(queue) = {queue[k] : k \in 1 .. Len(queue)}
  BY <1>1, <1>2, <1>3, ToSetFacts
<1> SUFFICES ASSUME NEW R, IsLevels(graph, R) PROVE ByLevel(R)' /\ LevelsMarked(R)'
  BY <1>1 DEF BFSInv
<1>7. /\ R \in [Nat -> SUBSET Ids] /\ R[0] = {Start}
      /\ \A n \in Nat : R[n + 1] = R[n] \cup UNION {SuccSet(graph, c) : c \in R[n]}
  BY DEF IsLevels
<1>8. ByLevel(R) /\ \A n \in Nat : /\ (h \notin R[n] => R[n + 1] \subseteq visited)
                                  /\ (h \in R[n] => visited \subseteq R[n + 1])
  BY <1>1 DEF BFSInv, LevelsMarked, h
<1>m. ASSUME NEW n \in Nat, h \notin R[n] PROVE R[n + 1] \subseteq visited
  BY <1>8, <1>m
<1>w. visited \subseteq visited'
  BY <1>1
<1>9. ASSUME NEW n \in Nat, h \in R[n] PROVE visited' \subseteq R[n + 1]
  <2>1. SuccSet(graph, h) \subseteq R[n + 1]
    BY <1>7, <1>9
  <2> QED
    BY <1>1, <1>8, <1>9, <2>1
<1>10. ASSUME NEW n \in Nat, NEW c \in ToSet(new), c \in R[n] PROVE visited' \subseteq R[n]
  <2>1. c \notin visited
    BY <1>1
  <2>2. n # 0
    BY <1>2, <1>7, <1>10, <2>1
  <2>3. n - 1 \in Nat /\ (n - 1) + 1 = n
    BY <2>2
  <2> DEFINE m == n - 1
  <2> HIDE DEF m
  <2>4. m \in Nat /\ m + 1 = n
    BY <2>3 DEF m
  <2>5. h \in R[m]
    <3> SUFFICES ASSUME h \notin R[m] PROVE FALSE
      OBVIOUS
    <3>1. R[m + 1] \subseteq visited
      BY <1>m, <2>4
    <3> QED
      BY <1>10, <2>1, <2>4, <3>1
  <2> QED
    BY <1>9, <2>4, <2>5
<1>v. /\ ToSet(blocks') \subseteq visited' /\ ToSet(queue') \subseteq visited'
      /\ ToSet(blocks') \cup ToSet(queue') = visited' /\ h \in visited
  BY <1>1, <1>2, <1>3, <1>4, <1>5
<1>11. ASSUME NEW n \in Nat, NEW j \in 1 .. Len(blocks'), NEW k \in 1 .. Len(blocks'), j < k, blocks'[k] \in R[n]
       PROVE  blocks'[j] \in R[n]
  <2>1. j \in 1 .. Len(blocks) /\ blocks'[j] = blocks[j]
    BY <1>5, <1>6, <1>11
  <2>2. CASE k \in 1 .. Len(blocks)
    BY <1>5, <1>8, <1>11, <2>1, <2>2 DEF ByLevel
  <2>3. CASE k = Len(blocks) + 1
    <3>1. h \in ToSet(queue) /\ blocks[j] \in ToSet(blocks) /\ h \in R[n]
      BY <1>3, <1>5, <1>6, <1>11, <2>1, <2>3
    <3> QED
      BY <1>8, <2>1, <3>1 DEF ByLevel
  <2> QED
    BY <1>5, <1>6, <2>2, <2>3
<1>12. ASSUME NEW n \in Nat, NEW j \in 1 .. Len(queue'), NEW k \in 1 .. Len(queue'), j < k, queue'[k] \in R[n]
       PROVE  queue'[j] \in R[n]
  <2>1. CASE k \in 1 .. Len(rest)
    <3>1. /\ j \in 1 .. Len(rest) /\ j + 1 \in 1 .. Len(queue) /\ k + 1 \in 1 .. Len(queue) /\ j + 1 < k + 1
          /\ j \in 1 .. Len(queue) - 1 /\ k \in 1 .. Len(queue) - 1
      BY <1>3, <1>12, <2>1
    <3>2. queue'[j] = queue[j + 1] /\ queue'[k] = queue[k + 1]
      BY <1>3, <1>4, <2>1, <3>1
    <3> QED
      BY <1>8, <1>12, <3>1, <3>2 DEF ByLevel
  <2>2. CASE k \notin 1 .. Len(rest)
    <3>1. PICK i \in 1 .. Len(new) : k = Len(rest) + i
      <4>1. k - Len(rest) \in 1 .. Len(new) /\ k = Len(rest) + (k - Len(rest))
        BY <1>4, <1>6, <2>2
      <4> QED
        BY <4>1
    <3>2. queue'[k] = new[i] /\ new[i] \in ToSet(new)
      BY <1>4, <1>6, <3>1
    <3>3. visited' \subseteq R[n]
      BY <1>10, <1>12, <3>2
    <3>4. queue'[j] \in ToSet(queue')
      BY <1>4, ToSetFacts
    <3> QED
      BY <1>v, <3>3, <3>4
  <2> QED
    BY <2>1, <2>2
<1>13. ASSUME NEW n \in Nat, NEW b \in ToSet(blocks'), NEW c \in ToSet(queue'), c \in R[n]
       PROVE  b \in R[n]
  <2>1. CASE c \in ToSet(new)
    BY <1>10, <1>13, <1>v, <2>1
  <2>2. CASE c \in ToSet(rest)
    <3>1. PICK k \in 1 .. Len(rest) : c = rest[k]
      BY <1>6, <2>2
    <3>2. k + 1 \in 1 .. Len(queue) /\ queue[k + 1] = c /\ 1 \in 1 .. Len(queue) /\ 1 < k + 1
      BY <1>3, <3>1
    <3>3. h \in R[n]
      BY <1>3, <1>8, <1>13, <3>2 DEF ByLevel
    <3>4. c \in ToSet(queue)
      BY <1>3, <2>2
    <3> QED
      BY <1>5, <1>8, <1>13, <3>3, <3>4 DEF ByLevel
  <2> QED
    BY <1>4, <2>1, <2>2
<1>14. ByLevel(R)'
  BY <1>11, <1>12, <1>13 DEF ByLevel
<1>15. LevelsMarked(R)'
  <2> SUFFICES ASSUME queue' # <<>>, NEW n \in Nat
               PROVE  /\ (Head(queue') \notin R[n] => R[n + 1] \subseteq visited')
                      /\ (Head(queue') \in R[n] => visited' \subseteq R[n + 1])
    BY DEF LevelsMarked
  <2> DEFINE h1 == Head(queue')
  <2>1. /\ h1 = queue'[1] /\ h1 \in ToSet(queue') /\ Len(queue') \in Nat \ {0}
        /\ ToSet(queue') = {queue'[k] : k \in 1 .. Len(queue')}
    <3> DEFINE q == queue'
    <3>1. q \in Seq(Ids) /\ q # <<>>
      BY <1>4
    <3> HIDE DEF q
    <3>2. /\ Head(q) = q[1] /\ Len(q) \in Nat \ {0} /\ ToSet(q) = {Head(q)} \cup ToSet(Tail(q))
          /\ ToSet(q) = {q[k] : k \in 1 .. Len(q)}
      BY <3>1, HeadTailFacts, ToSetFacts
    <3>3. Head(q) \in ToSet(q)
      BY <3>2
    <3> QED
      BY <3>2, <3>3 DEF q
  <2> HIDE DEF h1
  <2>2. ASSUME h1 \in R[n] PROVE visited' \subseteq R[n + 1]
    <3>1. h \in R[n]
      BY <1>5, <1>13, <2>1, <2>2
    <3> QED
      BY <1>9, <3>1
  <2>3. ASSUME h1 \notin R[n] PROVE R[n + 1] \subseteq visited'
    <3>1. ASSUME h \in R[n] PROVE R[n + 1] \subseteq visited'
      <4>1. R[n] \subseteq visited'
        <5>1. CASE n = 0
          BY <1>1, <1>2, <1>7, <5>1
        <5>2. CASE n # 0
          <6> DEFINE m == n - 1
          <6>1. m \in Nat /\ m + 1 = n
            BY <5>2
          <6> HIDE DEF m
          <6>2. h \notin R[m]
            BY <1>9, <1>v, <2>1, <2>3, <6>1
          <6> QED
            <7>1. R[m + 1] \subseteq visited
              BY <1>m, <6>1, <6>2
            <7> QED
              BY <1>w, <6>1, <7>1
        <5> QED
          BY <5>1, <5>2
      <4>2. \A c \in ToSet(queue') : c \notin R[n]
        <5> SUFFICES ASSUME NEW k \in 1 .. Len(queue'), queue'[k] \in R[n] PROVE FALSE
          BY <2>1
        <5>1. 1 \in 1 .. Len(queue') /\ (k = 1 \/ 1 < k)
          BY <2>1
        <5> QED
          BY <1>12, <2>1, <2>3, <5>1
      <4>3. R[n] \subseteq ToSet(blocks')
        BY <1>v, <4>1, <4>2
      <4>4. \A b \in ToSet(blocks') : SuccSet(graph, b) \subseteq visited'
        <5>1. SuccessorsMarked'
          BY <1>i DEF ListInv
        <5> QED
          BY <1>1, <5>1 DEF SuccessorsMarked
      <4> QED
        BY <1>7, <4>1, <4>3, <4>4
    <3>2. ASSUME h \notin R[n] PROVE R[n + 1] \subseteq visited'
      <4>1. R[n + 1] \subseteq visited
        BY <1>m, <3>2
      <4> QED
        BY <1>w, <4>1
    <3> QED
      BY <3>1, <3>2
  <2> QED
    BY <2>2, <2>3 DEF h1
<1> QED
  BY <1>14, <1>15

LEMMA StepBFSInv == ListInv /\ BFSInv /\ [Next]_vars => BFSInv'
<1> SUFFICES ASSUME ListInv, BFSInv, [Next]_vars PROVE BFSInv'
  OBVIOUS
<1>1. CASE UNCHANGED vars
  BY <1>1 DEF vars, BFSInv, ByLevel, LevelsMarked
<1>2. CASE Descend \/ Skip \/ Return
  <2>1. pass' # "BFS"
    <3>1. stack # <<>> /\ pass' = pass
      BY <1>2 DEF Descend, Skip, Return
    <3> QED
      BY <3>1 DEF ListInv, TypeOK
  <2> QED
    BY <2>1 DEF BFSInv
<1> QED
  BY <1>1, <1>2, DequeueBFSInv DEF Next

\* What BFSInv says of a pass that has ended.
LEMMA LevelsOrder == ListInv /\ BFSInv => ListedByDistance
<1> SUFFICES ASSUME ListInv, BFSInv, Done, pass = "BFS",
                    NEW j \in DOMAIN blocks, NEW k \in DOMAIN blocks, j < k
             PROVE  Distance(blocks[j]) <= Distance(blocks[k])
  BY DEF ListedByDistance
<1>1. TypeOK /\ ToSet(blocks) = Reachable(graph) /\ blocks \in Seq(Ids)
  BY ListedAtEnd DEF ListInv, TypeOK
<1>2. PICK R : /\ IsLevels(graph, R)
               /\ \A b \in Reachable(graph) : /\ Distance(b) \in Nat /\ b \in R[Distance(b)]
                                             /\ \A m \in 0 .. Distance(b) - 1 : b \notin R[m]
  BY <1>1, DistanceFacts
<1>3. /\ j \in 1 .. Len(blocks) /\ k \in 1 .. Len(blocks)
      /\ blocks[j] \in Reachable(graph) /\ blocks[k] \in Reachable(graph)
  BY <1>1, ToSetFacts
<1> DEFINE dj == Distance(blocks[j])
           dk == Distance(blocks[k])
<1>4. /\ dj \in Nat /\ dk \in Nat /\ blocks[k] \in R[dk]
      /\ \A m \in 0 .. dj - 1 : blocks[j] \notin R[m]
  BY <1>2, <1>3
<1> HIDE DEF dj, dk
<1>5. blocks[j] \in R[dk]
  BY <1>2, <1>3, <1>4 DEF BFSInv, ByLevel
<1>6. dj <= dk
  BY <1>4, <1>5
<1> QED
  BY <1>6 DEF dj, dk

\* BFS lists no block before one that takes fewer edges to reach.
THEOREM BFSListsByDistance == Spec => []ListedByDistance
<1>1. ListInv /\ BFSInv => ListedByDistance
  BY LevelsOrder
<1> QED
  BY <1>1, InitBFSInv, StepBFSInv, SpecListInv, PTL DEF Spec

-----------------------------------------------------------------------------
\* Functions defined by recursion along a rank.

\* up leads from each x to one of lower rank, but for those where it stops.
Descends(X, S, rank, m, stop, up, base, step) ==
  /\ rank \in [X -> Nat] /\ m \in Nat /\ \A x \in X : rank[x] <= m
  /\ \A x \in X : x \notin stop => up[x] \in X /\ rank[up[x]] < rank[x]
  /\ base \in [X -> S] /\ step \in [X -> [S -> S]]

Solves(X, stop, up, base, step, F) ==
  \A x \in X : F[x] = IF x \in stop THEN base[x] ELSE step[x][F[up[x]]]

\* There is a function that solves the recursion.
LEMMA RankedRecursion ==
  ASSUME NEW X, NEW S, NEW rank, NEW m, NEW stop, NEW up, NEW base, NEW step,
         Descends(X, S, rank, m, stop, up, base, step)
  PROVE  \E F \in [X -> S] : Solves(X, stop, up, base, step, F)
<1> USE DEF Descends
<1> DEFINE Eq(F, x) == F[x] = IF x \in stop THEN base[x] ELSE step[x][F[up[x]]]
           Good == {n \in Nat : \E F \in [X -> S] : \A x \in X : rank[x] < n => Eq(F, x)}
<1>1. 0 \in Good
  <2>1. base \in [X -> S] /\ \A x \in X : ~(rank[x] < 0)
    OBVIOUS
  <2> QED
    BY <2>1, Zenon
<1>2. ASSUME NEW n \in Nat, n \in Good PROVE n + 1 \in Good
  <2>1. PICK F \in [X -> S] : \A x \in X : rank[x] < n => Eq(F, x)
    BY <1>2
  <2> DEFINE G == [x \in X |-> IF rank[x] = n
                              THEN IF x \in stop THEN base[x] ELSE step[x][F[up[x]]]
                              ELSE F[x]]
  <2>2. G \in [X -> S]
    OBVIOUS
  <2>3. ASSUME NEW x \in X, rank[x] < n + 1 PROVE Eq(G, x)
    <3>1. CASE x \in stop
      <4>1. G[x] = IF rank[x] = n THEN base[x] ELSE F[x]
        BY <3>1
      <4>2. rank[x] # n => F[x] = base[x]
        <5>1. rank[x] \in Nat
          OBVIOUS
        <5>2. rank[x] # n => rank[x] < n
          BY <2>3, <5>1
        <5> QED
          BY <2>1, <3>1, <5>2, Zenon
      <4>3. G[x] = base[x]
        BY <4>1, <4>2
      <4> HIDE DEF G
      <4> QED
        BY <3>1, <4>3
    <3>2. CASE x \notin stop
      <4>1. up[x] \in X /\ rank[up[x]] < rank[x] /\ rank[up[x]] \in Nat /\ rank[x] \in Nat
        BY <3>2
      <4>2. G[up[x]] = F[up[x]]
        BY <2>3, <4>1
      <4>3. G[x] = IF rank[x] = n THEN step[x][F[up[x]]] ELSE F[x]
        BY <3>2
      <4>4. rank[x] # n => F[x] = step[x][F[up[x]]]
        BY <2>1, <2>3, <3>2, <4>1
      <4> HIDE DEF G
      <4> QED
        BY <3>2, <4>2, <4>3, <4>4
    <3> QED
      BY <3>1, <3>2
  <2> HIDE DEF G, Eq
  <2>4. \E F2 \in [X -> S] : \A x \in X : rank[x] < n + 1 => Eq(F2, x)
    BY <2>2, <2>3
  <2> QED
    BY <2>4
<1>3. m + 1 \in Good
  <2> HIDE DEF Good
  <2>1. Nat \subseteq Good
    BY <1>1, <1>2, SetInduction
  <2> QED
    BY <2>1
<1>4. PICK F \in [X -> S] : \A x \in X : rank[x] < m + 1 => Eq(F, x)
  BY <1>3
<1>5. \A x \in X : Eq(F, x)
  BY <1>4
<1> QED
  BY <1>5 DEF Solves

-----------------------------------------------------------------------------
\* The forest that Link builds.

Linked(g, l, k) == {x \in Reachable(g) : k < Idx(l, x)}

Forests == [ancestor : [Ids -> Ids \cup {None}], label : [Ids -> Ids \cup {None}]]

\* The way from a down to x is linked, and u is one on it with the earliest s.
IsBest(l, p, k, s, a, x, u) ==
  /\ Anc(p, a, x) /\ a # x /\ OnWay(p, a, x, u)
  /\ \A v : OnWay(p, a, x, v) => k < Idx(l, v) /\ Idx(l, s[u]) <= Idx(l, s[v])

\* The blocks numbered higher than k hang from blocks above them, the others are
\* roots.
IsForest(g, l, p, k, s, f) ==
  /\ f \in Forests
  /\ \A x \in Ids : x \notin Linked(g, l, k) => f.ancestor[x] = None
  /\ \A x \in Reachable(g) : Idx(l, x) <= k => f.label[x] = x
  /\ \A x \in Linked(g, l, k) : IsBest(l, p, k, s, f.ancestor[x], x, f.label[x])

SemiType(g, s) == s \in [Ids -> Ids \cup {None}] /\ \A x \in Reachable(g) : s[x] \in Reachable(g)

\* Where the blocks of IsBest are.
LEMMA BestFacts ==
  ASSUME NEW g \in Graphs, NEW l, NEW p, IsDfsTree(g, l, p), NEW s, SemiType(g, s), NEW k \in Nat,
         NEW x \in Reachable(g), NEW a, NEW u, IsBest(l, p, k, s, a, x, u)
  PROVE  /\ a \in Reachable(g) /\ Idx(l, a) < Idx(l, x) /\ u \in Linked(g, l, k) /\ x \in Linked(g, l, k)
         /\ s[u] \in Reachable(g) /\ Idx(l, s[u]) \in Nat /\ a \in Ids /\ u \in Ids
<1>1. a \in Reachable(g) /\ Idx(l, a) < Idx(l, x) /\ OnWay(p, a, x, u) /\ a # x
  BY AncBefore DEF IsBest
<1>2. u \in Reachable(g) /\ k < Idx(l, u)
  BY <1>1, AncBefore DEF IsBest, OnWay
<1>3. x \in Ids /\ OnWay(p, a, x, x)
  <2>1. p \in [Ids -> Ids \cup {None}] /\ x \in Ids
    BY IdxFacts DEF IsDfsTree
  <2> QED
    BY <1>1, <2>1, AncFacts DEF OnWay, IsBest
<1>4. k < Idx(l, x)
  BY <1>3 DEF IsBest
<1>5. s[u] \in Reachable(g)
  BY <1>2 DEF SemiType
<1> QED
  BY <1>1, <1>2, <1>4, <1>5, IdxFacts DEF Linked

\* The best on two ways, one after the other, is the better of the best on each.
LEMMA BestJoins ==
  ASSUME NEW g \in Graphs, NEW l, NEW p, IsDfsTree(g, l, p), NEW s, SemiType(g, s), NEW k \in Nat,
         NEW x \in Reachable(g), NEW a, NEW u, IsBest(l, p, k, s, a, x, u),
         NEW b, NEW t, IsBest(l, p, k, s, b, a, t)
  PROVE  IsBest(l, p, k, s, b, x, IF Idx(l, s[t]) < Idx(l, s[u]) THEN t ELSE u)
<1>1. /\ a \in Reachable(g) /\ a \in Ids /\ Idx(l, a) < Idx(l, x) /\ u \in Ids
      /\ s[u] \in Reachable(g) /\ Idx(l, s[u]) \in Nat
  BY BestFacts
<1>2. /\ b \in Reachable(g) /\ b \in Ids /\ Idx(l, b) < Idx(l, a) /\ t \in Ids
      /\ s[t] \in Reachable(g) /\ Idx(l, s[t]) \in Nat
  BY <1>1, BestFacts
<1>3. p \in [Ids -> Ids \cup {None}] /\ x \in Ids /\ Idx(l, b) \in Nat /\ Idx(l, a) \in Nat /\ Idx(l, x) \in Nat
  <2>1. p \in [Ids -> Ids \cup {None}]
    BY DEF IsDfsTree
  <2> QED
    BY <1>1, <1>2, <2>1, IdxFacts
<1>4. Anc(p, a, x) /\ Anc(p, b, a) /\ OnWay(p, a, x, u) /\ OnWay(p, b, a, t)
  BY DEF IsBest
<1>5. Anc(p, b, x) /\ b # x
  BY <1>1, <1>2, <1>3, <1>4, AncFacts
<1>6. ASSUME NEW v, OnWay(p, b, x, v) PROVE OnWay(p, a, x, v) \/ OnWay(p, b, a, v)
  <2>1. v \in Ids /\ v \in Reachable(g) /\ Anc(p, b, v) /\ v # b /\ Anc(p, v, x) /\ Idx(l, v) <= Idx(l, x)
        /\ Idx(l, v) \in Nat
    BY <1>6, AncBefore, IdxFacts DEF OnWay
  <2>2. CASE Idx(l, v) <= Idx(l, a)
    <3>1. Anc(p, v, a)
      BY <1>1, <1>3, <2>1, <2>2, AncBetween
    <3> QED
      BY <2>1, <3>1 DEF OnWay
  <2>3. CASE Idx(l, a) < Idx(l, v)
    <3>1. Anc(p, a, v)
      BY <1>3, <1>4, <2>1, <2>3, AncBetween
    <3> QED
      BY <1>3, <2>1, <2>3, <3>1 DEF OnWay
  <2> QED
    BY <1>3, <2>1, <2>2, <2>3
<1>7. OnWay(p, b, x, u)
  <2>1. Anc(p, b, u) /\ Anc(p, u, x)
    BY <1>1, <1>2, <1>3, <1>4, AncFacts DEF OnWay
  <2>2. u # b
    <3>1. Idx(l, a) <= Idx(l, u)
      <4>1. u \in Reachable(g)
        BY <2>1, AncBefore
      <4> QED
        BY <1>4, <4>1, AncBefore DEF OnWay
    <3> QED
      BY <1>2, <1>3, <3>1
  <2> QED
    BY <1>1, <2>1, <2>2 DEF OnWay
<1>8. OnWay(p, b, x, t)
  <2>1. Anc(p, t, x) /\ Anc(p, b, t) /\ t # b
    BY <1>1, <1>2, <1>3, <1>4, AncFacts DEF OnWay
  <2> QED
    BY <1>2, <2>1 DEF OnWay
<1>9. ASSUME NEW v, OnWay(p, b, x, v)
      PROVE  k < Idx(l, v) /\ (Idx(l, s[u]) <= Idx(l, s[v]) \/ Idx(l, s[t]) <= Idx(l, s[v]))
             /\ Idx(l, s[v]) \in Nat
  <2>1. v \in Reachable(g)
    BY <1>9, AncBefore DEF OnWay
  <2>2. s[v] \in Reachable(g)
    BY <2>1 DEF SemiType
  <2> QED
    BY <1>6, <1>9, <2>2, IdxFacts DEF IsBest
<1>10. CASE Idx(l, s[t]) < Idx(l, s[u])
  <2>1. \A v : OnWay(p, b, x, v) => k < Idx(l, v) /\ Idx(l, s[t]) <= Idx(l, s[v])
    BY <1>1, <1>2, <1>9, <1>10
  <2> QED
    BY <1>5, <1>8, <1>10, <2>1 DEF IsBest
<1>11. CASE ~(Idx(l, s[t]) < Idx(l, s[u]))
  <2>1. \A v : OnWay(p, b, x, v) => k < Idx(l, v) /\ Idx(l, s[u]) <= Idx(l, s[v])
    BY <1>1, <1>2, <1>9, <1>11
  <2> QED
    BY <1>5, <1>7, <1>11, <2>1 DEF IsBest
<1> QED
  BY <1>10, <1>11

\* dfs_idx is the place of a block in the list of the DFS pass.
LEMMA DfsIdx == \A b : dfs_idx(b) = Idx(blocks, b)
  BY DEF dfs_idx, Position, Idx

\* Compress hangs every block from the root of its tree, the best on the way with it,
\* or leaves it where it is: either way the forest is as it should be.
LEMMA CompressFacts ==
  ASSUME graph \in Graphs, IsDfsTree(graph, blocks, parent), NEW k \in Nat,
         NEW s, SemiType(graph, s), NEW f, IsForest(graph, blocks, parent, k, s, f),
         NEW v \in Linked(graph, blocks, k)
  PROVE  LET c == Compress(f, s, v)
         IN  /\ IsForest(graph, blocks, parent, k, s, c)
             /\ Idx(blocks, c.ancestor[v]) <= k
<1> DEFINE R == Reachable(graph)
           An == f.ancestor
           La == f.label
           NearRoot(x) == An[x] = None \/ An[An[x]] = None
           idx(b) == Idx(blocks, b)
           Good(x, r, u) == IsBest(blocks, parent, k, s, r, x, u)
<1>1. /\ An \in [Ids -> Ids \cup {None}] /\ La \in [Ids -> Ids \cup {None}]
      /\ f = [ancestor |-> An, label |-> La]
      /\ \A x \in Ids : x \notin Linked(graph, blocks, k) => An[x] = None
      /\ \A x \in R : idx(x) <= k => La[x] = x
      /\ \A x \in Linked(graph, blocks, k) : Good(x, An[x], La[x])
  BY DEF IsForest, Forests
<1>2. /\ R \subseteq Ids /\ Len(blocks) \in Nat
      /\ \A x \in R : idx(x) \in 1 .. Len(blocks)
      /\ \A x : x \in Linked(graph, blocks, k) <=> x \in R /\ k < idx(x)
  BY IdxFacts DEF Linked
<1>3. \A x \in Linked(graph, blocks, k) : An[x] \in R /\ An[x] \in Ids /\ idx(An[x]) < idx(x) /\ An[x] # None
  BY <1>1, <1>2, BestFacts, FlowGraphAssumption
<1> DEFINE rank == [x \in Ids |-> IF x \in Linked(graph, blocks, k) THEN idx(x) ELSE 0]
<1>4. /\ rank \in [Ids -> Nat] /\ \A x \in Ids : rank[x] <= Len(blocks)
      /\ \A x \in Ids : An[x] # None => An[x] \in Ids /\ rank[An[x]] < rank[x]
  <2>1. \A x \in Ids : rank[x] \in Nat /\ rank[x] <= Len(blocks)
    BY <1>2
  <2>2. ASSUME NEW x \in Ids, An[x] # None PROVE An[x] \in Ids /\ rank[An[x]] < rank[x]
    <3>1. x \in Linked(graph, blocks, k)
      BY <1>1, <2>2
    <3>2. rank[x] = idx(x) /\ idx(x) \in 1 .. Len(blocks) /\ An[x] \in Ids /\ idx(An[x]) < idx(x)
      BY <1>2, <1>3, <3>1
    <3> QED
      BY <1>2, <3>2
  <2> QED
    BY <2>1, <2>2
<1> DEFINE Above[x \in Ids] == IF f.ancestor[x] = None THEN {} ELSE {x} \cup Above[f.ancestor[x]]
           NR(x) == f.ancestor[x] = None \/ f.ancestor[f.ancestor[x]] = None
           Root[x \in Ids] == IF NR(x) THEN f.ancestor[x] ELSE Root[f.ancestor[x]]
           Best[x \in Ids] == IF NR(x) THEN f.label[x]
                              ELSE BetterLabel(s, f.label[x], Best[f.ancestor[x]])
<1>5. Compress(f, s, v)
      = [ancestor |-> [x \in Ids |-> IF x \in Above[v] THEN Root[x] ELSE f.ancestor[x]],
         label    |-> [x \in Ids |-> IF x \in Above[v] THEN Best[x] ELSE f.label[x]]]
  BY DEF Compress
<1> DEFINE AboveRule(F) == F = [x \in Ids |-> IF f.ancestor[x] = None THEN {} ELSE {x} \cup F[f.ancestor[x]]]
           RootRule(F) == F = [x \in Ids |-> IF NR(x) THEN f.ancestor[x] ELSE F[f.ancestor[x]]]
           BestRule(F) == F = [x \in Ids |-> IF NR(x) THEN f.label[x]
                                             ELSE BetterLabel(s, f.label[x], F[f.ancestor[x]])]
<1>6. AboveRule(Above)
  <2> DEFINE S == SUBSET Ids
             stop == {x \in Ids : An[x] = None}
             base == [x \in Ids |-> {}]
             step == [x \in Ids |-> [T \in S |-> {x} \cup T]]
  <2>1. base \in [Ids -> S] /\ step \in [Ids -> [S -> S]]
    OBVIOUS
  <2>2. \A x \in Ids : x \notin stop => An[x] \in Ids /\ rank[An[x]] < rank[x]
    BY <1>4
  <2>3. PICK F \in [Ids -> S] : \A x \in Ids : F[x] = IF x \in stop THEN base[x] ELSE step[x][F[An[x]]]
    <3>1. Descends(Ids, S, rank, Len(blocks), stop, An, base, step)
      <4> HIDE DEF S, stop, base, step, rank, An
      <4> QED
        BY <1>2, <1>4, <2>1, <2>2 DEF Descends
    <3> HIDE DEF S, stop, base, step, rank, An
    <3>2. \E F \in [Ids -> S] : Solves(Ids, stop, An, base, step, F)
      BY <3>1, RankedRecursion
    <3> QED
      BY <3>2 DEF Solves
  <2>4. \A x \in Ids : F[x] = IF An[x] = None THEN {} ELSE {x} \cup F[An[x]]
    <3> SUFFICES ASSUME NEW x \in Ids PROVE F[x] = IF An[x] = None THEN {} ELSE {x} \cup F[An[x]]
      OBVIOUS
    <3>1. An[x] # None => F[An[x]] \in S
      BY <2>2, <2>3
    <3> HIDE DEF An
    <3> QED
      BY <2>3, <3>1
  <2>5. AboveRule(F)
    BY <2>3, <2>4
  <2>6. Above = CHOOSE F2 : AboveRule(F2)
    OBVIOUS
  <2> HIDE DEF AboveRule, Above
  <2> QED
    BY <2>5, <2>6
<1>7. RootRule(Root)
  <2> DEFINE S == Ids \cup {None}
             stop == {x \in Ids : NearRoot(x)}
             step == [x \in Ids |-> [T \in S |-> T]]
  <2>1. An \in [Ids -> S] /\ step \in [Ids -> [S -> S]]
    BY <1>1
  <2>2. \A x \in Ids : x \notin stop => An[x] \in Ids /\ rank[An[x]] < rank[x]
    BY <1>4
  <2>3. PICK F \in [Ids -> S] : \A x \in Ids : F[x] = IF x \in stop THEN An[x] ELSE step[x][F[An[x]]]
    <3>1. Descends(Ids, S, rank, Len(blocks), stop, An, An, step)
      <4> HIDE DEF S, stop, step, rank, An
      <4> QED
        BY <1>2, <1>4, <2>1, <2>2 DEF Descends
    <3> HIDE DEF S, stop, step, rank, An
    <3>2. \E F \in [Ids -> S] : Solves(Ids, stop, An, An, step, F)
      BY <3>1, RankedRecursion
    <3> QED
      BY <3>2 DEF Solves
  <2>4. \A x \in Ids : F[x] = IF NearRoot(x) THEN An[x] ELSE F[An[x]]
    <3> SUFFICES ASSUME NEW x \in Ids PROVE F[x] = IF NearRoot(x) THEN An[x] ELSE F[An[x]]
      OBVIOUS
    <3>1. x \notin stop => F[An[x]] \in S
      BY <2>2, <2>3
    <3> HIDE DEF An
    <3> QED
      BY <2>3, <3>1
  <2>5. RootRule(F)
    BY <2>3, <2>4
  <2>6. Root = CHOOSE F2 : RootRule(F2)
    OBVIOUS
  <2> HIDE DEF RootRule, Root
  <2> QED
    BY <2>5, <2>6
<1>8. BestRule(Best)
  <2> DEFINE S == Ids \cup {None}
             stop == {x \in Ids : NearRoot(x)}
             step == [x \in Ids |-> [T \in S |-> BetterLabel(s, La[x], T)]]
  <2>1. La \in [Ids -> S] /\ step \in [Ids -> [S -> S]]
    <3>1. \A x \in Ids : \A T \in S : BetterLabel(s, La[x], T) \in S
      BY <1>1 DEF BetterLabel
    <3> HIDE DEF La
    <3> QED
      BY <1>1, <3>1
  <2>2. \A x \in Ids : x \notin stop => An[x] \in Ids /\ rank[An[x]] < rank[x]
    BY <1>4
  <2>3. PICK F \in [Ids -> S] : \A x \in Ids : F[x] = IF x \in stop THEN La[x] ELSE step[x][F[An[x]]]
    <3>1. Descends(Ids, S, rank, Len(blocks), stop, An, La, step)
      <4> HIDE DEF S, stop, step, rank, An, La
      <4> QED
        BY <1>2, <1>4, <2>1, <2>2 DEF Descends
    <3> HIDE DEF S, stop, step, rank, An, La
    <3>2. \E F \in [Ids -> S] : Solves(Ids, stop, An, La, step, F)
      BY <3>1, RankedRecursion
    <3> QED
      BY <3>2 DEF Solves
  <2>4. \A x \in Ids : F[x] = IF NearRoot(x) THEN La[x] ELSE BetterLabel(s, La[x], F[An[x]])
    <3> SUFFICES ASSUME NEW x \in Ids
                 PROVE  F[x] = IF NearRoot(x) THEN La[x] ELSE BetterLabel(s, La[x], F[An[x]])
      OBVIOUS
    <3>1. x \notin stop => F[An[x]] \in S
      BY <2>2, <2>3
    <3> HIDE DEF An, La
    <3> QED
      BY <2>3, <3>1
  <2>5. BestRule(F)
    BY <2>3, <2>4
  <2>6. Best = CHOOSE F2 : BestRule(F2)
    OBVIOUS
  <2> HIDE DEF BestRule, Best
  <2> QED
    BY <2>5, <2>6
<1> HIDE DEF Above, Root, Best
<1>9. v \in Above[v]
  <2>1. v \in Ids /\ An[v] # None
    BY <1>2, <1>3
  <2>2. Above[v] = {v} \cup Above[An[v]]
    BY <1>6, <2>1
  <2> QED
    BY <2>2
<1>10. ASSUME NEW x \in Ids
       PROVE  /\ Root[x] = IF NearRoot(x) THEN An[x] ELSE Root[An[x]]
              /\ Best[x] = IF NearRoot(x) THEN La[x] ELSE BetterLabel(s, La[x], Best[An[x]])
  BY <1>7, <1>8
<1> HIDE DEF AboveRule, RootRule, BestRule, rank
<1> DEFINE OK(x) == Good(x, Root[x], Best[x]) /\ idx(Root[x]) <= k
<1>11. ASSUME NEW x \in Linked(graph, blocks, k), An[x] \in Linked(graph, blocks, k) => OK(An[x]) PROVE OK(x)
  <2>1. /\ x \in R /\ x \in Ids /\ An[x] \in R /\ An[x] \in Ids /\ An[x] # None /\ Good(x, An[x], La[x])
    BY <1>1, <1>2, <1>3
  <2>2. CASE An[x] \notin Linked(graph, blocks, k)
    <3>1. NearRoot(x) /\ idx(An[x]) <= k
      <4>1. ~(k < idx(An[x])) /\ idx(An[x]) \in Nat
        BY <1>2, <2>1, <2>2
      <4> QED
        BY <1>1, <2>1, <2>2, <4>1
    <3>2. Root[x] = An[x] /\ Best[x] = La[x]
      BY <1>10, <2>1, <3>1
    <3> QED
      BY <2>1, <3>1, <3>2
  <2>3. CASE An[x] \in Linked(graph, blocks, k)
    <3>1. ~NearRoot(x)
      BY <1>3, <2>1, <2>3
    <3>2. Root[x] = Root[An[x]] /\ Best[x] = BetterLabel(s, La[x], Best[An[x]])
      BY <1>10, <2>1, <3>1
    <3>3. Best[x] = IF idx(s[Best[An[x]]]) < idx(s[La[x]]) THEN Best[An[x]] ELSE La[x]
      BY <3>2, DfsIdx DEF BetterLabel, SemiIdx
    <3>4. Good(An[x], Root[An[x]], Best[An[x]]) /\ idx(Root[An[x]]) <= k
      BY <1>11, <2>3
    <3> HIDE DEF An, La
    <3>5. Good(x, Root[An[x]], Best[x])
      BY <2>1, <3>3, <3>4, BestJoins
    <3> QED
      BY <3>2, <3>4, <3>5
  <2> QED
    BY <2>2, <2>3
<1>12. \A x \in Linked(graph, blocks, k) : OK(x)
  <2>1. SUFFICES ASSUME \E x \in Linked(graph, blocks, k) : ~OK(x) PROVE FALSE
    OBVIOUS
  <2> DEFINE T == {idx(x) : x \in {y \in Linked(graph, blocks, k) : ~OK(y)}}
  <2> HIDE DEF OK
  <2>2. T \subseteq Nat /\ T # {}
    BY <1>2, <2>1
  <2>3. \E n \in T : \A m \in T : n <= m
    <3> HIDE DEF T
    <3> QED
      BY <2>2, Least
  <2>4. PICK x \in Linked(graph, blocks, k) :
          ~OK(x) /\ \A y \in Linked(graph, blocks, k) : ~OK(y) => idx(x) <= idx(y)
    BY <2>3
  <2>5. An[x] \in Linked(graph, blocks, k) => OK(An[x])
    <3>1. idx(An[x]) < idx(x) /\ An[x] \in R /\ x \in R
      BY <1>2, <1>3
    <3>2. ~(idx(x) <= idx(An[x]))
      BY <1>2, <3>1
    <3> QED
      BY <2>4, <3>2
  <2> QED
    BY <1>11, <2>4, <2>5
<1>13. \A x \in Ids : x \notin Linked(graph, blocks, k) => Root[x] = None /\ Best[x] = La[x]
  BY <1>1, <1>10
<1> DEFINE A2 == [x \in Ids |-> IF x \in Above[v] THEN Root[x] ELSE An[x]]
           L2 == [x \in Ids |-> IF x \in Above[v] THEN Best[x] ELSE La[x]]
           c == Compress(f, s, v)
<1>14. c = [ancestor |-> A2, label |-> L2] /\ c.ancestor = A2 /\ c.label = L2
  BY <1>5
<1>15. ASSUME NEW x \in Linked(graph, blocks, k) PROVE Good(x, A2[x], L2[x])
  BY <1>1, <1>2, <1>12
<1>16. /\ \A x \in Ids : x \notin Linked(graph, blocks, k) => A2[x] = None
       /\ \A x \in R : idx(x) <= k => L2[x] = x
  <2>1. ASSUME NEW x \in Ids, x \notin Linked(graph, blocks, k) PROVE A2[x] = None /\ L2[x] = La[x]
    BY <1>1, <1>13, <2>1
  <2>2. \A x \in R : idx(x) <= k => x \notin Linked(graph, blocks, k) /\ x \in Ids
    BY <1>2
  <2> QED
    BY <1>1, <2>1, <2>2
<1>17. A2 \in [Ids -> Ids \cup {None}] /\ L2 \in [Ids -> Ids \cup {None}]
  <2>1. ASSUME NEW x \in Ids PROVE A2[x] \in Ids \cup {None} /\ L2[x] \in Ids \cup {None}
    <3>1. CASE x \in Linked(graph, blocks, k)
      BY <1>2, <1>15, <3>1, BestFacts
    <3>2. CASE x \notin Linked(graph, blocks, k)
      BY <1>1, <1>13, <1>16, <3>2
    <3> QED
      BY <3>1, <3>2
  <2> QED
    BY <2>1
<1>18. IsForest(graph, blocks, parent, k, s, c)
  <2>1. c \in Forests
    BY <1>14, <1>17 DEF Forests
  <2> HIDE DEF c, A2, L2
  <2> QED
    BY <1>14, <1>15, <1>16, <2>1 DEF IsForest
<1>19. Idx(blocks, c.ancestor[v]) <= k
  BY <1>2, <1>9, <1>12, <1>14
<1> QED
  BY <1>18, <1>19

\* The node that Eval answers with: v when it is a root; otherwise, of all blocks
\* above v that are linked, and v, one with the earliest s.
LEMMA EvalFacts ==
  ASSUME graph \in Graphs, IsDfsTree(graph, blocks, parent), NEW k \in Nat,
         NEW s, SemiType(graph, s), NEW f, IsForest(graph, blocks, parent, k, s, f),
         NEW v \in Reachable(graph)
  PROVE  LET e == Eval(f, s, v)
         IN  /\ IsForest(graph, blocks, parent, k, s, e.forest)
             /\ e.node \in Reachable(graph)
             /\ Idx(blocks, v) <= k => e.node = v
             /\ k < Idx(blocks, v) =>
                  /\ k < Idx(blocks, e.node) /\ Anc(parent, e.node, v)
                  /\ \A u \in Ids : Anc(parent, u, v) /\ k < Idx(blocks, u)
                                    => Idx(blocks, s[e.node]) <= Idx(blocks, s[u])
             /\ e = [node |-> e.node, forest |-> e.forest]
<1>1. v \in Ids /\ Idx(blocks, v) \in Nat
  BY IdxFacts
<1>2. CASE Idx(blocks, v) <= k
  <2>1. v \notin Linked(graph, blocks, k)
    BY <1>1, <1>2 DEF Linked
  <2>2. f.ancestor[v] = None
    BY <1>1, <2>1 DEF IsForest
  <2>3. Eval(f, s, v) = [node |-> v, forest |-> f]
    BY <2>2 DEF Eval
  <2> QED
    BY <1>1, <1>2, <2>3
<1>3. CASE k < Idx(blocks, v)
  <2>1. v \in Linked(graph, blocks, k)
    BY <1>3 DEF Linked
  <2>2. f.ancestor[v] # None
    <3>1. IsBest(blocks, parent, k, s, f.ancestor[v], v, f.label[v])
      BY <2>1 DEF IsForest
    <3> QED
      BY <3>1, BestFacts, FlowGraphAssumption
  <2> DEFINE c == Compress(f, s, v)
             r == c.ancestor[v]
             e == Eval(f, s, v)
  <2>3. e = [node |-> c.label[v], forest |-> c]
    BY <2>2 DEF Eval
  <2>4. e.node = c.label[v] /\ e.forest = c /\ e = [node |-> e.node, forest |-> e.forest]
    BY <2>3
  <2>5. IsForest(graph, blocks, parent, k, s, c) /\ Idx(blocks, r) <= k
    BY <2>1, CompressFacts
  <2>6. IsBest(blocks, parent, k, s, r, v, e.node)
    BY <2>1, <2>4, <2>5 DEF IsForest
  <2> HIDE DEF c, r, e
  <2>7. e.node \in Linked(graph, blocks, k) /\ r \in Reachable(graph) /\ r \in Ids
    BY <2>6, BestFacts
  <2>8. e.node \in Reachable(graph) /\ k < Idx(blocks, e.node) /\ Anc(parent, e.node, v)
    BY <2>6, <2>7 DEF Linked, IsBest, OnWay
  <2>9. ASSUME NEW u \in Ids, Anc(parent, u, v), k < Idx(blocks, u)
        PROVE  Idx(blocks, s[e.node]) <= Idx(blocks, s[u])
    <3>1. u \in Reachable(graph) /\ Idx(blocks, u) <= Idx(blocks, v)
      BY <2>9, AncBefore
    <3>2. Idx(blocks, r) \in Nat /\ Idx(blocks, u) \in Nat
      BY <2>7, <3>1, IdxFacts
    <3>3. Idx(blocks, r) <= Idx(blocks, u) /\ u # r
      BY <2>5, <2>9, <3>2
    <3>4. Anc(parent, r, u)
      <4>1. Anc(parent, r, v)
        BY <2>6 DEF IsBest
      <4> QED
        BY <3>1, <3>3, <4>1, AncBetween
    <3>5. OnWay(parent, r, v, u)
      BY <2>9, <3>3, <3>4 DEF OnWay
    <3> QED
      BY <2>6, <3>5 DEF IsBest
  <2> QED
    BY <1>1, <1>3, <2>4, <2>5, <2>8, <2>9 DEF e
<1> QED
  BY <1>1, <1>2, <1>3

\* A change of s for the roots does not matter.
LEMMA ForestOfRoots ==
  ASSUME NEW g \in Graphs, NEW l, NEW p, IsDfsTree(g, l, p), NEW k \in Nat, NEW s, NEW t, NEW f,
         IsForest(g, l, p, k, s, f), \A x \in Linked(g, l, k) : t[x] = s[x]
  PROVE  IsForest(g, l, p, k, t, f)
<1>1. ASSUME NEW x \in Linked(g, l, k), NEW a, NEW u, IsBest(l, p, k, s, a, x, u)
      PROVE  IsBest(l, p, k, t, a, x, u)
  <2>1. x \in Reachable(g)
    BY DEF Linked
  <2>2. ASSUME NEW v, OnWay(p, a, x, v) PROVE k < Idx(l, v) /\ t[v] = s[v]
    <3>1. v \in Reachable(g) /\ k < Idx(l, v)
      BY <1>1, <2>1, <2>2, AncBefore DEF OnWay, IsBest
    <3> QED
      BY <3>1 DEF Linked
  <2> QED
    BY <1>1, <2>2 DEF IsBest
<1> QED
  BY <1>1 DEF IsForest

\* Link.
LEMMA LinkFacts ==
  ASSUME NEW g \in Graphs, NEW l, NEW p, IsDfsTree(g, l, p), NEW k \in 2 .. Len(l), NEW s, SemiType(g, s),
         NEW f, IsForest(g, l, p, k, s, f)
  PROVE  IsForest(g, l, p, k - 1, s, [f EXCEPT !.ancestor[l[k]] = p[l[k]]])
<1> DEFINE w == l[k]
           h == [f EXCEPT !.ancestor[w] = p[w]]
<1>1. /\ k \in Nat /\ k - 1 \in Nat /\ w \in Reachable(g) /\ w \in Ids /\ Idx(l, w) = k /\ w # Start
      /\ Len(l) \in Nat
  <2>1. k \in 1 .. Len(l) /\ Len(l) \in Nat /\ k # 1
    BY IdxFacts
  <2>2. w \in Reachable(g) /\ Idx(l, w) = k
    BY <2>1, IdxFacts
  <2>3. w # Start
    BY <2>1, <2>2, ParentFacts
  <2> QED
    BY <2>1, <2>2, <2>3, IdxFacts
<1>2. p[w] \in Reachable(g) /\ p[w] \in Ids /\ Idx(l, p[w]) < k /\ p \in [Ids -> Ids \cup {None}]
      /\ Idx(l, p[w]) \in Nat
  <2>1. p \in [Ids -> Ids \cup {None}]
    BY DEF IsDfsTree
  <2>2. p[w] \in Reachable(g) /\ Idx(l, p[w]) < k
    BY <1>1, ParentFacts
  <2> QED
    BY <2>1, <2>2, IdxFacts
<1>3. /\ h \in Forests /\ h.label = f.label /\ h.ancestor = [f.ancestor EXCEPT ![w] = p[w]]
      /\ f.ancestor \in [Ids -> Ids \cup {None}]
  BY <1>1, <1>2 DEF IsForest, Forests
<1> HIDE DEF h
<1>4. \A x \in Reachable(g) : /\ x \in Linked(g, l, k - 1) <=> x \in Linked(g, l, k) \/ x = w
                              /\ x \in Ids /\ Idx(l, x) \in Nat
  <2> SUFFICES ASSUME NEW x \in Reachable(g)
               PROVE  /\ x \in Linked(g, l, k - 1) <=> x \in Linked(g, l, k) \/ x = w
                      /\ x \in Ids /\ Idx(l, x) \in Nat
    OBVIOUS
  <2>1. Idx(l, x) \in Nat /\ (Idx(l, x) = k => x = w) /\ x \in Ids
    BY <1>1, IdxFacts
  <2> QED
    BY <1>1, <2>1 DEF Linked
<1>5. ASSUME NEW x \in Ids, x \notin Linked(g, l, k - 1) PROVE h.ancestor[x] = None
  <2>1. w \in Linked(g, l, k - 1)
    BY <1>1, <1>4
  <2>2. x # w /\ x \notin Linked(g, l, k)
    BY <1>4, <1>5, <2>1 DEF Linked
  <2> QED
    BY <1>3, <2>2 DEF IsForest
<1>6. ASSUME NEW x \in Reachable(g), Idx(l, x) <= k - 1 PROVE h.label[x] = x
  BY <1>1, <1>3, <1>4, <1>6 DEF IsForest
<1>7. ASSUME NEW x \in Linked(g, l, k - 1) PROVE IsBest(l, p, k - 1, s, h.ancestor[x], x, h.label[x])
  <2>1. x \in Reachable(g) /\ x \in Ids
    BY <1>4 DEF Linked
  <2>2. CASE x # w
    <3>1. x \in Linked(g, l, k) /\ h.ancestor[x] = f.ancestor[x]
      BY <1>3, <1>4, <1>7, <2>1, <2>2
    <3>2. IsBest(l, p, k, s, f.ancestor[x], x, f.label[x])
      BY <3>1 DEF IsForest
    <3>3. \A v : OnWay(p, f.ancestor[x], x, v) => k - 1 < Idx(l, v)
      <4> SUFFICES ASSUME NEW v, OnWay(p, f.ancestor[x], x, v) PROVE k - 1 < Idx(l, v)
        OBVIOUS
      <4>1. v \in Reachable(g)
        BY <2>1, AncBefore DEF OnWay
      <4>2. k < Idx(l, v) /\ Idx(l, v) \in Nat
        BY <1>4, <3>2, <4>1 DEF IsBest
      <4> QED
        BY <1>1, <4>2
    <3> QED
      BY <1>3, <3>1, <3>2, <3>3 DEF IsBest
  <2>3. CASE x = w
    <3>1. h.ancestor[w] = p[w] /\ h.label[w] = w
      BY <1>1, <1>2, <1>3 DEF IsForest
    <3>2. Anc(p, p[w], w) /\ p[w] # w /\ Anc(p, w, w)
      <4>1. p[w] # None
        BY <1>2, FlowGraphAssumption
      <4> QED
        BY <1>1, <1>2, <4>1, AncFacts
    <3>3. \A v : OnWay(p, p[w], w, v) => v = w
      <4> SUFFICES ASSUME NEW v, OnWay(p, p[w], w, v), v # w PROVE FALSE
        OBVIOUS
      <4>1. Anc(p, p[w], v) /\ v # p[w] /\ Anc(p, v, w)
        BY DEF OnWay
      <4>2. Anc(p, v, p[w])
        BY <1>1, <1>2, <4>1, AncUp
      <4>3. v \in Reachable(g)
        BY <1>2, <4>2, AncBefore
      <4>4. Idx(l, v) < Idx(l, p[w]) /\ Idx(l, p[w]) < Idx(l, v)
        BY <1>2, <4>1, <4>2, <4>3, AncBefore
      <4> QED
        BY <1>2, <1>4, <4>3, <4>4
    <3>4. OnWay(p, p[w], w, w)
      BY <1>1, <3>2 DEF OnWay
    <3>5. s[w] \in Reachable(g) /\ Idx(l, s[w]) \in Nat
      BY <1>1, <1>4 DEF SemiType
    <3> QED
      BY <1>1, <2>3, <3>1, <3>2, <3>3, <3>4, <3>5 DEF IsBest
  <2> QED
    BY <2>2, <2>3
<1> QED
  BY <1>3, <1>5, <1>6, <1>7 DEF IsForest, h

-----------------------------------------------------------------------------
\* Folds, turn by turn.

\* The greatest of the first n numbers, and of any set of them.
LEMMA MaxFacts ==
  /\ \A n \in Nat \ {0} : Max(1 .. n) = n /\ (1 .. n) \ {n} = 1 .. n - 1
  /\ \A n \in Nat : \A x \in SUBSET (1 .. n) : x # {} => Max(x) \in x
<1>1. ASSUME NEW n \in Nat, NEW x \in SUBSET (1 .. n), x # {} PROVE Max(x) \in x /\ \A y \in x : Max(x) >= y
  <2> DEFINE T == {n - y : y \in x}
  <2>1. T \subseteq Nat /\ T # {}
    <3>1. \A y \in x : n - y \in Nat
      OBVIOUS
    <3> QED
      BY <1>1, <3>1
  <2>2. \E t \in T : \A u \in T : t <= u
    <3> HIDE DEF T
    <3> QED
      BY <2>1, Least
  <2>3. PICK a \in x : \A y \in x : n - a <= n - y
    BY <2>2
  <2>4. a \in x /\ \A y \in x : a >= y
    BY <2>3
  <2> QED
    BY <2>4 DEF Max
<1>2. ASSUME NEW n \in Nat \ {0} PROVE Max(1 .. n) = n /\ (1 .. n) \ {n} = 1 .. n - 1
  <2>1. 1 .. n \in SUBSET (1 .. n) /\ n \in 1 .. n /\ n \in Nat
    OBVIOUS
  <2>3. Max(1 .. n) \in 1 .. n /\ \A y \in 1 .. n : Max(1 .. n) >= y
    BY <1>1, <2>1
  <2>4. Max(1 .. n) = n
    BY <2>1, <2>3
  <2> QED
    BY <2>4
<1> QED
  BY <1>1, <1>2

\* There is a function that a fold is looked up in.
FoldInput(A, base, D, vs, turn) == base \in A /\ vs \in Seq(D) /\ turn \in [A -> [D -> A]]

IsFold(A, base, vs, turn, F) ==
  /\ F \in [SUBSET DOMAIN vs -> A]
  /\ \A x \in SUBSET DOMAIN vs :
       F[x] = IF x = {} THEN base ELSE turn[F[x \ {Max(x)}]][vs[Max(x)]]

\* There is a function that goes through the list turn by turn.
LEMMA FoldExists ==
  ASSUME NEW A, NEW base, NEW D, NEW vs, NEW turn, FoldInput(A, base, D, vs, turn)
  PROVE  \E F : IsFold(A, base, vs, turn, F)
<1> USE DEF FoldInput
<1> DEFINE X == SUBSET DOMAIN vs
           rank == [x \in X |-> Cardinality(x)]
           up == [x \in X |-> x \ {Max(x)}]
           first == [x \in X |-> base]
           step == [x \in X |-> [a \in A |-> IF x = {} THEN base ELSE turn[a][vs[Max(x)]]]]
<1>1. DOMAIN vs = 1 .. Len(vs) /\ Len(vs) \in Nat /\ IsFiniteSet(DOMAIN vs)
  BY FS_Interval
<1>2. \A x \in X : x # {} => Max(x) \in x /\ vs[Max(x)] \in D
  <2>1. \A x \in X : x # {} => Max(x) \in x
    BY <1>1, MaxFacts
  <2>2. \A i \in DOMAIN vs : vs[i] \in D
    BY <1>1
  <2> QED
    BY <2>1, <2>2
<1>3. rank \in [X -> Nat] /\ \A x \in X : rank[x] <= Cardinality(DOMAIN vs)
  <2>1. ASSUME NEW x \in X PROVE rank[x] \in Nat /\ rank[x] <= Cardinality(DOMAIN vs)
    <3> DEFINE Places == DOMAIN vs
    <3>1. IsFiniteSet(x) /\ Cardinality(x) <= Cardinality(Places)
      <4>1. IsFiniteSet(Places) /\ x \in SUBSET Places
        BY <1>1
      <4> HIDE DEF Places
      <4> QED
        BY <4>1, FS_Subset
    <3>2. Cardinality(x) \in Nat
      BY <3>1, FS_CardinalityType
    <3> QED
      BY <3>1, <3>2
  <2> HIDE DEF X
  <2> QED
    BY <2>1
<1>4. \A x \in X : x \notin {{}} => up[x] \in X /\ rank[up[x]] < rank[x]
  <2> SUFFICES ASSUME NEW x \in X, x # {} PROVE up[x] \in X /\ rank[up[x]] < rank[x]
    OBVIOUS
  <2>1. Max(x) \in x /\ up[x] = x \ {Max(x)} /\ up[x] \in X
    BY <1>2
  <2>2. IsFiniteSet(x)
    <3> DEFINE Places == DOMAIN vs
    <3>1. IsFiniteSet(Places) /\ x \in SUBSET Places
      BY <1>1
    <3> HIDE DEF Places
    <3> QED
      BY <3>1, FS_Subset
  <2>3. Cardinality(up[x]) = Cardinality(x) - 1
    BY <2>1, <2>2, FS_RemoveElement
  <2>4. rank[x] \in Nat /\ rank[x] = Cardinality(x) /\ rank[up[x]] = Cardinality(up[x])
    BY <1>3, <2>1
  <2> QED
    BY <2>1, <2>3, <2>4
<1>5. first \in [X -> A] /\ step \in [X -> [A -> A]]
  <2>1. ASSUME NEW x \in X, NEW a \in A PROVE (IF x = {} THEN base ELSE turn[a][vs[Max(x)]]) \in A
    <3>1. turn[a] \in [D -> A]
      OBVIOUS
    <3> QED
      BY <1>2, <3>1
  <2> HIDE DEF X
  <2> QED
    BY <2>1
<1>6. Cardinality(DOMAIN vs) \in Nat
  BY <1>1, FS_CardinalityType
<1>7. Descends(X, A, rank, Cardinality(DOMAIN vs), {{}}, up, first, step)
  <2> HIDE DEF X, rank, up, first, step
  <2> QED
    BY <1>3, <1>4, <1>5, <1>6 DEF Descends
<1>8. \E F \in [X -> A] : Solves(X, {{}}, up, first, step, F)
  <2> HIDE DEF X, rank, up, first, step
  <2> QED
    BY <1>7, RankedRecursion
<1>9. PICK F \in [X -> A] : \A x \in X : F[x] = IF x \in {{}} THEN first[x] ELSE step[x][F[up[x]]]
  BY <1>8 DEF Solves
<1>10. ASSUME NEW x \in X PROVE F[x] = IF x = {} THEN base ELSE turn[F[x \ {Max(x)}]][vs[Max(x)]]
  <2>1. CASE x = {}
    BY <1>9, <2>1
  <2>2. CASE x # {}
    <3>1. up[x] \in X /\ up[x] = x \ {Max(x)}
      BY <1>4, <2>2
    <3>2. F[up[x]] \in A
      BY <1>9, <3>1
    <3>3. F[x] = step[x][F[up[x]]]
      BY <1>9, <2>2
    <3> QED
      BY <2>2, <3>1, <3>2, <3>3
  <2> QED
    BY <2>1, <2>2
<1> QED
  BY <1>9, <1>10 DEF IsFold

-----------------------------------------------------------------------------
\* The first inner loop of ComputeSdoms.

idx(b) == Idx(blocks, b)

\* The blocks numbered higher than k have their semidominators.
SemiSoFar(k, s) ==
  /\ SemiType(graph, s)
  /\ \A x \in Reachable(graph) : IF idx(x) <= k THEN s[x] = x ELSE IsSemi(graph, blocks, s[x], x)

PredTurn(acc, w, v) ==
  LET e == Eval(acc.forest, acc.semi, v) IN
  [forest |-> e.forest,
   semi   |-> IF IsSmaller(acc.semi, e.node, w) THEN [acc.semi EXCEPT ![w] = acc.semi[e.node]] ELSE acc.semi]

\* What the loop has found for w at any time leads to w.
PredAcc(s, w, acc) ==
  /\ acc \in [forest : Forests, semi : [Ids -> Ids \cup {None}]]
  /\ acc.semi = [s EXCEPT ![w] = acc.semi[w]]
  /\ IsForest(graph, blocks, parent, idx(w), s, acc.forest)
  /\ acc.semi[w] = w \/ acc.semi[w] \in Cands(graph, blocks, w)

\* ... and it comes no later than what the predecessor v says.
Heard(s, w, x, v) ==
  IF idx(v) <= idx(w) THEN idx(x) <= idx(v)
  ELSE \A u \in Ids : Anc(parent, u, v) /\ idx(w) < idx(u) => idx(x) <= idx(s[u])

\* A turn keeps the forest, and leaves w with the better of two candidates.
LEMMA PredTurnFacts ==
  ASSUME graph \in Graphs, IsDfsTree(graph, blocks, parent), NEW w \in Reachable(graph),
         NEW s, SemiSoFar(idx(w), s), NEW acc, PredAcc(s, w, acc),
         NEW v \in Reachable(graph), w \in SuccSet(graph, v)
  PROVE  /\ PredAcc(s, w, PredTurn(acc, w, v))
         /\ idx(PredTurn(acc, w, v).semi[w]) <= idx(acc.semi[w])
         /\ Heard(s, w, PredTurn(acc, w, v).semi[w], v)
<1> DEFINE k == idx(w)
           e == Eval(acc.forest, acc.semi, v)
           u == e.node
           x == acc.semi[w]
           new == PredTurn(acc, w, v)
           R == Reachable(graph)
<1>1. /\ k \in Nat /\ w \in Ids /\ v \in Ids /\ idx(v) \in Nat
      /\ \A b \in R : b \in Ids /\ idx(b) \in Nat /\ (idx(b) = k => b = w)
  BY IdxFacts DEF idx
<1>2. x \in R /\ idx(x) <= k
  <2>1. CASE x = w
    BY <1>1, <2>1
  <2>2. CASE x \in Cands(graph, blocks, w)
    <3>1. x \in R /\ idx(x) < idx(w)
      BY <2>2, CandsAbove DEF idx
    <3> QED
      BY <1>1, <3>1
  <2> QED
    BY <2>1, <2>2 DEF PredAcc
<1>3. /\ acc.semi \in [Ids -> Ids \cup {None}] /\ s \in [Ids -> Ids \cup {None}]
      /\ \A y \in Ids : y # w => acc.semi[y] = s[y]
      /\ \A y \in R : s[y] \in R
  BY DEF PredAcc, SemiSoFar, SemiType
<1>4. SemiType(graph, acc.semi)
  BY <1>1, <1>2, <1>3 DEF SemiType
<1>5. IsForest(graph, blocks, parent, k, acc.semi, acc.forest)
  <2>1. \A y \in Linked(graph, blocks, k) : acc.semi[y] = s[y]
    BY <1>1, <1>3 DEF Linked, idx
  <2>2. IsForest(graph, blocks, parent, k, s, acc.forest)
    BY DEF PredAcc
  <2> DEFINE af == acc.forest
             t == acc.semi
  <2> HIDE DEF k, af, t
  <2>3. IsForest(graph, blocks, parent, k, t, af)
    <3>1. IsForest(graph, blocks, parent, k, s, af) /\ \A y \in Linked(graph, blocks, k) : t[y] = s[y]
      BY <2>1, <2>2 DEF af, t
    <3> QED
      BY <1>1, <3>1, ForestOfRoots
  <2> QED
    BY <2>3 DEF af, t
<1>6. /\ IsForest(graph, blocks, parent, k, acc.semi, e.forest)
      /\ u \in R
      /\ idx(v) <= k => u = v
      /\ k < idx(v) =>
           /\ k < idx(u) /\ Anc(parent, u, v)
           /\ \A y \in Ids : Anc(parent, y, v) /\ k < idx(y) => idx(acc.semi[u]) <= idx(acc.semi[y])
  <2> HIDE DEF k
  <2> QED
    BY <1>1, <1>4, <1>5, EvalFacts DEF idx
<1> HIDE DEF e, k, u
<1>7. new = [forest |-> e.forest,
             semi |-> IF idx(acc.semi[u]) < idx(x) THEN [acc.semi EXCEPT ![w] = acc.semi[u]] ELSE acc.semi]
  BY DfsIdx DEF PredTurn, IsSmaller, SemiIdx, idx, e, u
<1>8. new.forest = e.forest /\ new.semi[w] = IF idx(acc.semi[u]) < idx(x) THEN acc.semi[u] ELSE x
  BY <1>1, <1>3, <1>7
<1>9. acc.semi[u] \in R /\ idx(acc.semi[u]) \in Nat /\ idx(x) \in Nat /\ u \in Ids
  BY <1>1, <1>2, <1>4, <1>6 DEF SemiType
<1>10. IsForest(graph, blocks, parent, k, s, e.forest)
  <2>1. \A y \in Linked(graph, blocks, k) : s[y] = acc.semi[y]
    BY <1>1, <1>3 DEF Linked, idx, k
  <2> QED
    BY <1>1, <1>6, <2>1, ForestOfRoots
<1>11. new \in [forest : Forests, semi : [Ids -> Ids \cup {None}]] /\ new.semi = [s EXCEPT ![w] = new.semi[w]]
  <2>1. e.forest \in Forests
    BY <1>10 DEF IsForest
  <2>2. acc.semi[u] \in Ids
    BY <1>1, <1>9
  <2>3. acc.semi = [s EXCEPT ![w] = x]
    BY DEF PredAcc
  <2>4. [acc.semi EXCEPT ![w] = acc.semi[u]] = [s EXCEPT ![w] = acc.semi[u]]
    BY <1>1, <1>3, <2>3
  <2>5. CASE idx(acc.semi[u]) < idx(x)
    <3>1. new = [forest |-> e.forest, semi |-> [s EXCEPT ![w] = acc.semi[u]]]
      BY <1>7, <2>4, <2>5
    <3> HIDE DEF new
    <3>2. new.semi = [s EXCEPT ![w] = acc.semi[u]] /\ new.semi[w] = acc.semi[u]
      BY <1>1, <1>3, <3>1
    <3> QED
      BY <1>1, <1>3, <2>1, <2>2, <3>1, <3>2
  <2>6. CASE ~(idx(acc.semi[u]) < idx(x))
    <3>1. new = [forest |-> e.forest, semi |-> acc.semi]
      BY <1>7, <2>6
    <3> HIDE DEF new
    <3>2. new.semi = acc.semi
      BY <3>1
    <3> QED
      BY <1>3, <2>1, <2>3, <3>1, <3>2
  <2> QED
    BY <2>5, <2>6
<1>12. ASSUME idx(acc.semi[u]) < idx(x) PROVE acc.semi[u] \in Cands(graph, blocks, w)
  <2>1. u # w
    BY <1>9, <1>12
  <2>2. acc.semi[u] = s[u]
    BY <1>3, <1>9, <2>1
  <2>3. CASE idx(v) <= k
    <3>1. u = v /\ s[v] = v /\ v # w /\ idx(v) # k
      BY <1>1, <1>6, <2>1, <2>3 DEF SemiSoFar, k
    <3>2. v \in EnteredBefore(graph, blocks, w)
      BY <2>3, <3>1 DEF EnteredBefore, idx, k
    <3>3. LeadsTowards(graph, blocks, v, w)
      BY DEF LeadsTowards
    <3>4. v \in Cands(graph, blocks, w)
      BY <3>2, <3>3 DEF Cands
    <3> QED
      BY <2>2, <3>1, <3>4
  <2>4. CASE k < idx(v)
    <3>1. k < idx(u) /\ Anc(parent, u, v)
      BY <1>6, <2>4
    <3>2. s[u] \in Cands(graph, blocks, u)
      <4>1. ~(idx(u) <= k)
        BY <1>1, <1>6, <3>1
      <4> QED
        BY <1>6, <4>1 DEF SemiSoFar, IsSemi, k
    <3>3. idx(s[u]) < k
      BY <1>1, <1>2, <1>9, <1>12, <2>2
    <3> QED
      BY <2>2, <3>1, <3>2, <3>3, SemiCarriesOn DEF idx, k
  <2> QED
    BY <1>1, <2>3, <2>4
<1>13. PredAcc(s, w, new)
  <2>1. new.semi[w] = w \/ new.semi[w] \in Cands(graph, blocks, w)
    BY <1>8, <1>12 DEF PredAcc
  <2> HIDE DEF new
  <2> QED
    BY <1>8, <1>10, <1>11, <2>1 DEF PredAcc, k
<1>14. idx(new.semi[w]) <= idx(x) /\ idx(new.semi[w]) <= idx(acc.semi[u]) /\ idx(new.semi[w]) \in Nat
  BY <1>8, <1>9
<1>15. Heard(s, w, new.semi[w], v)
  <2>1. CASE idx(v) <= k
    <3>1. u = v /\ (v # w => acc.semi[u] = v) /\ (v = w => acc.semi[u] = x)
      BY <1>1, <1>3, <1>6, <2>1 DEF SemiSoFar, k
    <3>2. idx(new.semi[w]) <= idx(v)
      BY <1>1, <1>2, <1>9, <1>14, <3>1 DEF k
    <3> QED
      BY <2>1, <3>2 DEF Heard, k
  <2>2. CASE ~(idx(v) <= k)
    <3>1. ASSUME NEW y \in Ids, Anc(parent, y, v), k < idx(y) PROVE idx(new.semi[w]) <= idx(s[y])
      <4>1. k < idx(v)
        BY <1>1, <2>2
      <4>2. y \in R
        BY <3>1, AncBefore
      <4>3. idx(acc.semi[u]) <= idx(acc.semi[y])
        BY <1>6, <3>1, <4>1
      <4>4. y # w
        BY <1>1, <3>1 DEF k
      <4>5. acc.semi[y] = s[y] /\ idx(s[y]) \in Nat
        BY <1>1, <1>3, <4>2, <4>4
      <4> QED
        BY <1>9, <1>14, <4>3, <4>5
    <3> QED
      BY <2>2, <3>1 DEF Heard, k
  <2> QED
    BY <2>1, <2>2
<1> QED
  BY <1>13, <1>14, <1>15

\* What all predecessors have said is the semidominator.
LEMMA HeardAll ==
  ASSUME graph \in Graphs, IsDfsTree(graph, blocks, parent), NEW w \in Reachable(graph) \ {Start},
         NEW s, SemiSoFar(idx(w), s), NEW x, x = w \/ x \in Cands(graph, blocks, w),
         \A v \in Reachable(graph) : w \in SuccSet(graph, v) => Heard(s, w, x, v)
  PROVE  IsSemi(graph, blocks, x, w)
<1> DEFINE R == Reachable(graph)
<1>1. /\ idx(w) \in Nat /\ w \in R
      /\ \A b \in R : b \in Ids /\ idx(b) \in Nat /\ (idx(b) = idx(w) => b = w)
  BY IdxFacts DEF idx
<1>2. x \in R
  BY CandsAbove
<1>3. ASSUME NEW c \in Cands(graph, blocks, w) PROVE idx(x) <= idx(c)
  <2>1. c \in R /\ idx(c) < idx(w)
    BY <1>1, <1>3, CandsAbove DEF idx
  <2>2. \A y \in R : idx(w) < idx(y) => IsSemi(graph, blocks, s[y], y)
    <3> SUFFICES ASSUME NEW y \in R, idx(w) < idx(y) PROVE IsSemi(graph, blocks, s[y], y)
      OBVIOUS
    <3>1. ~(idx(y) <= idx(w))
      BY <1>1
    <3> QED
      BY <3>1 DEF SemiSoFar
  <2>3. PICK v \in R :
           /\ w \in SuccSet(graph, v)
           /\ \/ v = c
              \/ /\ idx(w) < idx(v)
                 /\ \E u \in R : /\ Anc(parent, u, v) /\ idx(w) < idx(u) /\ idx(s[u]) <= idx(c)
    BY <1>1, <2>2, SemiComesFrom DEF idx
  <2>4. Heard(s, w, x, v)
    BY <2>3
  <2>5. CASE v = c
    BY <1>1, <2>1, <2>4, <2>5 DEF Heard
  <2>6. CASE idx(w) < idx(v) /\ \E u \in R : Anc(parent, u, v) /\ idx(w) < idx(u) /\ idx(s[u]) <= idx(c)
    <3>1. PICK u \in R : Anc(parent, u, v) /\ idx(w) < idx(u) /\ idx(s[u]) <= idx(c)
      BY <2>6
    <3>2. ~(idx(v) <= idx(w)) /\ u \in Ids
      BY <1>1, <2>6
    <3>3. idx(x) <= idx(s[u])
      BY <2>4, <3>1, <3>2 DEF Heard
    <3>4. s[u] \in R
      BY DEF SemiSoFar, SemiType
    <3> QED
      BY <1>1, <1>2, <2>1, <3>1, <3>3, <3>4
  <2> QED
    BY <2>3, <2>5, <2>6
<1>4. x # w
  <2>1. parent[w] \in Cands(graph, blocks, w)
    BY ParentCand
  <2>2. idx(x) <= idx(parent[w]) /\ parent[w] \in R /\ idx(parent[w]) < idx(w)
    BY <1>3, <2>1, CandsAbove DEF idx
  <2> QED
    BY <1>1, <1>2, <2>2
<1> QED
  BY <1>3, <1>4 DEF IsSemi, idx

\* After all of w's predecessors, what w has is its semidominator.
LEMMA OverPredsFacts ==
  ASSUME graph \in Graphs, IsDfsTree(graph, blocks, parent), NEW w \in Reachable(graph) \ {Start},
         NEW s, SemiSoFar(idx(w), s), NEW f, IsForest(graph, blocks, parent, idx(w), s, f),
         NEW vs \in Seq(Ids), ToSet(vs) = {v \in Reachable(graph) : w \in SuccSet(graph, v)}
  PROVE  LET one == OverPreds(f, s, w, vs)
         IN  /\ PredAcc(s, w, one) /\ IsSemi(graph, blocks, one.semi[w], w)
<1> DEFINE D == {v \in Reachable(graph) : w \in SuccSet(graph, v)}
           A == {acc \in [forest : Forests, semi : [Ids -> Ids \cup {None}]] : PredAcc(s, w, acc)}
           base == [forest |-> f, semi |-> s]
           turn == [acc \in A |-> [v \in D |-> PredTurn(acc, w, v)]]
           Rule(F) == F = [x \in SUBSET DOMAIN vs |->
                             IF x = {} THEN base
                             ELSE LET acc == F[x \ {Max(x)}]
                                      v == vs[Max(x)]
                                      e == Eval(acc.forest, acc.semi, v)
                                  IN  [forest |-> e.forest,
                                       semi |-> IF IsSmaller(acc.semi, e.node, w)
                                                THEN [acc.semi EXCEPT ![w] = acc.semi[e.node]]
                                                ELSE acc.semi]]
           iter == CHOOSE F : Rule(F)
<1>1. OverPreds(f, s, w, vs) = iter[DOMAIN vs]
  BY DEF OverPreds, FoldLeft, MapThenFoldSet
<1>2. w \in Ids /\ s \in [Ids -> Ids \cup {None}] /\ s[w] = w
  <2>1. w \in Ids /\ idx(w) \in Nat
    BY IdxFacts DEF idx
  <2> QED
    BY <2>1 DEF SemiSoFar, SemiType
<1>3. base \in A
  <2>1. s = [s EXCEPT ![w] = s[w]]
    BY <1>2
  <2>2. f \in Forests
    BY DEF IsForest
  <2>3. base.forest = f /\ base.semi = s /\ base \in [forest : Forests, semi : [Ids -> Ids \cup {None}]]
    BY <1>2, <2>2
  <2> HIDE DEF base
  <2>4. PredAcc(s, w, base)
    BY <1>2, <2>1, <2>3 DEF PredAcc
  <2> QED
    BY <2>3, <2>4
<1>4. \A acc \in A, v \in D : PredTurn(acc, w, v) \in A
  <2> SUFFICES ASSUME NEW acc \in A, NEW v \in D PROVE PredTurn(acc, w, v) \in A
    OBVIOUS
  <2>1. PredAcc(s, w, PredTurn(acc, w, v))
    BY PredTurnFacts
  <2> QED
    BY <2>1 DEF PredAcc
<1>5. turn \in [A -> [D -> A]]
  <2> HIDE DEF A, D
  <2> QED
    BY <1>4
<1>6. vs \in Seq(D) /\ DOMAIN vs = 1 .. Len(vs) /\ Len(vs) \in Nat /\ \A i \in DOMAIN vs : vs[i] \in D
  <2>1. \A i \in DOMAIN vs : vs[i] \in D
    BY ToSetFacts
  <2> HIDE DEF D
  <2> QED
    BY <2>1
<1>7. PICK F \in [SUBSET DOMAIN vs -> A] :
        \A x \in SUBSET DOMAIN vs : F[x] = IF x = {} THEN base ELSE turn[F[x \ {Max(x)}]][vs[Max(x)]]
  <2> HIDE DEF A, D, base, turn
  <2>1. FoldInput(A, base, D, vs, turn)
    BY <1>3, <1>5, <1>6 DEF FoldInput
  <2>2. \E F : IsFold(A, base, vs, turn, F)
    BY <2>1, FoldExists
  <2> QED
    BY <2>2 DEF IsFold
<1>8. Rule(F)
  <2>1. ASSUME NEW x \in SUBSET DOMAIN vs, x # {} PROVE F[x] = PredTurn(F[x \ {Max(x)}], w, vs[Max(x)])
    <3>1. Max(x) \in DOMAIN vs /\ vs[Max(x)] \in D
      <4>1. Max(x) \in x
        BY <1>6, <2>1, MaxFacts
      <4> QED
        BY <1>6, <4>1
    <3>2. F[x \ {Max(x)}] \in A
      <4> HIDE DEF A
      <4> QED
        BY <1>7
    <3>3. F[x] = turn[F[x \ {Max(x)}]][vs[Max(x)]]
      BY <1>7, <2>1
    <3> HIDE DEF A, D
    <3> QED
      BY <3>1, <3>2, <3>3
  <2>2. F = [x \in SUBSET DOMAIN vs |-> IF x = {} THEN base ELSE PredTurn(F[x \ {Max(x)}], w, vs[Max(x)])]
    <3> HIDE DEF A, base
    <3> QED
      BY <1>7, <2>1
  <2> QED
    BY <2>2 DEF PredTurn
<1>9. Rule(iter)
  <2> HIDE DEF Rule
  <2> QED
    BY <1>8
<1>10. \A x \in SUBSET DOMAIN vs : iter[x] = IF x = {} THEN base ELSE PredTurn(iter[x \ {Max(x)}], w, vs[Max(x)])
  <2> HIDE DEF iter
  <2> QED
    BY <1>9 DEF PredTurn
<1> HIDE DEF iter, Rule, turn
<1> DEFINE OK(n) == n <= Len(vs) => /\ PredAcc(s, w, iter[1 .. n])
                                    /\ \A i \in 1 .. n : Heard(s, w, iter[1 .. n].semi[w], vs[i])
           S == {n \in Nat : OK(n)}
<1>11. 0 \in S
  <2>1. 1 .. 0 = {} /\ 1 .. 0 \in SUBSET DOMAIN vs
    BY <1>6
  <2>2. iter[1 .. 0] = base
    BY <1>10, <2>1
  <2> HIDE DEF base
  <2> QED
    BY <1>3, <2>1, <2>2
<1>12. ASSUME NEW n \in Nat, n \in S PROVE n + 1 \in S
  <2> SUFFICES ASSUME n + 1 <= Len(vs) PROVE OK(n + 1)
    BY <1>12
  <2>1. /\ OK(n) /\ n <= Len(vs) /\ n + 1 \in Nat \ {0} /\ n + 1 \in DOMAIN vs
        /\ 1 .. n + 1 \in SUBSET DOMAIN vs /\ 1 .. n + 1 # {} /\ n + 1 - 1 = n
    BY <1>6, <1>12
  <2> DEFINE acc == iter[1 .. n]
             v == vs[n + 1]
  <2>2. iter[1 .. n + 1] = PredTurn(acc, w, v)
    <3>1. Max(1 .. n + 1) = n + 1 /\ (1 .. n + 1) \ {n + 1} = 1 .. n
      BY <2>1, MaxFacts
    <3> QED
      BY <1>10, <2>1, <3>1
  <2>3. PredAcc(s, w, acc) /\ \A i \in 1 .. n : Heard(s, w, acc.semi[w], vs[i])
    BY <2>1
  <2>4. v \in Reachable(graph) /\ w \in SuccSet(graph, v)
    BY <1>6, <2>1
  <2> HIDE DEF acc, v
  <2>5. /\ PredAcc(s, w, PredTurn(acc, w, v))
        /\ idx(PredTurn(acc, w, v).semi[w]) <= idx(acc.semi[w])
        /\ Heard(s, w, PredTurn(acc, w, v).semi[w], v)
    BY <2>3, <2>4, PredTurnFacts
  <2> DEFINE x == PredTurn(acc, w, v).semi[w]
             y == acc.semi[w]
  <2>6. x \in Reachable(graph) /\ y \in Reachable(graph)
    <3>1. (x = w \/ x \in Cands(graph, blocks, w)) /\ (y = w \/ y \in Cands(graph, blocks, w))
      BY <2>3, <2>5 DEF PredAcc
    <3> HIDE DEF x, y
    <3> QED
      BY <3>1, CandsAbove
  <2>7. ASSUME NEW i \in 1 .. n + 1 PROVE Heard(s, w, x, vs[i])
    <3>1. CASE i = n + 1
      BY <2>5, <3>1 DEF v
    <3>2. CASE i \in 1 .. n
      <4>1. Heard(s, w, y, vs[i]) /\ vs[i] \in Reachable(graph)
        BY <1>6, <2>1, <2>3, <3>2
      <4>2. idx(x) <= idx(y) /\ idx(x) \in Nat /\ idx(y) \in Nat /\ idx(vs[i]) \in Nat
        BY <2>5, <2>6, <4>1, IdxFacts DEF idx
      <4> HIDE DEF x, y
      <4>3. ASSUME NEW u \in Ids, Anc(parent, u, vs[i]) PROVE idx(s[u]) \in Nat
        <5>1. u \in Reachable(graph)
          BY <4>1, <4>3, AncBefore
        <5>2. s[u] \in Reachable(graph)
          BY <5>1 DEF SemiSoFar, SemiType
        <5> QED
          BY <5>2, IdxFacts DEF idx
      <4>4. CASE idx(vs[i]) <= idx(w)
        BY <4>1, <4>2, <4>4 DEF Heard
      <4>5. CASE ~(idx(vs[i]) <= idx(w))
        <5>1. ASSUME NEW u \in Ids, Anc(parent, u, vs[i]), idx(w) < idx(u) PROVE idx(x) <= idx(s[u])
          <6>1. idx(y) <= idx(s[u])
            BY <4>1, <4>5, <5>1 DEF Heard
          <6> QED
            BY <4>2, <4>3, <5>1, <6>1
        <5> QED
          BY <4>5, <5>1 DEF Heard
      <4> QED
        BY <4>4, <4>5
    <3> QED
      BY <3>1, <3>2
  <2> QED
    BY <2>2, <2>5, <2>7
<1>13. Len(vs) \in S
  <2> HIDE DEF S
  <2>1. Nat \subseteq S
    BY <1>11, <1>12, SetInduction
  <2> QED
    BY <1>6, <2>1
<1>14. /\ PredAcc(s, w, iter[DOMAIN vs])
       /\ \A i \in 1 .. Len(vs) : Heard(s, w, iter[DOMAIN vs].semi[w], vs[i])
  BY <1>6, <1>13
<1> DEFINE one == iter[DOMAIN vs]
           x == one.semi[w]
<1>15. \A v \in Reachable(graph) : w \in SuccSet(graph, v) => Heard(s, w, x, v)
  <2> SUFFICES ASSUME NEW v \in Reachable(graph), w \in SuccSet(graph, v) PROVE Heard(s, w, x, v)
    OBVIOUS
  <2>1. v \in ToSet(vs)
    OBVIOUS
  <2>2. \E i \in 1 .. Len(vs) : vs[i] = v
    BY <1>6, <2>1 DEF ToSet
  <2> QED
    BY <1>14, <2>2
<1>16. x = w \/ x \in Cands(graph, blocks, w)
  BY <1>14 DEF PredAcc
<1>17. IsSemi(graph, blocks, x, w)
  <2> HIDE DEF x
  <2> QED
    BY <1>15, <1>16, HeardAll
<1> QED
  BY <1>1, <1>14, <1>17

-----------------------------------------------------------------------------
\* The second inner loop of ComputeSdoms.

\* What the pass may keep of v: its semidominator, when no block on the way down
\* to v has an earlier one; otherwise one on the way with the earliest of all.
GoodDom(s, v, d) ==
  \/ d = s[v] /\ \A u \in Ids : OnWay(parent, s[v], v, u) => idx(s[v]) <= idx(s[u])
  \/ /\ OnWay(parent, s[v], v, d) /\ idx(s[d]) < idx(s[v])
     /\ \A u \in Ids : OnWay(parent, s[v], v, u) => idx(s[d]) <= idx(s[u])

BucketTurn(s, p, acc, v) ==
  LET e == Eval(acc.forest, s, v) IN
  [forest |-> e.forest, dom |-> [acc.dom EXCEPT ![v] = DomOf(s, e.node, v, p)]]

BucketAcc(s, k, acc) ==
  /\ acc \in [forest : Forests, dom : [Ids -> Ids \cup {None}]]
  /\ IsForest(graph, blocks, parent, k, s, acc.forest)

\* When the child w of p has been linked, the blocks below w with p for their
\* semidominator, and those below the children linked before, hang from p.
LEMMA WayLinked ==
  ASSUME graph \in Graphs, IsDfsTree(graph, blocks, parent), NEW w \in Reachable(graph) \ {Start},
         NEW v \in Reachable(graph), idx(w) <= idx(v), Anc(parent, parent[w], v), NEW u \in Ids
  PROVE  OnWay(parent, parent[w], v, u) <=> Anc(parent, u, v) /\ idx(w) <= idx(u)
<1> DEFINE p == parent[w]
           R == Reachable(graph)
<1>1. /\ parent \in [Ids -> Ids \cup {None}] /\ w \in Ids
      /\ \A b \in R : b \in Ids /\ idx(b) \in Nat /\ \A c \in R : idx(b) = idx(c) => b = c
  <2>1. parent \in [Ids -> Ids \cup {None}]
    BY DEF IsDfsTree
  <2> QED
    BY <2>1, IdxFacts DEF idx
<1>2. p \in R /\ idx(p) < idx(w) /\ p \in Ids
  BY <1>1, ParentFacts DEF idx
<1>3. ASSUME OnWay(parent, p, v, u) PROVE idx(w) <= idx(u)
  <2>1. u \in R /\ Anc(parent, p, u) /\ u # p /\ Anc(parent, u, v) /\ idx(u) <= idx(v)
    BY <1>3, AncBefore DEF OnWay, idx
  <2>2. idx(p) < idx(u)
    BY <2>1, AncBefore DEF idx
  <2> SUFFICES ASSUME idx(u) < idx(w) PROVE FALSE
    BY <1>1, <2>1
  <2>3. Anc(parent, u, w)
    <3>1. idx(u) <= idx(w)
      BY <1>1, <2>1
    <3> QED
      BY <2>1, <3>1, AncBetween DEF idx
  <2>4. u # w
    BY <1>1
  <2>5. Anc(parent, u, p)
    BY <1>1, <2>3, <2>4, AncUp
  <2>6. idx(u) <= idx(p)
    BY <1>2, <2>5, AncBefore DEF idx
  <2> QED
    BY <1>1, <1>2, <2>1, <2>2, <2>6
<1>4. ASSUME Anc(parent, u, v), idx(w) <= idx(u) PROVE OnWay(parent, p, v, u)
  <2>1. u \in R /\ idx(u) <= idx(v)
    BY <1>4, AncBefore DEF idx
  <2>2. idx(p) < idx(u)
    BY <1>1, <1>2, <1>4, <2>1
  <2>3. Anc(parent, p, u) /\ u # p
    <3>1. idx(p) <= idx(u)
      BY <1>1, <1>2, <2>1, <2>2
    <3>2. u # p
      BY <1>1, <1>2, <2>2
    <3> HIDE DEF p
    <3>3. Anc(parent, p, v)
      BY DEF p
    <3> QED
      BY <2>1, <3>1, <3>2, <3>3, AncBetween DEF idx
  <2> QED
    BY <1>4, <2>3 DEF OnWay
<1> QED
  BY <1>3, <1>4 DEF OnWay

\* A turn settles, or leaves relative, the dominator of one of the bucket.
LEMMA BucketTurnFacts ==
  ASSUME graph \in Graphs, IsDfsTree(graph, blocks, parent), NEW k \in Nat, NEW w \in Reachable(graph) \ {Start},
         idx(w) = k + 1, NEW s, SemiSoFar(k, s), NEW acc, BucketAcc(s, k, acc),
         NEW v \in Reachable(graph), k < idx(v), s[v] = parent[w]
  PROVE  LET new == BucketTurn(s, parent[w], acc, v)
         IN  /\ BucketAcc(s, k, new)
             /\ GoodDom(s, v, new.dom[v])
             /\ \A b \in Ids \ {v} : new.dom[b] = acc.dom[b]
<1> DEFINE p == parent[w]
           e == Eval(acc.forest, s, v)
           u == e.node
           new == BucketTurn(s, p, acc, v)
           R == Reachable(graph)
<1>1. /\ w \in Ids /\ v \in Ids /\ idx(v) \in Nat
      /\ \A b \in R : b \in Ids /\ idx(b) \in Nat
  BY IdxFacts DEF idx
<1>2. /\ SemiType(graph, s) /\ IsForest(graph, blocks, parent, k, s, acc.forest)
      /\ acc.dom \in [Ids -> Ids \cup {None}]
  BY DEF SemiSoFar, BucketAcc
<1>3. /\ IsForest(graph, blocks, parent, k, s, e.forest)
      /\ u \in R /\ k < idx(u) /\ Anc(parent, u, v)
      /\ \A y \in Ids : Anc(parent, y, v) /\ k < idx(y) => idx(s[u]) <= idx(s[y])
  BY <1>2, EvalFacts DEF idx
<1> HIDE DEF e, u
<1>4. new = [forest |-> e.forest, dom |-> [acc.dom EXCEPT ![v] = IF idx(s[u]) < idx(s[v]) THEN u ELSE p]]
  BY DfsIdx DEF BucketTurn, DomOf, SemiIdx, idx, e, u
<1> HIDE DEF new
<1>5. /\ new.forest = e.forest
      /\ new.dom = [acc.dom EXCEPT ![v] = IF idx(s[u]) < idx(s[v]) THEN u ELSE p]
  BY <1>4
<1>6. p \in R /\ Anc(parent, p, v) /\ p \in Ids
  <2>1. p \in R
    BY ParentFacts
  <2>2. ~(idx(v) <= k)
    BY <1>1
  <2>3. s[v] \in Cands(graph, blocks, v)
    BY <2>2 DEF SemiSoFar, IsSemi
  <2> QED
    BY <1>1, <2>1, <2>3, CandsAbove
<1>7. BucketAcc(s, k, new)
  <2>1. e.forest \in Forests /\ u \in Ids
    BY <1>1, <1>3 DEF IsForest
  <2>2. (IF idx(s[u]) < idx(s[v]) THEN u ELSE p) \in Ids
    BY <1>6, <2>1
  <2>3. [acc.dom EXCEPT ![v] = IF idx(s[u]) < idx(s[v]) THEN u ELSE p] \in [Ids -> Ids \cup {None}]
    BY <1>2, <2>2
  <2>4. new \in [forest : Forests, dom : [Ids -> Ids \cup {None}]]
    BY <1>4, <2>1, <2>3
  <2> QED
    BY <1>3, <1>5, <2>4 DEF BucketAcc
<1>8. \A b \in Ids \ {v} : new.dom[b] = acc.dom[b]
  BY <1>2, <1>5
<1>9. \A y \in Ids : OnWay(parent, p, v, y) <=> Anc(parent, y, v) /\ k < idx(y)
  <2> SUFFICES ASSUME NEW y \in Ids PROVE OnWay(parent, p, v, y) <=> Anc(parent, y, v) /\ k < idx(y)
    OBVIOUS
  <2>1. idx(w) <= idx(v)
    BY <1>1
  <2>2. OnWay(parent, p, v, y) <=> Anc(parent, y, v) /\ idx(w) <= idx(y)
    BY <1>6, <2>1, WayLinked
  <2>3. Anc(parent, y, v) => idx(y) \in Nat
    <3>1. Anc(parent, y, v) => y \in R
      BY AncBefore
    <3> QED
      BY <1>1, <3>1
  <2> QED
    BY <2>2, <2>3
<1>10. \A y \in Ids : OnWay(parent, p, v, y) => idx(s[u]) <= idx(s[y]) /\ idx(s[y]) \in Nat
  <2> SUFFICES ASSUME NEW y \in Ids, OnWay(parent, p, v, y) PROVE idx(s[u]) <= idx(s[y]) /\ idx(s[y]) \in Nat
    OBVIOUS
  <2>1. Anc(parent, y, v) /\ k < idx(y)
    BY <1>9
  <2>2. y \in R
    BY <2>1, AncBefore
  <2>3. s[y] \in R
    BY <1>2, <2>2 DEF SemiType
  <2> QED
    BY <1>1, <1>3, <2>1, <2>3
<1>11. OnWay(parent, p, v, u) /\ idx(s[u]) \in Nat /\ idx(p) \in Nat
  BY <1>1, <1>3, <1>6, <1>9, <1>10
<1>12. new.dom[v] = IF idx(s[u]) < idx(p) THEN u ELSE p
  BY <1>1, <1>2, <1>5
<1>13. GoodDom(s, v, new.dom[v])
  <2>1. CASE idx(s[u]) < idx(p)
    BY <1>10, <1>11, <1>12, <2>1 DEF GoodDom
  <2>2. CASE ~(idx(s[u]) < idx(p))
    <3>1. \A y \in Ids : OnWay(parent, p, v, y) => idx(p) <= idx(s[y])
      BY <1>10, <1>11, <2>2
    <3> QED
      BY <1>12, <2>2, <3>1 DEF GoodDom
  <2> QED
    BY <2>1, <2>2
<1> QED
  BY <1>7, <1>8, <1>13 DEF new

\* After all of the bucket, that of each of them.
LEMMA OverBucketFacts ==
  ASSUME graph \in Graphs, IsDfsTree(graph, blocks, parent), NEW k \in Nat, NEW w \in Reachable(graph) \ {Start},
         idx(w) = k + 1, NEW s, SemiSoFar(k, s), NEW f, IsForest(graph, blocks, parent, k, s, f),
         NEW d \in [Ids -> Ids \cup {None}], NEW vs \in Seq(Ids),
         ToSet(vs) = {v \in Reachable(graph) : k < idx(v) /\ s[v] = parent[w]}
  PROVE  LET two == OverBucket(f, s, d, parent[w], vs)
         IN  /\ BucketAcc(s, k, two)
             /\ \A v \in ToSet(vs) : GoodDom(s, v, two.dom[v])
             /\ \A b \in Ids \ ToSet(vs) : two.dom[b] = d[b]
<1> DEFINE p == parent[w]
           D == {v \in Reachable(graph) : k < idx(v) /\ s[v] = p}
           A == {acc \in [forest : Forests, dom : [Ids -> Ids \cup {None}]] : BucketAcc(s, k, acc)}
           base == [forest |-> f, dom |-> d]
           turn == [acc \in A |-> [v \in D |-> BucketTurn(s, p, acc, v)]]
           Rule(F) == F = [x \in SUBSET DOMAIN vs |->
                             IF x = {} THEN base
                             ELSE LET acc == F[x \ {Max(x)}]
                                      v == vs[Max(x)]
                                      e == Eval(acc.forest, s, v)
                                  IN  [forest |-> e.forest,
                                       dom |-> [acc.dom EXCEPT ![v] = DomOf(s, e.node, v, p)]]]
           iter == CHOOSE F : Rule(F)
<1>1. OverBucket(f, s, d, p, vs) = iter[DOMAIN vs]
  BY DEF OverBucket, FoldLeft, MapThenFoldSet
<1>3. base \in A
  <2>2. f \in Forests
    BY DEF IsForest
  <2>3. base.forest = f /\ base \in [forest : Forests, dom : [Ids -> Ids \cup {None}]]
    BY <2>2
  <2> HIDE DEF base
  <2>4. BucketAcc(s, k, base)
    BY <2>3 DEF BucketAcc
  <2> QED
    BY <2>3, <2>4
<1>4. \A acc \in A, v \in D : BucketTurn(s, p, acc, v) \in A
  <2> SUFFICES ASSUME NEW acc \in A, NEW v \in D PROVE BucketTurn(s, p, acc, v) \in A
    OBVIOUS
  <2>1. BucketAcc(s, k, BucketTurn(s, p, acc, v))
    BY BucketTurnFacts
  <2> QED
    BY <2>1 DEF BucketAcc
<1>5. turn \in [A -> [D -> A]]
  <2> HIDE DEF A, D
  <2> QED
    BY <1>4
<1>6. vs \in Seq(D) /\ DOMAIN vs = 1 .. Len(vs) /\ Len(vs) \in Nat /\ \A i \in DOMAIN vs : vs[i] \in D
  <2>1. \A i \in DOMAIN vs : vs[i] \in D
    BY ToSetFacts
  <2> HIDE DEF D
  <2> QED
    BY <2>1
<1>7. PICK F \in [SUBSET DOMAIN vs -> A] :
        \A x \in SUBSET DOMAIN vs : F[x] = IF x = {} THEN base ELSE turn[F[x \ {Max(x)}]][vs[Max(x)]]
  <2> HIDE DEF A, D, base, turn
  <2>1. FoldInput(A, base, D, vs, turn)
    BY <1>3, <1>5, <1>6 DEF FoldInput
  <2>2. \E F : IsFold(A, base, vs, turn, F)
    BY <2>1, FoldExists
  <2> QED
    BY <2>2 DEF IsFold
<1>8. Rule(F)
  <2>1. ASSUME NEW x \in SUBSET DOMAIN vs, x # {} PROVE F[x] = BucketTurn(s, p, F[x \ {Max(x)}], vs[Max(x)])
    <3>1. Max(x) \in DOMAIN vs /\ vs[Max(x)] \in D
      <4>1. Max(x) \in x
        BY <1>6, <2>1, MaxFacts
      <4> QED
        BY <1>6, <4>1
    <3>2. F[x \ {Max(x)}] \in A
      <4> HIDE DEF A
      <4> QED
        BY <1>7
    <3>3. F[x] = turn[F[x \ {Max(x)}]][vs[Max(x)]]
      BY <1>7, <2>1
    <3> HIDE DEF A, D
    <3> QED
      BY <3>1, <3>2, <3>3
  <2>2. F = [x \in SUBSET DOMAIN vs |-> IF x = {} THEN base ELSE BucketTurn(s, p, F[x \ {Max(x)}], vs[Max(x)])]
    <3> HIDE DEF A, base
    <3> QED
      BY <1>7, <2>1
  <2> QED
    BY <2>2 DEF BucketTurn
<1>9. Rule(iter)
  <2> HIDE DEF Rule
  <2> QED
    BY <1>8
<1>10. \A x \in SUBSET DOMAIN vs : iter[x] = IF x = {} THEN base ELSE BucketTurn(s, p, iter[x \ {Max(x)}], vs[Max(x)])
  <2> HIDE DEF iter
  <2> QED
    BY <1>9 DEF BucketTurn
<1> HIDE DEF iter, Rule, turn
<1> DEFINE Taken(n) == {vs[i] : i \in 1 .. n}
           OK(n) == n <= Len(vs) =>
                      /\ BucketAcc(s, k, iter[1 .. n])
                      /\ \A v \in Taken(n) : GoodDom(s, v, iter[1 .. n].dom[v])
                      /\ \A b \in Ids \ Taken(n) : iter[1 .. n].dom[b] = d[b]
           S == {n \in Nat : OK(n)}
<1>11. 0 \in S
  <2>1. 1 .. 0 = {} /\ 1 .. 0 \in SUBSET DOMAIN vs /\ Taken(0) = {}
    BY <1>6
  <2>2. iter[1 .. 0] = base /\ base.dom = d
    BY <1>10, <2>1
  <2> HIDE DEF base, Taken
  <2> QED
    BY <1>3, <2>1, <2>2
<1>12. ASSUME NEW n \in Nat, n \in S PROVE n + 1 \in S
  <2> SUFFICES ASSUME n + 1 <= Len(vs) PROVE OK(n + 1)
    BY <1>12
  <2>1. /\ OK(n) /\ n <= Len(vs) /\ n + 1 \in Nat \ {0} /\ n + 1 \in DOMAIN vs
        /\ 1 .. n + 1 \in SUBSET DOMAIN vs /\ 1 .. n + 1 # {} /\ n + 1 - 1 = n
    BY <1>6, <1>12
  <2> DEFINE acc == iter[1 .. n]
             v == vs[n + 1]
             new == BucketTurn(s, p, acc, v)
  <2>2. iter[1 .. n + 1] = new
    <3>1. Max(1 .. n + 1) = n + 1 /\ (1 .. n + 1) \ {n + 1} = 1 .. n
      BY <2>1, MaxFacts
    <3> QED
      BY <1>10, <2>1, <3>1
  <2>3. /\ BucketAcc(s, k, acc) /\ \A b \in Taken(n) : GoodDom(s, b, acc.dom[b])
        /\ \A b \in Ids \ Taken(n) : acc.dom[b] = d[b]
    BY <2>1
  <2>4. v \in Reachable(graph) /\ k < idx(v) /\ s[v] = p /\ v \in Ids /\ Taken(n + 1) = Taken(n) \cup {v}
        /\ Taken(n) \subseteq Ids
    <3>1. v \in Reachable(graph) /\ k < idx(v) /\ s[v] = p
      BY <1>6, <2>1
    <3>2. 1 .. n + 1 = (1 .. n) \cup {n + 1}
      OBVIOUS
    <3>3. Taken(n) \subseteq Ids
      BY <1>6, <2>1
    <3> QED
      BY <3>1, <3>2, <3>3, IdxFacts
  <2> HIDE DEF acc, v, Taken
  <2>5. BucketAcc(s, k, new) /\ GoodDom(s, v, new.dom[v]) /\ \A b \in Ids \ {v} : new.dom[b] = acc.dom[b]
    BY <2>3, <2>4, BucketTurnFacts
  <2> HIDE DEF new
  <2>6. \A b \in Taken(n + 1) : GoodDom(s, b, new.dom[b])
    BY <2>3, <2>4, <2>5
  <2>7. \A b \in Ids \ Taken(n + 1) : new.dom[b] = d[b]
    BY <2>3, <2>4, <2>5
  <2> QED
    BY <2>2, <2>5, <2>6, <2>7
<1>13. Len(vs) \in S
  <2> HIDE DEF S
  <2>1. Nat \subseteq S
    BY <1>11, <1>12, SetInduction
  <2> QED
    BY <1>6, <2>1
<1>14. Taken(Len(vs)) = ToSet(vs)
  BY ToSetFacts
<1> HIDE DEF Taken
<1> QED
  BY <1>1, <1>6, <1>13, <1>14

-----------------------------------------------------------------------------
\* The nodes taken backwards.

\* What the nodes hold when the loop of ComputeSdoms is at the k-th.
SdomAt(k, s, f, bk, d) ==
  /\ SemiSoFar(k, s)
  /\ IsForest(graph, blocks, parent, k, s, f)
  /\ bk \in [Ids -> Seq(Ids)]
  /\ \A x \in Ids : ToSet(bk[x]) = {v \in Reachable(graph) : k < idx(v) /\ s[v] = x}
  /\ d \in [Ids -> Ids \cup {None}]
  /\ \A v \in Reachable(graph) :
       k < idx(v) /\ (\A u \in Ids : OnWay(parent, s[v], v, u) => k < idx(u)) => GoodDom(s, v, d[v])

\* FillTree has built the depth-first tree, and pred is what its name says.
TreeBuilt ==
  /\ graph \in Graphs /\ IsDfsTree(graph, blocks, parent)
  /\ pred \in [Ids -> Seq(Ids)]
  /\ \A w \in Reachable(graph) : ToSet(pred[w]) = {v \in Reachable(graph) : w \in SuccSet(graph, v)}

\* GoodDom looks at the way down to v only.
LEMMA SameGoodDom ==
  ASSUME graph \in Graphs, IsDfsTree(graph, blocks, parent), NEW s, NEW t, NEW v \in Reachable(graph),
         t[v] = s[v], \A u \in Ids : OnWay(parent, s[v], v, u) => t[u] = s[u],
         NEW d, GoodDom(s, v, d)
  PROVE  GoodDom(t, v, d)
<1>1. CASE d = s[v] /\ \A u \in Ids : OnWay(parent, s[v], v, u) => idx(s[v]) <= idx(s[u])
  BY <1>1 DEF GoodDom
<1>2. CASE /\ OnWay(parent, s[v], v, d) /\ idx(s[d]) < idx(s[v])
           /\ \A u \in Ids : OnWay(parent, s[v], v, u) => idx(s[d]) <= idx(s[u])
  <2>1. d \in Ids
    BY <1>2 DEF OnWay
  <2>2. t[d] = s[d]
    BY <1>2, <2>1
  <2> QED
    BY <1>2, <2>2 DEF GoodDom
<1> QED
  BY <1>1, <1>2 DEF GoodDom

\* One turn of the loop of ComputeSdoms, from the k-th node to the one before it.
LEMMA SdomTurn ==
  ASSUME TreeBuilt, NEW k \in 2 .. Len(blocks), NEW s, NEW f, NEW bk, NEW d, SdomAt(k, s, f, bk, d)
  PROVE  LET w == blocks[k]
             p == parent[w]
             one == OverPreds(f, s, w, pred[w])
             linked == [one.forest EXCEPT !.ancestor[w] = p]
             new_bucket == [bk EXCEPT ![one.semi[w]] = Append(@, w)]
             two == OverBucket(linked, one.semi, d, p, new_bucket[p])
         IN  SdomAt(k - 1, one.semi, two.forest, new_bucket, two.dom)
<1> DEFINE R == Reachable(graph)
           w == blocks[k]
           p == parent[w]
           one == OverPreds(f, s, w, pred[w])
           t == one.semi
           linked == [one.forest EXCEPT !.ancestor[w] = p]
           new_bucket == [bk EXCEPT ![t[w]] = Append(@, w)]
           two == OverBucket(linked, t, d, p, new_bucket[p])
<1>1. graph \in Graphs /\ IsDfsTree(graph, blocks, parent)
  BY DEF TreeBuilt
<1>2. /\ k \in Nat /\ k - 1 \in Nat /\ w \in R /\ idx(w) = k /\ w # Start /\ w \in Ids
      /\ \A b \in R : b \in Ids /\ idx(b) \in Nat /\ (idx(b) = k => b = w)
  <2>1. /\ Len(blocks) \in Nat /\ \A b \in R : b \in Ids /\ idx(b) \in Nat
        /\ \A j \in 1 .. Len(blocks) : blocks[j] \in R /\ idx(blocks[j]) = j
        /\ \A b \in R : \A c \in R : idx(b) = idx(c) => b = c
    BY <1>1, IdxFacts DEF idx
  <2>2. idx(Start) = 1
    BY <1>1, ParentFacts DEF idx
  <2>3. k \in 1 .. Len(blocks) /\ k # 1
    BY <2>1
  <2>4. w \in R /\ idx(w) = k
    BY <2>1, <2>3
  <2>5. w # Start
    BY <2>2, <2>3, <2>4
  <2> QED
    BY <2>1, <2>3, <2>4, <2>5
<1>3. /\ SemiSoFar(k, s) /\ IsForest(graph, blocks, parent, k, s, f)
      /\ bk \in [Ids -> Seq(Ids)]
      /\ \A x \in Ids : ToSet(bk[x]) = {v \in R : k < idx(v) /\ s[v] = x}
      /\ d \in [Ids -> Ids \cup {None}]
      /\ \A v \in R : k < idx(v) /\ (\A u \in Ids : OnWay(parent, s[v], v, u) => k < idx(u)) => GoodDom(s, v, d[v])
  BY DEF SdomAt
<1>4. PredAcc(s, w, one) /\ IsSemi(graph, blocks, t[w], w)
  <2>1. pred[w] \in Seq(Ids) /\ ToSet(pred[w]) = {v \in R : w \in SuccSet(graph, v)}
    BY <1>2 DEF TreeBuilt
  <2> HIDE DEF w
  <2> QED
    BY <1>1, <1>2, <1>3, <2>1, OverPredsFacts
<1> HIDE DEF one
<1>5. /\ t \in [Ids -> Ids \cup {None}] /\ \A y \in Ids \ {w} : t[y] = s[y]
      /\ IsForest(graph, blocks, parent, k, s, one.forest)
      /\ s \in [Ids -> Ids \cup {None}] /\ \A y \in R : s[y] \in R
      /\ t[w] \in Cands(graph, blocks, w)
  BY <1>2, <1>3, <1>4 DEF PredAcc, SemiSoFar, SemiType, IsSemi
<1>6. t[w] \in R /\ Anc(parent, t[w], w) /\ idx(t[w]) < k /\ t[w] # w
  BY <1>1, <1>2, <1>5, CandsAbove DEF idx
<1>7. \A y \in R : (k - 1 < idx(y) <=> k < idx(y) \/ y = w) /\ (idx(y) <= k - 1 <=> idx(y) <= k /\ y # w)
  <2> SUFFICES ASSUME NEW y \in R
               PROVE (k - 1 < idx(y) <=> k < idx(y) \/ y = w) /\ (idx(y) <= k - 1 <=> idx(y) <= k /\ y # w)
    OBVIOUS
  <2>1. idx(y) \in Nat /\ (idx(y) = k <=> y = w)
    BY <1>2
  <2> HIDE DEF w
  <2> QED
    BY <1>2, <2>1
<1>8. SemiSoFar(k - 1, t)
  <2>1. SemiType(graph, t)
    BY <1>2, <1>5, <1>6 DEF SemiType
  <2>2. ASSUME NEW x \in R PROVE IF idx(x) <= k - 1 THEN t[x] = x ELSE IsSemi(graph, blocks, t[x], x)
    <3>1. CASE x = w
      BY <1>4, <1>7, <3>1
    <3>2. CASE x # w
      <4>1. t[x] = s[x] /\ (idx(x) <= k - 1 <=> idx(x) <= k)
        BY <1>2, <1>5, <1>7, <3>2
      <4> QED
        BY <1>3, <4>1 DEF SemiSoFar
    <3> QED
      BY <3>1, <3>2
  <2> QED
    BY <2>1, <2>2 DEF SemiSoFar
<1> HIDE DEF t
<1>9. IsForest(graph, blocks, parent, k - 1, t, linked)
  <2>1. \A y \in Linked(graph, blocks, k) : t[y] = s[y]
    BY <1>2, <1>5 DEF Linked, idx
  <2>2. IsForest(graph, blocks, parent, k, t, one.forest)
    BY <1>1, <1>2, <1>5, <2>1, ForestOfRoots
  <2>3. SemiType(graph, t)
    BY <1>8 DEF SemiSoFar
  <2> DEFINE h == one.forest
  <2> HIDE DEF h
  <2>4. IsForest(graph, blocks, parent, k, t, h)
    BY <2>2 DEF h
  <2>5. IsForest(graph, blocks, parent, k - 1, t, [h EXCEPT !.ancestor[blocks[k]] = parent[blocks[k]]])
    BY <1>1, <2>3, <2>4, LinkFacts
  <2> QED
    BY <2>5 DEF h
<1>10. /\ new_bucket \in [Ids -> Seq(Ids)]
       /\ \A x \in Ids : ToSet(new_bucket[x]) = {v \in R : k - 1 < idx(v) /\ t[v] = x}
  <2>1. t[w] \in Ids
    BY <1>2, <1>6
  <2>2. \A x \in Ids : /\ bk[x] \in Seq(Ids) /\ new_bucket[x] = IF x = t[w] THEN Append(bk[x], w) ELSE bk[x]
                       /\ Append(bk[x], w) \in Seq(Ids) /\ ToSet(Append(bk[x], w)) = ToSet(bk[x]) \cup {w}
    <3> SUFFICES ASSUME NEW x \in Ids
                 PROVE /\ bk[x] \in Seq(Ids) /\ new_bucket[x] = IF x = t[w] THEN Append(bk[x], w) ELSE bk[x]
                       /\ Append(bk[x], w) \in Seq(Ids) /\ ToSet(Append(bk[x], w)) = ToSet(bk[x]) \cup {w}
      OBVIOUS
    <3>1. bk[x] \in Seq(Ids) /\ new_bucket[x] = IF x = t[w] THEN Append(bk[x], w) ELSE bk[x]
      BY <1>3, <2>1
    <3> HIDE DEF w
    <3> QED
      BY <1>2, <3>1, AppendFacts
  <2>3. new_bucket \in [Ids -> Seq(Ids)]
    <3>1. Append(bk[t[w]], w) \in Seq(Ids)
      BY <2>1, <2>2
    <3> QED
      BY <1>3, <3>1
  <2> HIDE DEF new_bucket
  <2>4. ASSUME NEW x \in Ids PROVE ToSet(new_bucket[x]) = {v \in R : k - 1 < idx(v) /\ t[v] = x}
    <3>1. ToSet(bk[x]) = {v \in R : k < idx(v) /\ s[v] = x}
      BY <1>3
    <3>2. {v \in R : k - 1 < idx(v) /\ t[v] = x}
          = {v \in R : k < idx(v) /\ s[v] = x} \cup (IF x = t[w] THEN {w} ELSE {})
      <4>1. \A v \in R : k - 1 < idx(v) /\ t[v] = x
              <=> (k < idx(v) /\ s[v] = x) \/ (v = w /\ x = t[w])
        <5> SUFFICES ASSUME NEW v \in R
                     PROVE k - 1 < idx(v) /\ t[v] = x <=> (k < idx(v) /\ s[v] = x) \/ (v = w /\ x = t[w])
          OBVIOUS
        <5>1. CASE v = w
          BY <1>2, <1>7, <5>1
        <5>2. CASE v # w
          BY <1>2, <1>5, <1>7, <5>2 DEF t
        <5> QED
          BY <5>1, <5>2
      <4> QED
        BY <1>2, <4>1
    <3> QED
      BY <2>2, <3>1, <3>2
  <2> QED
    BY <2>3, <2>4
<1> HIDE DEF new_bucket
<1>11. p \in R /\ p \in Ids /\ idx(p) < k
  BY <1>1, <1>2, ParentFacts DEF idx
<1>12. /\ BucketAcc(t, k - 1, two)
       /\ \A v \in ToSet(new_bucket[p]) : GoodDom(t, v, two.dom[v])
       /\ \A b \in Ids \ ToSet(new_bucket[p]) : two.dom[b] = d[b]
  <2> DEFINE vs == new_bucket[p]
             m == k - 1
  <2>1. vs \in Seq(Ids) /\ ToSet(vs) = {v \in R : m < idx(v) /\ t[v] = p}
    BY <1>10, <1>11
  <2>2. m \in Nat /\ idx(w) = m + 1 /\ SemiSoFar(m, t) /\ IsForest(graph, blocks, parent, m, t, linked)
    BY <1>2, <1>8, <1>9
  <2> HIDE DEF vs, m, linked, w
  <2>3. LET tw == OverBucket(linked, t, d, parent[w], vs)
        IN  /\ BucketAcc(t, m, tw)
            /\ \A v \in ToSet(vs) : GoodDom(t, v, tw.dom[v])
            /\ \A b \in Ids \ ToSet(vs) : tw.dom[b] = d[b]
    BY <1>1, <1>2, <1>3, <2>1, <2>2, OverBucketFacts
  <2> QED
    BY <2>3 DEF vs, m
<1> HIDE DEF two
<1>13. ASSUME NEW v \in R, k - 1 < idx(v), \A u \in Ids : OnWay(parent, t[v], v, u) => k - 1 < idx(u)
       PROVE  GoodDom(t, v, two.dom[v])
  <2>1. v \in Ids /\ parent \in [Ids -> Ids \cup {None}]
    BY <1>1, <1>2 DEF IsDfsTree
  <2>2. CASE t[v] = p
    <3>1. v \in ToSet(new_bucket[p])
      BY <1>10, <1>11, <1>13, <2>2
    <3> QED
      BY <1>12, <3>1
  <2>3. CASE t[v] # p
    <3>1. ASSUME OnWay(parent, t[v], v, w) PROVE FALSE
      <4>1. Anc(parent, t[v], w) /\ w # t[v] /\ Anc(parent, w, v)
        BY <3>1 DEF OnWay
      <4>2. Anc(parent, t[v], p)
        BY <1>2, <2>1, <4>1, AncUp
      <4>3. Anc(parent, p, w)
        BY <1>2, <1>11, <2>1, AncFacts, FlowGraphAssumption
      <4>4. Anc(parent, p, v)
        BY <1>2, <1>11, <2>1, <4>1, <4>3, AncFacts
      <4>5. OnWay(parent, t[v], v, p)
        BY <1>11, <2>3, <4>2, <4>4 DEF OnWay
      <4>6. k - 1 < idx(p)
        BY <1>11, <1>13, <4>5
      <4> QED
        BY <1>2, <1>11, <4>6
    <3>2. v # w
      <4>1. v = w => OnWay(parent, t[v], v, w)
        BY <1>2, <1>6, <2>1, AncFacts DEF OnWay
      <4> QED
        BY <3>1, <4>1
    <3>3. t[v] = s[v] /\ k < idx(v)
      BY <1>5, <1>7, <1>13, <2>1, <3>2 DEF t
    <3>4. \A u \in Ids : OnWay(parent, s[v], v, u) => k < idx(u) /\ t[u] = s[u]
      <4> SUFFICES ASSUME NEW u \in Ids, OnWay(parent, s[v], v, u) PROVE k < idx(u) /\ t[u] = s[u]
        OBVIOUS
      <4>1. u # w
        BY <3>1, <3>3
      <4>2. u \in R
        BY <1>1, AncBefore DEF OnWay
      <4>3. k - 1 < idx(u)
        BY <1>13, <3>3
      <4> QED
        BY <1>5, <1>7, <4>1, <4>2, <4>3 DEF t
    <3>5. GoodDom(s, v, d[v])
      BY <1>3, <3>3, <3>4
    <3>6. GoodDom(t, v, d[v])
      BY <1>1, <3>3, <3>4, <3>5, SameGoodDom
    <3>7. v \notin ToSet(new_bucket[p])
      BY <1>10, <1>11, <2>3
    <3> QED
      BY <1>12, <2>1, <3>6, <3>7
  <2> QED
    BY <2>2, <2>3
<1>14. two.dom \in [Ids -> Ids \cup {None}] /\ IsForest(graph, blocks, parent, k - 1, t, two.forest)
  BY <1>12 DEF BucketAcc
<1>15. SdomAt(k - 1, t, two.forest, new_bucket, two.dom)
  BY <1>8, <1>10, <1>13, <1>14 DEF SdomAt
<1> QED
  BY <1>15 DEF two, new_bucket, t, one

-----------------------------------------------------------------------------
\* The nodes taken forwards.

DomsAt(k, d, im) ==
  /\ SemiSoFar(1, semi)
  /\ d \in [Ids -> Ids \cup {None}] /\ im \in [Ids -> Ids \cup {None}]
  /\ \A v \in Reachable(graph) \ {Start} :
       IF idx(v) < k THEN IsIdom(graph, d[v], v) /\ im[v] = d[v] ELSE GoodDom(semi, v, d[v])
  /\ \A b \in Ids : b \notin Reachable(graph) \/ b = Start \/ k <= idx(b) => im[b] = None

\* What a node keeps, relative or not, gives its immediate dominator, once
\* those of all the earlier nodes are known.
LEMMA FinalDomIsIdom ==
  ASSUME graph \in Graphs, IsDfsTree(graph, blocks, parent), NEW k \in 2 .. Len(blocks), NEW im,
         DomsAt(k, dom, im)
  PROVE  FinalDom(blocks[k]) \in Ids /\ IsIdom(graph, FinalDom(blocks[k]), blocks[k])
<1> DEFINE R == Reachable(graph)
           w == blocks[k]
           d == dom[w]
<1>1. /\ k \in Nat /\ w \in R \ {Start} /\ idx(w) = k
      /\ \A b \in R : b \in Ids /\ idx(b) \in Nat /\ (idx(b) = k => b = w)
      /\ \A b \in R \ {Start} : 1 < idx(b)
  <2>1. /\ Len(blocks) \in Nat /\ \A b \in R : b \in Ids /\ idx(b) \in 1 .. Len(blocks)
        /\ \A j \in 1 .. Len(blocks) : blocks[j] \in R /\ idx(blocks[j]) = j
        /\ \A b \in R : \A c \in R : idx(b) = idx(c) => b = c
    BY IdxFacts DEF idx
  <2>2. Start \in R /\ idx(Start) = 1
    BY ParentFacts DEF idx
  <2>3. k \in 1 .. Len(blocks) /\ k # 1 /\ k \in Nat
    BY <2>1
  <2>4. w \in R /\ idx(w) = k
    BY <2>1, <2>3
  <2>5. w # Start
    BY <2>2, <2>3, <2>4
  <2>6. \A b \in R \ {Start} : idx(b) # 1 /\ idx(b) \in Nat /\ idx(b) # 0
    BY <2>1, <2>2
  <2>7. \A b \in R \ {Start} : 1 < idx(b)
    BY <2>6
  <2> QED
    BY <2>1, <2>3, <2>4, <2>5, <2>7
<1>2. /\ SemiType(graph, semi)
      /\ \A x \in R \ {Start} : IsSemi(graph, blocks, semi[x], x)
  <2> SUFFICES ASSUME NEW x \in R \ {Start} PROVE SemiType(graph, semi) /\ IsSemi(graph, blocks, semi[x], x)
    BY DEF DomsAt, SemiSoFar
  <2>1. ~(idx(x) <= 1)
    BY <1>1
  <2> QED
    BY <2>1 DEF DomsAt, SemiSoFar
<1>3. \A x \in R : semi[x] \in R
  BY <1>2 DEF SemiType
<1>4. GoodDom(semi, w, d)
  <2>1. ~(idx(w) < k)
    BY <1>1
  <2> HIDE DEF w
  <2> QED
    BY <1>1, <2>1 DEF DomsAt
<1>5. FinalDom(w) = IF idx(d) # idx(semi[w]) THEN dom[d] ELSE d
  BY DfsIdx DEF FinalDom, idx
<1> HIDE DEF w, d
<1>6. CASE d = semi[w] /\ \A u \in Ids : OnWay(parent, semi[w], w, u) => idx(semi[w]) <= idx(semi[u])
  <2>1. ASSUME NEW u, OnWay(parent, semi[w], w, u), NEW a \in Cands(graph, blocks, u)
        PROVE  idx(semi[w]) <= idx(a)
    <3>1. u \in Ids /\ u \in R
      BY <1>1, <2>1, AncBefore DEF OnWay
    <3>2. a \in R /\ u # Start
      BY <2>1, <3>1, CandsAbove
    <3>3. idx(semi[u]) <= idx(a)
      BY <1>2, <2>1, <3>1, <3>2 DEF IsSemi, idx
    <3>4. idx(semi[w]) <= idx(semi[u])
      BY <1>6, <2>1, <3>1
    <3> QED
      BY <1>1, <1>3, <3>1, <3>2, <3>3, <3>4
  <2>2. IsSemi(graph, blocks, semi[w], w)
    BY <1>1, <1>2
  <2> DEFINE s == semi[w]
  <2>3. s \in Ids
    BY <1>1, <1>3
  <2>4. IsIdom(graph, s, w)
    <3>1. \A u : OnWay(parent, s, w, u) => \A a \in Cands(graph, blocks, u) : Idx(blocks, s) <= Idx(blocks, a)
      BY <2>1 DEF idx
    <3>2. IsSemi(graph, blocks, s, w) /\ w \in R
      BY <1>1, <2>2
    <3> HIDE DEF s
    <3> QED
      BY <3>1, <3>2, SemiIsIdom
  <2> QED
    BY <1>5, <1>6, <2>3, <2>4 DEF w
<1>7. CASE /\ OnWay(parent, semi[w], w, d) /\ idx(semi[d]) < idx(semi[w])
           /\ \A u \in Ids : OnWay(parent, semi[w], w, u) => idx(semi[d]) <= idx(semi[u])
  <2>1. d \in R /\ Anc(parent, semi[w], d) /\ d # semi[w] /\ Anc(parent, d, w) /\ d # w
    <3>1. d # w
      <4>1. idx(semi[w]) \in Nat
        BY <1>1, <1>3
      <4> QED
        BY <1>7, <4>1
    <3> QED
      BY <1>1, <1>7, <3>1, AncBefore DEF OnWay
  <2>2. idx(semi[w]) < idx(d) /\ idx(d) < k
    BY <1>1, <2>1, AncBefore DEF idx
  <2>3. d # Start
    <3>1. idx(semi[w]) \in Nat /\ idx(semi[w]) # 0 /\ idx(Start) = 1
      <4>1. semi[w] \in R
        BY <1>1, <1>3
      <4> QED
        BY <4>1, IdxFacts, ParentFacts DEF idx
    <3> QED
      BY <2>2, <3>1
  <2>4. IsIdom(graph, dom[d], d)
    BY <2>1, <2>2, <2>3 DEF DomsAt
  <2>5. IsIdom(graph, dom[d], w)
    <3>1. \A v : OnWay(parent, semi[w], w, v) => Idx(blocks, semi[d]) <= Idx(blocks, semi[v])
      BY <1>7 DEF OnWay, idx
    <3>2. /\ w \in R /\ w # Start /\ OnWay(parent, semi[w], w, d)
          /\ \A y \in R \ {Start} : IsSemi(graph, blocks, semi[y], y)
      BY <1>1, <1>2, <1>7
    <3> DEFINE i == dom[d]
    <3>3. IsIdom(graph, i, d)
      BY <2>4
    <3> HIDE DEF i
    <3>4. IsIdom(graph, i, w)
      BY <3>1, <3>2, <3>3, IdomOfBestOnWay
    <3> QED
      BY <3>4 DEF i
  <2>6. FinalDom(w) = dom[d]
    <3>1. idx(d) # idx(semi[w])
      BY <1>1, <1>3, <2>1, <2>2
    <3> QED
      BY <1>5, <3>1
  <2>7. dom[d] \in Ids
    BY <1>1, <2>5 DEF IsIdom, StrictDoms
  <2> QED
    BY <2>5, <2>6, <2>7 DEF w
<1> QED
  BY <1>4, <1>6, <1>7 DEF GoodDom, w

\* One turn of the loop of ComputeDoms.
LEMMA DomTurn ==
  ASSUME graph \in Graphs, IsDfsTree(graph, blocks, parent), NEW k \in 2 .. Len(blocks), NEW im,
         DomsAt(k, dom, im)
  PROVE  DomsAt(k + 1, [dom EXCEPT ![blocks[k]] = FinalDom(blocks[k])],
                       [im EXCEPT ![blocks[k]] = FinalDom(blocks[k])])
<1> DEFINE R == Reachable(graph)
           w == blocks[k]
           x == FinalDom(w)
           d == [dom EXCEPT ![w] = x]
           jm == [im EXCEPT ![w] = x]
<1>1. /\ k \in Nat /\ w \in R /\ idx(w) = k /\ w \in Ids
      /\ \A b \in R : b \in Ids /\ idx(b) \in Nat /\ (idx(b) = k => b = w)
  <2>1. /\ Len(blocks) \in Nat /\ \A b \in R : b \in Ids /\ idx(b) \in 1 .. Len(blocks)
        /\ \A j \in 1 .. Len(blocks) : blocks[j] \in R /\ idx(blocks[j]) = j
        /\ \A b \in R : \A c \in R : idx(b) = idx(c) => b = c
    BY IdxFacts DEF idx
  <2>3. k \in 1 .. Len(blocks) /\ k \in Nat
    BY <2>1
  <2>4. w \in R /\ idx(w) = k
    BY <2>1, <2>3
  <2> QED
    BY <2>1, <2>3, <2>4
<1>2. x \in Ids /\ IsIdom(graph, x, w)
  BY FinalDomIsIdom
<1>3. /\ SemiSoFar(1, semi) /\ dom \in [Ids -> Ids \cup {None}] /\ im \in [Ids -> Ids \cup {None}]
      /\ \A v \in R \ {Start} :
           IF idx(v) < k THEN IsIdom(graph, dom[v], v) /\ im[v] = dom[v] ELSE GoodDom(semi, v, dom[v])
      /\ \A b \in Ids : b \notin R \/ b = Start \/ k <= idx(b) => im[b] = None
  BY DEF DomsAt
<1>4. w # Start
  <2>1. idx(Start) = 1 /\ k # 1
    BY ParentFacts DEF idx
  <2> QED
    BY <1>1, <2>1
<1> HIDE DEF w, x
<1>5. /\ d \in [Ids -> Ids \cup {None}] /\ jm \in [Ids -> Ids \cup {None}]
      /\ d[w] = x /\ jm[w] = x /\ \A b \in Ids \ {w} : d[b] = dom[b] /\ jm[b] = im[b]
  BY <1>1, <1>2, <1>3
<1> HIDE DEF d, jm
<1>6. ASSUME NEW v \in R \ {Start}
      PROVE  IF idx(v) < k + 1 THEN IsIdom(graph, d[v], v) /\ jm[v] = d[v] ELSE GoodDom(semi, v, d[v])
  <2>1. CASE v = w
    BY <1>1, <1>2, <1>5, <2>1
  <2>2. CASE v # w
    <3>1. idx(v) # k /\ idx(v) \in Nat /\ v \in Ids
      BY <1>1, <2>2
    <3>2. idx(v) < k + 1 <=> idx(v) < k
      BY <1>1, <3>1
    <3> QED
      BY <1>3, <1>5, <2>2, <3>1, <3>2
  <2> QED
    BY <2>1, <2>2
<1>7. ASSUME NEW b \in Ids, b \notin R \/ b = Start \/ k + 1 <= idx(b) PROVE jm[b] = None
  <2>1. b # w
    BY <1>1, <1>4, <1>7
  <2>2. b \notin R \/ b = Start \/ k <= idx(b)
    BY <1>1, <1>7
  <2> QED
    BY <1>3, <1>5, <2>1, <2>2
<1>8. DomsAt(k + 1, d, jm)
  BY <1>3, <1>5, <1>6, <1>7 DEF DomsAt
<1> QED
  BY <1>8 DEF d, jm, x, w

-----------------------------------------------------------------------------
\* The phases after FillTree.

Forest == [ancestor |-> ancestor, label |-> label]

SdomsInv ==
  phase = "ComputeSdoms" =>
    /\ TreeBuilt /\ at \in 1 .. Len(blocks)
    /\ SdomAt(at, semi, Forest, bucket, dom)
    /\ imm_dominator_ = AllNull

DomsInv ==
  phase = "ComputeDoms" =>
    /\ TreeBuilt /\ at \in 2 .. Len(blocks) + 1
    /\ DomsAt(at, dom, imm_dominator_)

DoneInv ==
  phase = "done" => TreeBuilt /\ DomsAt(Len(blocks) + 1, dom, imm_dominator_)

BackInv == SdomsInv /\ DomsInv /\ DoneInv

\* Each of the steps of the phases after FillTree keeps BackInv.
LEMMA SdomBackInv == ASSUME BackInv, ComputeSdom PROVE BackInv'
<1> DEFINE w == blocks[at]
           p == parent[w]
           one == OverPreds(Forest, semi, w, pred[w])
           linked == [one.forest EXCEPT !.ancestor[w] = p]
           new_bucket == [bucket EXCEPT ![one.semi[w]] = Append(@, w)]
           two == OverBucket(linked, one.semi, dom, p, new_bucket[p])
<1>1. /\ TreeBuilt /\ at \in 2 .. Len(blocks) /\ SdomAt(at, semi, Forest, bucket, dom)
      /\ imm_dominator_ = AllNull
  <2>1. at \in 1 .. Len(blocks) /\ at > 1
    BY DEF BackInv, SdomsInv, ComputeSdom
  <2>2. at \in 2 .. Len(blocks)
    BY <2>1
  <2> QED
    BY <2>2 DEF BackInv, SdomsInv, ComputeSdom
<1>2. SdomAt(at - 1, one.semi, two.forest, new_bucket, two.dom)
  BY <1>1, SdomTurn
<1>3. /\ semi' = one.semi /\ bucket' = new_bucket /\ dom' = two.dom /\ at' = at - 1
      /\ ancestor' = two.forest.ancestor /\ label' = two.forest.label
      /\ phase = "ComputeSdoms" /\ UNCHANGED <<graph, blocks, phase, parent, pred, imm_dominator_>>
  BY DEF ComputeSdom, Forest, vars
<1> HIDE DEF two, one, new_bucket
<1>4. Forest' = two.forest
  <2>1. two.forest \in Forests
    BY <1>2 DEF SdomAt, IsForest
  <2>2. \A h \in Forests : h = [ancestor |-> h.ancestor, label |-> h.label]
    BY DEF Forests
  <2> QED
    BY <1>3, <2>1, <2>2 DEF Forest
<1>5. SdomAt(at, semi, Forest, bucket, dom)'
  BY <1>2, <1>3, <1>4 DEF SdomAt, SemiSoFar, SemiType, idx, GoodDom
<1>6. TreeBuilt'
  BY <1>1, <1>3 DEF TreeBuilt
<1>7. at' \in 1 .. Len(blocks')
  BY <1>1, <1>3
<1>8. imm_dominator_' = AllNull' /\ phase' = "ComputeSdoms"
  BY <1>1, <1>3 DEF AllNull
<1> QED
  BY <1>5, <1>6, <1>7, <1>8 DEF BackInv, SdomsInv, DomsInv, DoneInv

LEMMA SdomsDoneBackInv == ASSUME BackInv, SdomsDone PROVE BackInv'
<1>1. /\ TreeBuilt /\ at \in 1 .. Len(blocks) /\ at <= 1 /\ SdomAt(at, semi, Forest, bucket, dom)
      /\ imm_dominator_ = AllNull
  BY DEF BackInv, SdomsInv, SdomsDone
<1>2. /\ phase' = "ComputeDoms" /\ at' = 2
      /\ UNCHANGED <<graph, blocks, parent, semi, dom, pred, imm_dominator_>>
  BY DEF SdomsDone, vars, nodes
<1>3. at = 1 /\ Len(blocks) \in Nat /\ 2 \in 2 .. Len(blocks) + 1
  <2>1. Len(blocks) \in Nat
    BY <1>1, IdxFacts DEF TreeBuilt
  <2> QED
    BY <1>1, <2>1
<1>4. graph \in Graphs /\ IsDfsTree(graph, blocks, parent)
  BY <1>1 DEF TreeBuilt
<1>5. DomsAt(2, dom, imm_dominator_)
  <2>1. \A b \in Reachable(graph) : idx(b) \in Nat /\ idx(b) # 0 /\ b \in Ids
    BY <1>4, IdxFacts DEF idx
  <2>2. Start \in Reachable(graph) /\ idx(Start) = 1 /\ \A b \in Reachable(graph) : idx(b) = 1 => b = Start
    BY <1>4, IdxFacts, ParentFacts DEF idx
  <2>3. ASSUME NEW v \in Reachable(graph) \ {Start} PROVE ~(idx(v) < 2) /\ GoodDom(semi, v, dom[v])
    <3>1. 1 < idx(v) /\ ~(idx(v) < 2)
      BY <2>1, <2>2
    <3>2. \A u \in Ids : OnWay(parent, semi[v], v, u) => 1 < idx(u)
      <4> SUFFICES ASSUME NEW u \in Ids, OnWay(parent, semi[v], v, u) PROVE 1 < idx(u)
        OBVIOUS
      <4>1. u \in Reachable(graph) /\ Anc(parent, semi[v], u) /\ u # semi[v]
        BY <1>4, AncBefore DEF OnWay
      <4>2. semi[v] \in Reachable(graph) /\ idx(semi[v]) < idx(u)
        BY <1>4, <4>1, AncBefore DEF idx
      <4> QED
        BY <2>1, <4>1, <4>2
    <3> QED
      BY <1>1, <1>3, <3>1, <3>2 DEF SdomAt
  <2>4. AllNull \in [Ids -> Ids \cup {None}] /\ \A b \in Ids : AllNull[b] = None
    BY DEF AllNull
  <2> QED
    BY <1>1, <1>3, <2>3, <2>4 DEF DomsAt, SdomAt
<1>6. DomsAt(at, dom, imm_dominator_)'
  BY <1>2, <1>5 DEF DomsAt, SemiSoFar, SemiType, idx, GoodDom
<1>7. TreeBuilt'
  BY <1>1, <1>2 DEF TreeBuilt
<1> QED
  BY <1>2, <1>3, <1>6, <1>7 DEF BackInv, SdomsInv, DomsInv, DoneInv

LEMMA DomBackInv == ASSUME BackInv, ComputeDom PROVE BackInv'
<1> DEFINE w == blocks[at]
           d == [dom EXCEPT ![w] = FinalDom(w)]
           jm == [imm_dominator_ EXCEPT ![w] = FinalDom(w)]
<1>1. TreeBuilt /\ at \in 2 .. Len(blocks) /\ DomsAt(at, dom, imm_dominator_)
  <2>1. at \in 2 .. Len(blocks) + 1 /\ at <= Len(blocks)
    BY DEF BackInv, DomsInv, ComputeDom
  <2>2. at \in 2 .. Len(blocks)
    BY <2>1
  <2> QED
    BY <2>2 DEF BackInv, DomsInv, ComputeDom
<1>2. /\ dom' = d /\ imm_dominator_' = jm /\ at' = at + 1 /\ phase = "ComputeDoms"
      /\ UNCHANGED <<graph, blocks, phase, parent, semi, pred>>
  BY DEF ComputeDom, vars
<1>3. graph \in Graphs /\ IsDfsTree(graph, blocks, parent)
  BY <1>1 DEF TreeBuilt
<1>4. DomsAt(at + 1, d, jm)
  BY <1>1, <1>3, DomTurn
<1> HIDE DEF d, jm
<1>5. DomsAt(at, dom, imm_dominator_)'
  BY <1>2, <1>4 DEF DomsAt, SemiSoFar, SemiType, idx, GoodDom
<1>6. TreeBuilt'
  BY <1>1, <1>2 DEF TreeBuilt
<1>7. at' \in 2 .. Len(blocks') + 1
  BY <1>1, <1>2
<1> QED
  BY <1>2, <1>5, <1>6, <1>7 DEF BackInv, SdomsInv, DomsInv, DoneInv

LEMMA DomsDoneBackInv == ASSUME BackInv, DomsDone PROVE BackInv'
<1>1. TreeBuilt /\ at \in 2 .. Len(blocks) + 1 /\ at > Len(blocks) /\ DomsAt(at, dom, imm_dominator_)
  BY DEF BackInv, DomsInv, DomsDone
<1>2. phase' = "done" /\ UNCHANGED <<graph, blocks, parent, semi, dom, pred, imm_dominator_>>
  BY DEF DomsDone, vars, nodes
<1>3. at = Len(blocks) + 1
  <2>1. Len(blocks) \in Nat
    BY <1>1, IdxFacts DEF TreeBuilt
  <2> QED
    BY <1>1, <2>1
<1>4. DomsAt(Len(blocks) + 1, dom, imm_dominator_)'
  BY <1>1, <1>2, <1>3 DEF DomsAt, SemiSoFar, SemiType, idx, GoodDom
<1>5. TreeBuilt'
  BY <1>1, <1>2 DEF TreeBuilt
<1> QED
  BY <1>2, <1>4, <1>5 DEF BackInv, SdomsInv, DomsInv, DoneInv

\* What BackInv says in each of the phases.
LEMMA SemidominatorsListed == BackInv => SemidominatorsExact
<1> SUFFICES ASSUME BackInv, phase = "ComputeSdoms", NEW k \in at + 1 .. Len(blocks)
             PROVE  /\ semi[blocks[k]] \in Semidominators(blocks[k])
                    /\ \A a \in Semidominators(blocks[k]) : dfs_idx(semi[blocks[k]]) <= dfs_idx(a)
  BY DEF SemidominatorsExact
<1> DEFINE b == blocks[k]
<1>1. TreeBuilt /\ at \in 1 .. Len(blocks) /\ SemiSoFar(at, semi)
  BY DEF BackInv, SdomsInv, SdomAt
<1>2. graph \in Graphs /\ IsDfsTree(graph, blocks, parent) /\ Len(blocks) \in Nat
  BY <1>1, IdxFacts DEF TreeBuilt
<1>3. b \in Reachable(graph) /\ ~(idx(b) <= at)
  <2>1. k \in 1 .. Len(blocks) /\ ~(k <= at)
    BY <1>1, <1>2
  <2> QED
    BY <1>2, <2>1, IdxFacts DEF idx
<1>4. IsSemi(graph, blocks, semi[b], b)
  <2> HIDE DEF b
  <2> QED
    BY <1>1, <1>3 DEF SemiSoFar
<1>5. Semidominators(b) = Cands(graph, blocks, b)
  <2> HIDE DEF b
  <2> QED
    BY DfsIdx DEF Semidominators, Cands, EnteredBefore, LeadsTowards
<1> QED
  BY <1>4, <1>5, DfsIdx DEF IsSemi

LEMMA ImmDominatorsListed == BackInv => ImmDominatorsExact
<1> SUFFICES ASSUME BackInv, phase = "done", NEW b \in Ids
             PROVE  imm_dominator_[b] = IF b = Start \/ b \notin Reachable(graph) THEN None
                                        ELSE CHOOSE d \in StrictDominators(b) :
                                               \A c \in StrictDominators(b) : Dominates(graph, c, d)
  BY DEF ImmDominatorsExact
<1>1. TreeBuilt /\ DomsAt(Len(blocks) + 1, dom, imm_dominator_)
  BY DEF BackInv, DoneInv
<1>2. graph \in Graphs /\ IsDfsTree(graph, blocks, parent) /\ Len(blocks) \in Nat
  BY <1>1, IdxFacts DEF TreeBuilt
<1>3. CASE b = Start \/ b \notin Reachable(graph)
  BY <1>1, <1>3 DEF DomsAt
<1>4. CASE b \in Reachable(graph) \ {Start}
  <2>1. idx(b) < Len(blocks) + 1
    <3>1. idx(b) \in 1 .. Len(blocks)
      BY <1>2, <1>4, IdxFacts DEF idx
    <3> QED
      BY <1>2, <3>1
  <2>2. IsIdom(graph, imm_dominator_[b], b)
    BY <1>1, <1>4, <2>1 DEF DomsAt
  <2> DEFINE D == StrictDominators(b)
             Imm(d) == \A c \in D : Dominates(graph, c, d)
             i == imm_dominator_[b]
  <2>3. D = StrictDoms(graph, b)
    BY DEF StrictDominators, StrictDoms
  <2>4. \A d : IsIdom(graph, d, b) <=> d \in D /\ Imm(d)
    <3> HIDE DEF D
    <3> QED
      BY <2>3 DEF IsIdom
  <2>5. \A d : IsIdom(graph, d, b) => d = i
    BY <1>2, <1>4, <2>2, OneIdom
  <2> HIDE DEF D, Imm, i
  <2>6. i = CHOOSE d \in D : Imm(d)
    <3>1. i \in D /\ Imm(i) /\ \A d \in D : Imm(d) => d = i
      BY <2>2, <2>4, <2>5 DEF i
    <3> QED
      BY <3>1
  <2> QED
    BY <1>4, <2>6 DEF D, Imm, i
<1> QED
  BY <1>3, <1>4

-----------------------------------------------------------------------------
\* The depth-first tree while it is built.

\* As IsDfsTree, but for the blocks that have not been entered.
IsTreePart(g, l, p) ==
  /\ l \in Seq(Ids) /\ IsInjective(l) /\ l # <<>> /\ l[1] = Start
  /\ p \in [Ids -> Ids \cup {None}] /\ p[Start] = None /\ \A b \in Ids \ ToSet(l) : p[b] = None
  /\ \A k \in 1 .. Len(l) - 1 :
       /\ p[l[k + 1]] \in {l[j] : j \in 1 .. k} /\ l[k + 1] \in SuccSet(g, p[l[k + 1]])
       /\ Anc(p, p[l[k + 1]], l[k])
  /\ \A b, c \in ToSet(l) : c \in SuccSet(g, b) /\ Idx(l, b) < Idx(l, c) => Anc(p, b, c)

\* A place in a list without repetition.
LEMMA IdxOfListed ==
  ASSUME NEW l \in Seq(Ids), IsInjective(l)
  PROVE  /\ \A k \in 1 .. Len(l) : Idx(l, l[k]) = k
         /\ \A b \in ToSet(l) : b \in Ids /\ Idx(l, b) \in 1 .. Len(l) /\ l[Idx(l, b)] = b
<1>1. DOMAIN l = 1 .. Len(l) /\ ToSet(l) = {l[k] : k \in 1 .. Len(l)} /\ ToSet(l) \subseteq Ids
  BY ToSetFacts
<1>2. \A j, k \in 1 .. Len(l) : l[j] = l[k] => j = k
  BY <1>1 DEF IsInjective
<1>3. ASSUME NEW k \in 1 .. Len(l) PROVE Idx(l, l[k]) = k
  <2>1. \E j \in DOMAIN l : l[j] = l[k]
    BY <1>1
  <2>2. Idx(l, l[k]) \in DOMAIN l /\ l[Idx(l, l[k])] = l[k]
    BY <2>1 DEF Idx
  <2> QED
    BY <1>1, <1>2, <2>2
<1> QED
  BY <1>1, <1>3

\* What is above a block stays above it when another block gets its parent.
LEMMA AncGrows ==
  ASSUME NEW p \in [Ids -> Ids \cup {None}], NEW w \in Ids, p[w] = None, NEW a
  PROVE  \A b, c : Anc(p, b, c) => Anc([p EXCEPT ![w] = a], b, c)
<1> DEFINE r == [p EXCEPT ![w] = a]
<1>1. \A c \in Ids : c # w => r[c] = p[c]
  OBVIOUS
<1> HIDE DEF r
<1> SUFFICES ASSUME NEW b, NEW c, Anc(p, b, c), NEW S \in SUBSET Ids, c \in S,
                    \A x \in S : r[x] = None \/ r[x] \in S
             PROVE  b \in S
  BY DEF Anc, r
<1>2. \A x \in S : p[x] = None \/ p[x] \in S
  BY <1>1
<1> QED
  BY <1>2, Zenon DEF Anc

\* The block entered next hangs from the active one, which is above the last that
\* was entered and below all that lead to the new one.
LEMMA TreeGrows ==
  ASSUME NEW g \in Graphs, NEW l, NEW p, IsTreePart(g, l, p), NEW w \in Ids \ ToSet(l),
         NEW a \in ToSet(l), w \in SuccSet(g, a), Anc(p, a, l[Len(l)]),
         \A b \in ToSet(l) : w \in SuccSet(g, b) => Anc(p, b, a)
  PROVE  IsTreePart(g, Append(l, w), [p EXCEPT ![w] = a])
<1> DEFINE m == Append(l, w)
           r == [p EXCEPT ![w] = a]
<1>1. /\ l \in Seq(Ids) /\ IsInjective(l) /\ l # <<>> /\ l[1] = Start
      /\ p \in [Ids -> Ids \cup {None}] /\ p[Start] = None /\ \A b \in Ids \ ToSet(l) : p[b] = None
  BY DEF IsTreePart
<1>2. /\ Len(l) \in Nat \ {0} /\ ToSet(l) = {l[k] : k \in 1 .. Len(l)} /\ ToSet(l) \subseteq Ids
      /\ \A k \in 1 .. Len(l) : l[k] \in ToSet(l) /\ l[k] # w
  <2>1. Len(l) \in Nat /\ ToSet(l) = {l[k] : k \in 1 .. Len(l)} /\ ToSet(l) \subseteq Ids
    BY <1>1, ToSetFacts
  <2>2. Len(l) # 0
    BY <1>1
  <2> QED
    BY <2>1, <2>2
<1>3. /\ m \in Seq(Ids) /\ Len(m) = Len(l) + 1 /\ m[Len(l) + 1] = w
      /\ (\A k \in 1 .. Len(l) : m[k] = l[k]) /\ ToSet(m) = ToSet(l) \cup {w} /\ IsInjective(m)
  BY <1>1, AppendFacts, AppendInjective2
<1>4. /\ r \in [Ids -> Ids \cup {None}] /\ r[w] = a /\ (\A b \in Ids : b # w => r[b] = p[b])
      /\ \A b, c : Anc(p, b, c) => Anc(r, b, c)
  <2>1. p[w] = None /\ a \in Ids
    BY <1>1, <1>2
  <2> QED
    BY <1>1, <2>1, AncGrows
<1>5. /\ \A b \in ToSet(l) : Idx(m, b) = Idx(l, b) /\ Idx(l, b) \in 1 .. Len(l)
      /\ Idx(m, w) = Len(l) + 1
  <2>1. ASSUME NEW b \in ToSet(l) PROVE Idx(m, b) = Idx(l, b) /\ Idx(l, b) \in 1 .. Len(l)
    <3>1. Idx(l, b) \in 1 .. Len(l) /\ l[Idx(l, b)] = b
      BY <1>1, IdxOfListed
    <3>2. Idx(l, b) \in 1 .. Len(m) /\ m[Idx(l, b)] = b
      BY <1>2, <1>3, <3>1
    <3> HIDE DEF m
    <3>3. Idx(m, m[Idx(l, b)]) = Idx(l, b)
      BY <1>3, <3>2, IdxOfListed
    <3> QED
      BY <3>1, <3>2, <3>3
  <2>2. Idx(m, w) = Len(l) + 1
    <3> HIDE DEF m
    <3>1. Len(l) + 1 \in 1 .. Len(m) /\ m[Len(l) + 1] = w
      BY <1>2, <1>3
    <3>2. Idx(m, m[Len(l) + 1]) = Len(l) + 1
      BY <1>3, <3>1, IdxOfListed
    <3> QED
      BY <3>1, <3>2
  <2> QED
    BY <2>1, <2>2
<1> HIDE DEF m, r
<1>6. Start # w /\ Start \in Ids
  <2>1. 1 \in 1 .. Len(l)
    BY <1>2
  <2> QED
    BY <1>1, <1>2, <2>1
<1>7. m # <<>> /\ m[1] = Start /\ r[Start] = None /\ \A b \in Ids \ ToSet(m) : r[b] = None
  <2>1. 1 \in 1 .. Len(l) /\ Len(m) # 0
    BY <1>2, <1>3
  <2> QED
    BY <1>1, <1>3, <1>4, <1>6, <2>1
<1>8. ASSUME NEW k \in 1 .. Len(m) - 1
      PROVE  /\ r[m[k + 1]] \in {m[j] : j \in 1 .. k} /\ m[k + 1] \in SuccSet(g, r[m[k + 1]])
             /\ Anc(r, r[m[k + 1]], m[k])
  <2>1. CASE k = Len(l)
    <3>k. k \in 1 .. Len(l)
      BY <1>2, <2>1
    <3>s. {m[j] : j \in 1 .. k} = ToSet(l)
      <4>1. {m[j] : j \in 1 .. Len(l)} = {l[j] : j \in 1 .. Len(l)}
        BY <1>3
      <4> QED
        BY <1>2, <2>1, <4>1
    <3>1. m[k + 1] = w /\ r[m[k + 1]] = a /\ m[k] = l[k] /\ {m[j] : j \in 1 .. k} = ToSet(l)
      BY <1>3, <1>4, <2>1, <3>k, <3>s
    <3>a. Anc(r, a, l[Len(l)])
      BY <1>4, Zenon
    <3>2. Anc(r, a, l[k]) /\ a \in {m[j] : j \in 1 .. k} /\ w \in SuccSet(g, a)
      BY <2>1, <3>1, <3>a
    <3>3. m[k + 1] = w /\ r[w] = a /\ m[k] = l[k]
      BY <1>4, <3>1
    <3> QED
      BY <3>2, <3>3
  <2>2. CASE k # Len(l)
    <3>1. /\ k \in 1 .. Len(l) - 1 /\ k \in 1 .. Len(l) /\ k + 1 \in 1 .. Len(l)
          /\ 1 .. k \subseteq 1 .. Len(l)
      BY <1>2, <1>3, <2>2
    <3>2. m[k + 1] = l[k + 1] /\ m[k] = l[k] /\ {m[j] : j \in 1 .. k} = {l[j] : j \in 1 .. k}
      BY <1>3, <3>1
    <3>3. r[l[k + 1]] = p[l[k + 1]]
      BY <1>2, <1>4, <3>1
    <3>4. /\ p[l[k + 1]] \in {l[j] : j \in 1 .. k} /\ l[k + 1] \in SuccSet(g, p[l[k + 1]])
          /\ Anc(p, p[l[k + 1]], l[k])
      BY <3>1 DEF IsTreePart
    <3> QED
      BY <1>4, <3>2, <3>3, <3>4
  <2> QED
    BY <2>1, <2>2
<1>9. ASSUME NEW b \in ToSet(m), NEW c \in ToSet(m), c \in SuccSet(g, b), Idx(m, b) < Idx(m, c)
      PROVE  Anc(r, b, c)
  <2>1. CASE b = w
    <3>1. Idx(m, c) <= Len(l) + 1 /\ Idx(m, c) \in Nat
      BY <1>2, <1>3, <1>5
    <3> QED
      BY <1>2, <1>5, <1>9, <2>1, <3>1
  <2>2. CASE b \in ToSet(l) /\ c = w
    <3>1. Anc(r, b, a) /\ Anc(r, a, w)
      <4>1. Anc(p, b, a)
        BY <1>9, <2>2
      <4>2. r[w] # None /\ w \in Ids
        BY <1>2, <1>4, FlowGraphAssumption
      <4> QED
        BY <1>4, <4>1, <4>2, AncFacts
    <3>2. b \in Ids /\ a \in Ids /\ w \in Ids
      BY <1>2, <2>2
    <3> QED
      BY <1>4, <2>2, <3>1, <3>2, AncFacts
  <2>3. CASE b \in ToSet(l) /\ c \in ToSet(l)
    <3>1. Idx(l, b) < Idx(l, c)
      BY <1>5, <1>9, <2>3
    <3>2. Anc(p, b, c)
      BY <1>9, <2>3, <3>1 DEF IsTreePart
    <3> QED
      BY <1>4, <3>2
  <2> QED
    BY <1>3, <2>1, <2>2, <2>3
<1>10. IsTreePart(g, m, r)
  BY <1>3, <1>4, <1>7, <1>8, <1>9 DEF IsTreePart
<1> QED
  BY <1>10 DEF m, r

\* When all that can be reached has been entered, the tree is whole.
LEMMA TreeWhole ==
  ASSUME NEW g, NEW l, NEW p, IsTreePart(g, l, p), ToSet(l) = Reachable(g)
  PROVE  IsDfsTree(g, l, p)
<1>1. \A k \in 1 .. Len(l) : k = 1 <=> l[k] = Start
  <2>1. l \in Seq(Ids) /\ IsInjective(l) /\ l # <<>> /\ l[1] = Start
    BY DEF IsTreePart
  <2>2. Len(l) \in Nat \ {0} /\ 1 \in 1 .. Len(l) /\ DOMAIN l = 1 .. Len(l)
    BY <2>1
  <2> QED
    BY <2>1, <2>2 DEF IsInjective
<1> QED
  BY <1>1 DEF IsDfsTree, IsTreePart

-----------------------------------------------------------------------------
\* FillTree goes through the graph as DFS did, and builds the tree on the way.

\* The nodes that FillTree has entered.
Entered == {b \in Ids : semi[b] # None}

KeptNew ==
  /\ ancestor = AllNull /\ dom = AllNull /\ imm_dominator_ = AllNull
  /\ bucket = [b \in Ids |-> <<>>]

\* l is the list of the nodes in the order in which they were entered.
FillNodes(l) ==
  /\ IsTreePart(graph, l, parent) /\ ToSet(l) = Entered
  /\ semi \in [Ids -> Ids \cup {None}] /\ label = semi
  /\ \A b \in Entered : semi[b] = b

\* The calls are along the way down to the node that was entered last.
FillCalls(l) ==
  /\ stack # <<>>
  /\ \A k \in 1 .. Len(stack) : /\ stack[k].bb \in Entered
                                /\ ToSet(stack[k].todo) \subseteq SuccSet(graph, stack[k].bb)
  /\ \A j, k \in 1 .. Len(stack) : j <= k => Anc(parent, stack[j].bb, stack[k].bb)
  /\ Anc(parent, Active, l[Len(l)])

\* A predecessor is entered at each of its successors, once the loop is through with it.
FillPreds ==
  /\ pred \in [Ids -> Seq(Ids)]
  /\ \A w \in Ids : \A v \in ToSet(pred[w]) : v \in Entered /\ w \in Entered /\ w \in SuccSet(graph, v)
  /\ \A v \in Entered : \A w \in SuccSet(graph, v) : v \in ToSet(pred[w]) \/ LeftBehind(v, w)

\* What the walk of Preorder has yet to look at of each call's successors. The call
\* keeps a successor while it is entered, the walk does not.
Unseen(D) ==
  \A k \in 1 .. Len(stack) :
    \/ k = Len(stack) /\ D[k] = stack[k].todo
    \/ stack[k].todo # <<>> /\ Head(stack[k].todo) \in Entered /\ D[k] = Tail(stack[k].todo)

FillWalk(l) ==
  \A W : IsPreWalk(graph, W) =>
    \E m, q, D : Unseen(D) /\ WalkAt(W, l, Len(stack), D, m, q, Cardinality(Entered))

FillAt(l) == FillNodes(l) /\ FillCalls(l) /\ FillPreds /\ FillWalk(l)

\* DFS has listed the blocks.
DfsListed ==
  /\ TypeOK /\ pass = "DFS"
  /\ blocks = Preorder(graph) /\ ToSet(blocks) = Reachable(graph) /\ IsInjective(blocks)

FillInv == phase = "FillTree" => DfsListed /\ KeptNew /\ \E l : FillAt(l)

\* The nodes are new while DFS runs.
NodesNew ==
  /\ KeptNew /\ parent = AllNull /\ label = AllNull /\ semi = AllNull
  /\ pred = [b \in Ids |-> <<>>]

\* A block is above itself.
LEMMA SelfAbove == \A p, b : Anc(p, b, b)
  BY DEF Anc

\* FillTree enters the start block.
LEMMA StartFillInv ==
  ASSUME DfsListed, NodesNew, FillTree
  PROVE  FillInv'
<1> DEFINE l == <<Start>>
           todo == GetSuccessors(graph, Start)
<1>1. /\ stack' = <<[bb |-> Start, todo |-> todo]>>
      /\ label' = [label EXCEPT ![Start] = Start] /\ semi' = [semi EXCEPT ![Start] = Start]
      /\ UNCHANGED <<graph, pass, queue, visited, blocks, parent, ancestor, dom, bucket, pred,
                     imm_dominator_>>
  BY DEF FillTree, Call
<1>2. graph \in Graphs /\ Start \in Ids /\ None \notin Ids
  BY GraphFacts, FlowGraphAssumption DEF DfsListed
<1>3. /\ todo \in Seq(Ids) /\ ToSet(todo) = SuccSet(graph, Start)
  BY <1>2, SuccessorsInIds
<1> HIDE DEF todo
<1>4. DfsListed'
  <2>1. stack' \in Seq(Frames)
    BY <1>1, <1>2, <1>3 DEF Frames
  <2> QED
    BY <1>1, <2>1 DEF DfsListed, TypeOK
<1>5. KeptNew'
  BY <1>1 DEF NodesNew, KeptNew, AllNull
<1>6. /\ semi' \in [Ids -> Ids \cup {None}] /\ label' = semi' /\ Entered' = {Start}
      /\ semi'[Start] = Start
  BY <1>1, <1>2 DEF NodesNew, AllNull, Entered
<1>7. l \in Seq(Ids) /\ IsInjective(l) /\ l # <<>> /\ l[1] = Start /\ Len(l) = 1 /\ ToSet(l) = {Start}
  BY <1>2 DEF ToSet, IsInjective
<1> HIDE DEF l
<1>8. FillNodes(l)'
  <2>1. /\ parent' = parent /\ graph' = graph
        /\ parent \in [Ids -> Ids \cup {None}] /\ \A b \in Ids : parent[b] = None
    BY <1>1 DEF NodesNew, AllNull
  <2>2. Start \notin SuccSet(graph, Start) \/ ~(Idx(l, Start) < Idx(l, Start))
    <3>1. Idx(l, Start) \in 1 .. Len(l)
      BY <1>7, IdxOfListed
    <3> QED
      BY <1>7, <3>1
  <2>3. IsTreePart(graph, l, parent)
    BY <1>2, <1>7, <2>1, <2>2 DEF IsTreePart
  <2> QED
    BY <1>6, <1>7, <2>1, <2>3 DEF FillNodes
<1>9. /\ Len(stack') = 1 /\ stack' # <<>> /\ stack'[1].bb = Start /\ stack'[1].todo = todo
      /\ \A k \in 1 .. Len(stack') : k = 1
  BY <1>1
<1>10. FillCalls(l)'
  <2>1. Anc(parent', Start, Start)
    BY SelfAbove
  <2>2. Active' = Start /\ l[Len(l)] = Start /\ l' = l
    <3>1. Active' = stack'[Len(stack')].bb
      BY DEF Active
    <3>2. l' = l
      BY DEF l
    <3> QED
      BY <1>7, <1>9, <3>1, <3>2
  <2> QED
    BY <1>1, <1>3, <1>6, <1>9, <2>1, <2>2, Zenon DEF FillCalls
<1>11. FillPreds'
  <2>1. pred' \in [Ids -> Seq(Ids)] /\ \A b \in Ids : ToSet(pred'[b]) = {}
    BY <1>1 DEF NodesNew, ToSet
  <2>2. \A c \in SuccSet(graph, Start) : LeftBehind(Start, c)'
    BY <1>3, <1>9 DEF LeftBehind
  <2>3. graph' = graph /\ \A v \in Entered' : v = Start
    BY <1>1, <1>6
  <2> QED
    BY <2>1, <2>2, <2>3, Zenon DEF FillPreds
<1>12. FillWalk(l)'
  <2> SUFFICES ASSUME NEW W, IsPreWalk(graph, W)
               PROVE  \E m, q, D : Unseen(D)' /\ WalkAt(W, l, Len(stack'), D, m, q, Cardinality(Entered'))
    BY <1>1 DEF FillWalk, l
  <2>1. PICK D : D[1] = todo
    <3>1. [k \in {1} |-> todo][1] = todo
      OBVIOUS
    <3> QED
      BY <3>1
  <2>2. \A k \in 1 .. Len(stack') : k = Len(stack') /\ D[k] = stack'[k].todo
    BY <1>9, <2>1
  <2>3. Cardinality(Entered') = 1
    BY <1>6, FS_Singleton
  <2>4. WalkAt(W, l, 1, D, 1, D[1], 1)
    <3>1. D[1] = GetSuccessors(graph, Start)
      BY <2>1 DEF todo
    <3> QED
      BY <1>2, <3>1, WalkStarts DEF l
  <2>5. WalkAt(W, l, Len(stack'), D, 1, D[1], Cardinality(Entered'))
    BY <1>9, <2>3, <2>4
  <2>6. Unseen(D)'
    BY <2>2 DEF Unseen
  <2> QED
    BY <2>5, <2>6
<1>13. FillAt(l)'
  BY <1>8, <1>10, <1>11, <1>12 DEF FillAt
<1> QED
  BY <1>4, <1>5, <1>13 DEF FillInv

\* What the other steps of FillTree do, by index.
LEMMA FillDescendFacts ==
  ASSUME TypeOK, FillDescend
  PROVE  /\ stack # <<>> /\ Ahead # <<>> /\ Head(Ahead) \in Ids /\ semi[Head(Ahead)] = None
         /\ Head(Ahead) \in ToSet(Ahead)
         /\ stack' \in Seq(Frames) /\ Len(stack') = Len(stack) + 1
         /\ \A k \in 1 .. Len(stack) : stack'[k] = stack[k]
         /\ stack'[Len(stack) + 1].bb = Head(Ahead)
         /\ stack'[Len(stack) + 1].todo = GetSuccessors(graph, Head(Ahead))
         /\ parent' = [parent EXCEPT ![Head(Ahead)] = Active]
         /\ label' = [label EXCEPT ![Head(Ahead)] = Head(Ahead)]
         /\ semi' = [semi EXCEPT ![Head(Ahead)] = Head(Ahead)]
         /\ UNCHANGED <<graph, pass, queue, visited, blocks, phase, ancestor, dom, bucket, pred,
                        imm_dominator_>>
<1>1. stack # <<>> /\ Top.todo # <<>>
  BY DEF FillDescend
<1>2. /\ Active \in Ids /\ Ahead \in Seq(Ids) /\ Ahead # <<>> /\ Top.todo = Ahead /\ Top.bb = Active
  BY <1>1, TopFacts
<1>3. Head(Ahead) \in Ids /\ Head(Ahead) \in ToSet(Ahead)
  BY <1>2, HeadTailFacts
<1>4. /\ semi[Head(Ahead)] = None /\ stack' = Append(stack, Call(Head(Ahead)))
      /\ parent' = [parent EXCEPT ![Head(Ahead)] = Active]
      /\ label' = [label EXCEPT ![Head(Ahead)] = Head(Ahead)]
      /\ semi' = [semi EXCEPT ![Head(Ahead)] = Head(Ahead)]
      /\ UNCHANGED <<graph, pass, queue, visited, blocks, phase, ancestor, dom, bucket, pred,
                     imm_dominator_>>
  BY <1>2 DEF FillDescend
<1> DEFINE w == Head(Ahead)
<1>5. Call(w) \in Frames /\ Call(w).bb = w /\ Call(w).todo = GetSuccessors(graph, w)
  BY <1>3, GraphFacts DEF Call, Frames
<1>6. /\ stack' \in Seq(Frames) /\ Len(stack') = Len(stack) + 1 /\ stack'[Len(stack) + 1] = Call(w)
      /\ \A k \in 1 .. Len(stack) : stack'[k] = stack[k]
  <2> HIDE DEF w
  <2>1. stack \in Seq(Frames) /\ stack' = Append(stack, Call(w))
    BY <1>4 DEF TypeOK, w
  <2> QED
    BY <1>5, <2>1, AppendFacts
<1> QED
  BY <1>1, <1>2, <1>3, <1>4, <1>5, <1>6

LEMMA FillPredFacts ==
  ASSUME TypeOK, FillPred
  PROVE  /\ stack # <<>> /\ Ahead # <<>> /\ Head(Ahead) \in Ids /\ semi[Head(Ahead)] # None
         /\ ToSet(Ahead) = {Head(Ahead)} \cup ToSet(Tail(Ahead))
         /\ stack' \in Seq(Frames) /\ Len(stack') = Len(stack)
         /\ \A k \in 1 .. Len(stack) - 1 : stack'[k] = stack[k]
         /\ stack'[Len(stack)].bb = Active /\ stack'[Len(stack)].todo = Tail(Ahead)
         /\ pred' = [pred EXCEPT ![Head(Ahead)] = Append(@, Active)]
         /\ UNCHANGED <<graph, pass, queue, visited, blocks, phase, parent, ancestor, label, semi,
                        dom, bucket, imm_dominator_>>
<1>1. stack # <<>> /\ Top.todo # <<>>
  BY DEF FillPred
<1>2. /\ Active \in Ids /\ Ahead \in Seq(Ids) /\ Ahead # <<>> /\ Top.todo = Ahead /\ Top.bb = Active
  BY <1>1, TopFacts
<1>3. Head(Ahead) \in Ids /\ ToSet(Ahead) = {Head(Ahead)} \cup ToSet(Tail(Ahead))
  BY <1>2, HeadTailFacts
<1>4. /\ semi[Head(Ahead)] # None /\ stack' = Append(Front(stack), [Top EXCEPT !.todo = Tail(@)])
      /\ pred' = [pred EXCEPT ![Head(Ahead)] = Append(@, Active)]
      /\ UNCHANGED <<graph, pass, queue, visited, blocks, phase, parent, ancestor, label, semi,
                     dom, bucket, imm_dominator_>>
  BY <1>2 DEF FillPred
<1>5. /\ stack' \in Seq(Frames) /\ Len(stack') = Len(stack)
      /\ stack'[Len(stack)] = [bb |-> Active, todo |-> Tail(Ahead)]
      /\ \A k \in 1 .. Len(stack) - 1 : stack'[k] = stack[k]
  BY <1>1, <1>4, AdvancedFacts DEF Depth
<1>6. stack'[Len(stack)].bb = Active /\ stack'[Len(stack)].todo = Tail(Ahead)
  BY <1>5
<1> QED
  BY <1>1, <1>2, <1>3, <1>4, <1>5, <1>6

LEMMA FillReturnFacts ==
  ASSUME TypeOK, FillReturn
  PROVE  /\ stack # <<>> /\ Ahead = <<>>
         /\ stack' \in Seq(Frames) /\ Len(stack') = Len(stack) - 1
         /\ \A k \in 1 .. Len(stack) - 1 : stack'[k] = stack[k]
         /\ IF Len(stack) = 1 THEN phase' = "ComputeSdoms" /\ at' = Len(blocks)
            ELSE phase' = phase
         /\ UNCHANGED <<graph, pass, queue, visited, blocks, parent, ancestor, label, semi,
                        dom, bucket, pred, imm_dominator_>>
<1>1. stack # <<>> /\ Top.todo = <<>> /\ stack' = Front(stack)
  BY DEF FillReturn
<1>2. Ahead = <<>>
  BY <1>1, TopFacts
<1>3. /\ stack' \in Seq(Frames) /\ Len(stack') = Len(stack) - 1
      /\ \A k \in 1 .. Len(stack) - 1 : stack'[k] = stack[k]
  <2>1. stack \in Seq(Frames)
    BY DEF TypeOK
  <2> QED
    BY <1>1, <2>1, FrontFacts
<1> QED
  BY <1>1, <1>2, <1>3 DEF FillReturn, nodes

\* A node enters the tree below the call that is active.
LEMMA DescendFillInv == ASSUME FillInv, FillDescend PROVE FillInv'
<1>1. phase = "FillTree" /\ DfsListed /\ KeptNew /\ TypeOK
  BY DEF FillDescend, FillInv, DfsListed
<1>2. PICK l : FillAt(l)
  BY <1>1 DEF FillInv
<1>3. PICK w, a, n, g : w = Head(Ahead) /\ a = Active /\ n = Len(stack) /\ g = graph
  OBVIOUS
<1>4. /\ stack # <<>> /\ Ahead # <<>> /\ w \in Ids /\ semi[w] = None /\ w \in ToSet(Ahead)
      /\ stack' \in Seq(Frames) /\ Len(stack') = n + 1
      /\ \A k \in 1 .. n : stack'[k] = stack[k]
      /\ stack'[n + 1].bb = w /\ stack'[n + 1].todo = GetSuccessors(g, w)
      /\ parent' = [parent EXCEPT ![w] = a]
      /\ label' = [label EXCEPT ![w] = w] /\ semi' = [semi EXCEPT ![w] = w]
      /\ UNCHANGED <<graph, pass, queue, visited, blocks, phase, ancestor, dom, bucket, pred,
                     imm_dominator_>>
  BY <1>1, <1>3, FillDescendFacts
<1>5. /\ n \in Nat \ {0} /\ a \in Ids /\ g \in Graphs /\ g' = g /\ None \notin Ids
      /\ stack[n].bb = a /\ stack[n].todo = Ahead /\ ToSet(GetSuccessors(g, w)) = SuccSet(g, w)
  BY <1>1, <1>3, <1>4, TopFacts, GraphFacts, FlowGraphAssumption DEF Depth, Active, Ahead
<1>6. /\ FillNodes(l) /\ FillCalls(l) /\ FillPreds /\ FillWalk(l)
  BY <1>2 DEF FillAt
<1>7. /\ l \in Seq(Ids) /\ ToSet(l) = Entered /\ parent \in [Ids -> Ids \cup {None}]
      /\ parent[w] = None /\ w \notin Entered /\ a \in Entered /\ w \in SuccSet(g, a)
  <2>1. l \in Seq(Ids) /\ ToSet(l) = Entered /\ parent \in [Ids -> Ids \cup {None}]
        /\ \A b \in Ids \ ToSet(l) : parent[b] = None
    BY <1>6 DEF FillNodes, IsTreePart
  <2>2. w \notin Entered
    BY <1>4 DEF Entered
  <2>3. n \in 1 .. n
    BY <1>5
  <2>4. a \in Entered /\ w \in SuccSet(g, a)
    BY <1>3, <1>4, <1>5, <1>6, <2>3 DEF FillCalls
  <2> QED
    BY <1>4, <2>1, <2>2, <2>4
<1>8. PICK m : m = Append(l, w)
  OBVIOUS
<1>9. /\ semi' \in [Ids -> Ids \cup {None}] /\ label' = semi' /\ Entered' = Entered \cup {w}
      /\ \A b \in Entered' : semi'[b] = b
  <2>1. semi \in [Ids -> Ids \cup {None}] /\ label = semi /\ \A b \in Entered : semi[b] = b
    BY <1>6 DEF FillNodes
  <2>2. /\ semi' \in [Ids -> Ids \cup {None}] /\ semi'[w] = w /\ \A b \in Ids : b # w => semi'[b] = semi[b]
    BY <1>4, <2>1
  <2>3. Entered' = Entered \cup {w}
    BY <1>4, <1>5, <2>2 DEF Entered
  <2>4. \A b \in Entered : b \in Ids
    BY DEF Entered
  <2> QED
    BY <1>4, <2>1, <2>2, <2>3, <2>4
<1>10. \A b, c : Anc(parent, b, c) => Anc(parent', b, c)
  BY <1>4, <1>7, AncGrows
<1>11. FillNodes(m)'
  <2>1. Anc(parent, a, l[Len(l)])
    BY <1>3, <1>6 DEF FillCalls
  <2>2. ASSUME NEW b \in ToSet(l), w \in SuccSet(g, b) PROVE Anc(parent, b, a)
    <3>1. b \in Entered /\ \A v \in ToSet(pred[w]) : w \in Entered
      BY <1>4, <1>6, <1>7 DEF FillPreds
    <3>2. LeftBehind(b, w)
      BY <1>3, <1>6, <1>7, <2>2, <3>1 DEF FillPreds
    <3>3. PICK k \in 1 .. Len(stack) : stack[k].bb = b
      BY <3>2 DEF LeftBehind
    <3>4. k \in 1 .. n /\ n \in 1 .. n /\ k <= n
      BY <1>3, <1>5, <3>3
    <3> QED
      BY <1>3, <1>5, <1>6, <3>3, <3>4 DEF FillCalls
  <2>3. IsTreePart(g, l, parent) /\ w \in Ids \ ToSet(l) /\ a \in ToSet(l)
    BY <1>3, <1>4, <1>6, <1>7 DEF FillNodes
  <2>4. IsTreePart(g, m, parent')
    BY <1>4, <1>5, <1>7, <1>8, <2>1, <2>2, <2>3, TreeGrows
  <2>5. ToSet(m) = Entered'
    BY <1>4, <1>7, <1>8, <1>9, AppendFacts
  <2>6. graph' = g
    BY <1>3, <1>4
  <2> QED
    BY <1>9, <2>4, <2>5, <2>6 DEF FillNodes
<1>12. FillCalls(m)'
  <2>1. stack' # <<>> /\ Active' = w /\ m[Len(m)] = w
    <3>1. Len(stack') # 0 /\ Active' = stack'[n + 1].bb
      BY <1>4, <1>5 DEF Active
    <3>2. Len(m) = Len(l) + 1 /\ m[Len(l) + 1] = w
      BY <1>4, <1>7, <1>8, AppendFacts
    <3> QED
      BY <1>4, <3>1, <3>2
  <2>2. ASSUME NEW k \in 1 .. n + 1
        PROVE  stack'[k].bb \in Entered' /\ ToSet(stack'[k].todo) \subseteq SuccSet(g, stack'[k].bb)
    <3>1. CASE k \in 1 .. n
      <4>1. k \in 1 .. Len(stack)
        BY <1>3, <3>1
      <4> QED
        BY <1>3, <1>4, <1>6, <1>9, <3>1, <4>1 DEF FillCalls
    <3>2. CASE k = n + 1
      BY <1>4, <1>5, <1>9, <3>2
    <3> QED
      BY <1>5, <3>1, <3>2
  <2>3. ASSUME NEW j \in 1 .. n + 1, NEW k \in 1 .. n + 1, j <= k
        PROVE  Anc(parent', stack'[j].bb, stack'[k].bb)
    <3>1. \A i, h \in 1 .. n : i <= h => Anc(parent, stack[i].bb, stack[h].bb)
      BY <1>3, <1>6 DEF FillCalls
    <3>2. CASE k \in 1 .. n
      <4>1. j \in 1 .. n
        BY <1>5, <2>3, <3>2
      <4> QED
        BY <1>4, <1>10, <2>3, <3>1, <3>2, <4>1
    <3>3. CASE k = n + 1 /\ j = n + 1
      BY <3>3, SelfAbove
    <3>4. CASE k = n + 1 /\ j \in 1 .. n
      <4>1. n \in 1 .. n /\ j <= n
        BY <1>5, <3>4
      <4>2. Anc(parent', stack[j].bb, a)
        BY <1>5, <1>10, <3>1, <3>4, <4>1
      <4>3. PICK p : p = parent'
        OBVIOUS
      <4>4. p[w] = a /\ p \in [Ids -> Ids \cup {None}]
        BY <1>4, <1>5, <1>7, <4>3
      <4>5. Anc(p, a, w)
        BY <1>4, <1>5, <4>4, AncFacts
      <4>6. stack[j].bb \in Ids /\ Anc(p, stack[j].bb, a)
        BY <1>3, <1>6, <3>4, <4>2, <4>3 DEF FillCalls, Entered
      <4>7. Anc(p, stack[j].bb, w)
        BY <1>4, <1>5, <4>4, <4>5, <4>6, AncFacts
      <4> QED
        BY <1>4, <3>4, <4>3, <4>7
    <3> QED
      BY <1>5, <3>2, <3>3, <3>4
  <2>4. Anc(parent', w, w) /\ graph' = g
    BY <1>3, <1>4, SelfAbove
  <2> QED
    BY <1>4, <2>1, <2>2, <2>3, <2>4, Zenon DEF FillCalls
<1>13. FillPreds'
  <2>1. ASSUME NEW v \in Entered', NEW c \in SuccSet(g, v)
        PROVE  v \in ToSet(pred[c]) \/ LeftBehind(v, c)'
    <3>1. CASE v \in Entered
      <4>1. v \in ToSet(pred[c]) \/ LeftBehind(v, c)
        BY <1>3, <1>6, <3>1 DEF FillPreds
      <4>2. ASSUME LeftBehind(v, c) PROVE LeftBehind(v, c)'
        <5>1. PICK k \in 1 .. n : stack[k].bb = v /\ c \in ToSet(stack[k].todo)
          BY <1>3, <4>2 DEF LeftBehind
        <5>2. k \in 1 .. Len(stack') /\ stack'[k] = stack[k]
          BY <1>4, <1>5, <5>1
        <5> QED
          BY <5>1, <5>2 DEF LeftBehind
      <4> QED
        BY <4>1, <4>2
    <3>2. CASE v = w
      <4>1. n + 1 \in 1 .. Len(stack') /\ c \in ToSet(stack'[n + 1].todo)
        BY <1>4, <1>5, <3>2
      <4> QED
        BY <1>4, <3>2, <4>1 DEF LeftBehind
    <3> QED
      BY <1>9, <3>1, <3>2
  <2>2. pred' = pred /\ graph' = graph /\ graph = g /\ Entered \subseteq Entered'
    BY <1>3, <1>4, <1>9
  <2> QED
    BY <1>6, <2>1, <2>2 DEF FillPreds
<1>14. FillWalk(m)'
  <2> SUFFICES ASSUME NEW W, IsPreWalk(g, W)
               PROVE  \E i, q, D : Unseen(D)' /\ WalkAt(W, m, n + 1, D, i, q, Cardinality(Entered'))
    <3>1. graph' = g
      BY <1>3, <1>4
    <3> QED
      BY <1>4, <3>1 DEF FillWalk
  <2>1. PICK i, q, D : Unseen(D) /\ WalkAt(W, l, n, D, i, q, Cardinality(Entered))
    BY <1>3, <1>6 DEF FillWalk
  <2>2. D[n] = Ahead /\ \A k \in 1 .. n - 1 : /\ stack[k].todo # <<>> /\ Head(stack[k].todo) \in Entered
                                              /\ D[k] = Tail(stack[k].todo)
    <3>1. n \in 1 .. n /\ \A k \in 1 .. n - 1 : k \in 1 .. n /\ k # n
      BY <1>5
    <3> QED
      BY <1>3, <1>5, <1>7, <2>1, <3>1 DEF Unseen
  <2>3. PICK E : E[n] = Tail(D[n]) /\ E[n + 1] = GetSuccessors(g, w) /\ \A k \in 1 .. n - 1 : E[k] = D[k]
    <3> DEFINE F == [k \in 1 .. n + 1 |-> IF k = n + 1 THEN GetSuccessors(g, w)
                                          ELSE IF k = n THEN Tail(D[n]) ELSE D[k]]
    <3>1. F[n] = Tail(D[n]) /\ F[n + 1] = GetSuccessors(g, w) /\ \A k \in 1 .. n - 1 : F[k] = D[k]
      BY <1>5
    <3> QED
      BY <3>1
  <2>4. Cardinality(Entered') = Cardinality(Entered) + 1 /\ Cardinality(Entered) \in Nat
    <3>1. IsFiniteSet(Entered)
      BY FiniteIds, FS_Subset DEF Entered
    <3> QED
      BY <1>7, <1>9, <3>1, FS_AddElement, FS_CardinalityType
  <2>5. \E q2 : WalkAt(W, Append(l, w), n + 1, E, i + 1, q2, Cardinality(Entered) + 1)
    <3> DEFINE c == Cardinality(Entered)
    <3>1. c \in Nat /\ WalkAt(W, l, n, D, i, q, c)
      BY <2>1, <2>4
    <3>2. D[n] # <<>> /\ w = Head(D[n]) /\ w \notin ToSet(l)
      BY <1>3, <1>4, <1>7, <2>2
    <3> HIDE DEF c
    <3>3. \E q2 : WalkAt(W, Append(l, w), n + 1, E, i + 1, q2, c + 1)
      BY <1>4, <1>5, <2>3, <3>1, <3>2, WalkMeets
    <3> QED
      BY <3>3 DEF c
  <2>6. Unseen(E)'
    <3>1. ASSUME NEW k \in 1 .. n + 1
          PROVE  \/ k = n + 1 /\ E[k] = stack'[k].todo
                 \/ /\ stack'[k].todo # <<>> /\ Head(stack'[k].todo) \in Entered'
                    /\ E[k] = Tail(stack'[k].todo)
      <4>1. CASE k = n + 1
        BY <1>4, <2>3, <4>1
      <4>2. CASE k = n
        <5>1. n \in 1 .. n /\ stack'[n] = stack[n]
          BY <1>4, <1>5
        <5>2. stack'[n].todo = D[n] /\ Head(D[n]) = w /\ D[n] # <<>>
          BY <1>3, <1>4, <1>5, <2>2, <5>1
        <5> QED
          BY <1>9, <2>3, <4>2, <5>2
      <4>3. CASE k \in 1 .. n - 1
        <5>1. k \in 1 .. n /\ stack'[k] = stack[k]
          BY <1>4, <1>5, <4>3
        <5> QED
          BY <1>9, <2>2, <2>3, <4>3, <5>1
      <4> QED
        BY <1>5, <4>1, <4>2, <4>3
    <3> QED
      BY <1>4, <3>1 DEF Unseen
  <2> QED
    BY <1>8, <2>4, <2>5, <2>6
<1>15. FillAt(m)'
  BY <1>11, <1>12, <1>13, <1>14 DEF FillAt
<1>16. DfsListed' /\ KeptNew'
  BY <1>1, <1>4 DEF DfsListed, KeptNew, TypeOK, AllNull
<1> QED
  BY <1>15, <1>16 DEF FillInv

\* The loop is through with a successor that has been entered.
LEMMA PredFillInv == ASSUME FillInv, FillPred PROVE FillInv'
<1>1. phase = "FillTree" /\ DfsListed /\ KeptNew /\ TypeOK
  BY DEF FillPred, FillInv, DfsListed
<1>2. PICK l : FillAt(l)
  BY <1>1 DEF FillInv
<1>3. PICK w, a, n, g, t : w = Head(Ahead) /\ a = Active /\ n = Len(stack) /\ g = graph /\ t = Tail(Ahead)
  OBVIOUS
<1>4. /\ stack # <<>> /\ Ahead # <<>> /\ w \in Ids /\ semi[w] # None
      /\ ToSet(Ahead) = {w} \cup ToSet(t)
      /\ stack' \in Seq(Frames) /\ Len(stack') = n
      /\ \A k \in 1 .. n - 1 : stack'[k] = stack[k]
      /\ stack'[n].bb = a /\ stack'[n].todo = t
      /\ pred' = [pred EXCEPT ![w] = Append(@, a)]
      /\ UNCHANGED <<graph, pass, queue, visited, blocks, phase, parent, ancestor, label, semi,
                     dom, bucket, imm_dominator_>>
  BY <1>1, <1>3, FillPredFacts
<1>5. /\ n \in Nat \ {0} /\ a \in Ids /\ stack[n].bb = a /\ stack[n].todo = Ahead /\ n \in 1 .. n
  BY <1>1, <1>3, <1>4, TopFacts DEF Depth, Active, Ahead
<1>6. /\ FillNodes(l) /\ FillCalls(l) /\ FillPreds /\ FillWalk(l)
  BY <1>2 DEF FillAt
<1>7. /\ w \in Entered /\ a \in Entered /\ w \in SuccSet(g, a) /\ ToSet(t) \subseteq SuccSet(g, a)
      /\ Entered' = Entered /\ graph' = g /\ parent' = parent
  <2>1. w \in Entered /\ Entered' = Entered
    BY <1>4 DEF Entered
  <2>2. a \in Entered /\ ToSet(Ahead) \subseteq SuccSet(g, a)
    BY <1>3, <1>5, <1>6 DEF FillCalls
  <2> QED
    BY <1>3, <1>4, <2>1, <2>2
<1>8. FillNodes(l)'
  BY <1>4, <1>6, <1>7 DEF FillNodes
<1>9. FillCalls(l)'
  <2>1. stack' # <<>> /\ Active' = a
    BY <1>4, <1>5 DEF Active
  <2>2. \A k \in 1 .. n : stack'[k].bb = stack[k].bb
    <3>1. \A k \in 1 .. n : k = n \/ k \in 1 .. n - 1
      BY <1>5
    <3> QED
      BY <1>4, <1>5, <3>1
  <2>3. ASSUME NEW k \in 1 .. n
        PROVE  stack'[k].bb \in Entered /\ ToSet(stack'[k].todo) \subseteq SuccSet(g, stack'[k].bb)
    <3>1. CASE k = n
      BY <1>4, <1>7, <3>1
    <3>2. CASE k \in 1 .. n - 1
      BY <1>3, <1>4, <1>6, <3>2 DEF FillCalls
    <3> QED
      BY <1>5, <3>1, <3>2
  <2>4. \A j, k \in 1 .. n : j <= k => Anc(parent, stack'[j].bb, stack'[k].bb)
    BY <1>3, <1>6, <2>2 DEF FillCalls
  <2>5. Anc(parent, a, l[Len(l)])
    BY <1>3, <1>6 DEF FillCalls
  <2> QED
    BY <1>4, <1>7, <2>1, <2>3, <2>4, <2>5, Zenon DEF FillCalls
<1>10. FillPreds'
  <2>1. /\ pred \in [Ids -> Seq(Ids)]
        /\ \A c \in Ids : \A v \in ToSet(pred[c]) : v \in Entered /\ c \in Entered /\ c \in SuccSet(g, v)
        /\ \A v \in Entered : \A c \in SuccSet(g, v) : v \in ToSet(pred[c]) \/ LeftBehind(v, c)
    BY <1>3, <1>6 DEF FillPreds
  <2>2. /\ Append(pred[w], a) \in Seq(Ids) /\ ToSet(Append(pred[w], a)) = ToSet(pred[w]) \cup {a}
    BY <1>4, <1>5, <2>1, AppendFacts
  <2>3. /\ pred' \in [Ids -> Seq(Ids)] /\ ToSet(pred'[w]) = ToSet(pred[w]) \cup {a}
        /\ \A c \in Ids : c # w => pred'[c] = pred[c]
    BY <1>4, <2>1, <2>2
  <2>4. ASSUME NEW c \in Ids, NEW v \in ToSet(pred'[c])
        PROVE  v \in Entered /\ c \in Entered /\ c \in SuccSet(g, v)
    BY <1>7, <2>1, <2>3, <2>4
  <2>5. ASSUME NEW v \in Entered, NEW c \in SuccSet(g, v)
        PROVE  v \in ToSet(pred'[c]) \/ LeftBehind(v, c)'
    <3>1. c \in Ids
      <4>1. v \in Ids /\ g \in Graphs
        BY <1>1, <1>3, GraphFacts DEF Entered
      <4> QED
        BY <4>1, SuccSetInIds
    <3>2. ToSet(pred[c]) \subseteq ToSet(pred'[c])
      BY <2>3, <3>1
    <3>3. ASSUME LeftBehind(v, c) PROVE v \in ToSet(pred'[c]) \/ LeftBehind(v, c)'
      <4>1. PICK k \in 1 .. n : stack[k].bb = v /\ c \in ToSet(stack[k].todo)
        BY <1>3, <3>3 DEF LeftBehind
      <4>2. CASE k \in 1 .. n - 1
        <5>1. k \in 1 .. Len(stack') /\ stack'[k] = stack[k]
          BY <1>4, <4>1, <4>2
        <5> QED
          BY <4>1, <5>1 DEF LeftBehind
      <4>3. CASE k = n /\ c = w
        BY <1>5, <2>3, <4>1, <4>3
      <4>4. CASE k = n /\ c # w
        <5>1. n \in 1 .. Len(stack') /\ stack'[n].bb = v /\ c \in ToSet(stack'[n].todo)
          BY <1>4, <1>5, <4>1, <4>4
        <5> QED
          BY <5>1 DEF LeftBehind
      <4> QED
        BY <1>5, <4>1, <4>2, <4>3, <4>4
    <3> QED
      BY <2>1, <3>2, <3>3
  <2> QED
    BY <1>7, <2>3, <2>4, <2>5 DEF FillPreds
<1>11. FillWalk(l)'
  <2> SUFFICES ASSUME NEW W, IsPreWalk(g, W)
               PROVE  \E i, q, D : Unseen(D)' /\ WalkAt(W, l, n, D, i, q, Cardinality(Entered))
    BY <1>4, <1>7 DEF FillWalk
  <2>1. PICK i, q, D : Unseen(D) /\ WalkAt(W, l, n, D, i, q, Cardinality(Entered))
    BY <1>3, <1>6 DEF FillWalk
  <2>2. D[n] = Ahead \/ D[n] = t
    BY <1>3, <1>5, <2>1 DEF Unseen
  <2>3. ASSUME NEW E, E[n] = t, \A k \in 1 .. n - 1 : E[k] = D[k] PROVE Unseen(E)'
    <3>1. ASSUME NEW k \in 1 .. n
          PROVE  \/ k = n /\ E[k] = stack'[k].todo
                 \/ stack'[k].todo # <<>> /\ Head(stack'[k].todo) \in Entered /\ E[k] = Tail(stack'[k].todo)
      <4>1. CASE k = n
        BY <1>4, <2>3, <4>1
      <4>2. CASE k \in 1 .. n - 1
        <5>1. k \in 1 .. Len(stack) /\ k # Len(stack) /\ stack'[k] = stack[k]
          BY <1>3, <1>4, <1>5, <4>2
        <5> QED
          BY <2>1, <2>3, <4>2, <5>1 DEF Unseen
      <4> QED
        BY <1>5, <4>1, <4>2
    <3> QED
      BY <1>4, <1>7, <3>1 DEF Unseen
  <2>4. CASE D[n] = t
    <3>1. Unseen(D)'
      BY <2>3, <2>4
    <3> QED
      BY <2>1, <3>1
  <2>5. CASE D[n] = Ahead
    <3>1. PICK E : E[n] = t /\ \A k \in 1 .. n - 1 : E[k] = D[k]
      <4> DEFINE F == [k \in 1 .. n |-> IF k = n THEN t ELSE D[k]]
      <4>1. F[n] = t /\ \A k \in 1 .. n - 1 : F[k] = D[k]
        BY <1>5
      <4> QED
        BY <4>1
    <3>2. Cardinality(Entered) \in Nat
      <4>1. IsFiniteSet(Entered)
        BY FiniteIds, FS_Subset DEF Entered
      <4> QED
        BY <4>1, FS_CardinalityType
    <3>3. \E q2 : WalkAt(W, l, n, E, i + 1, q2, Cardinality(Entered))
      <4> DEFINE c == Cardinality(Entered)
      <4>1. c \in Nat /\ WalkAt(W, l, n, D, i, q, c)
        BY <2>1, <3>2
      <4>2. D[n] # <<>> /\ Head(D[n]) \in ToSet(l) /\ E[n] = Tail(D[n])
        BY <1>3, <1>4, <1>6, <1>7, <2>5, <3>1 DEF FillNodes
      <4> HIDE DEF c
      <4>3. \E q2 : WalkAt(W, l, n, E, i + 1, q2, c)
        BY <1>5, <3>1, <4>1, <4>2, WalkPasses
      <4> QED
        BY <4>3 DEF c
    <3>4. Unseen(E)'
      BY <2>3, <3>1
    <3> QED
      BY <3>3, <3>4
  <2> QED
    BY <2>2, <2>4, <2>5
<1>12. FillAt(l)'
  BY <1>8, <1>9, <1>10, <1>11 DEF FillAt
<1>13. DfsListed' /\ KeptNew'
  BY <1>1, <1>4 DEF DfsListed, KeptNew, TypeOK, AllNull
<1> QED
  BY <1>12, <1>13 DEF FillInv

\* A call that has come to its end leaves its node below the call before it.
LEMMA ReturnFillAt ==
  ASSUME TypeOK, FillReturn, NEW l, FillAt(l)
  PROVE  /\ FillNodes(l)' /\ FillPreds' /\ FillWalk(l)'
         /\ Len(stack) # 1 => FillCalls(l)'
<1>1. PICK n, g : n = Len(stack) /\ g = graph
  OBVIOUS
<1>2. /\ stack # <<>> /\ Ahead = <<>>
      /\ stack' \in Seq(Frames) /\ Len(stack') = n - 1
      /\ \A k \in 1 .. n - 1 : stack'[k] = stack[k]
      /\ UNCHANGED <<graph, pass, queue, visited, blocks, parent, ancestor, label, semi,
                     dom, bucket, pred, imm_dominator_>>
  BY <1>1, FillReturnFacts
<1>3. n \in Nat \ {0} /\ stack[n].todo = <<>> /\ n \in 1 .. n
  BY <1>1, <1>2, TopFacts DEF Depth, Active, Ahead
<1>4. /\ FillNodes(l) /\ FillCalls(l) /\ FillPreds /\ FillWalk(l)
  BY DEF FillAt
<1>5. Entered' = Entered /\ graph' = g
  BY <1>1, <1>2 DEF Entered
<1>6. FillNodes(l)'
  BY <1>2, <1>4, <1>5 DEF FillNodes
<1>7. FillPreds'
  <2>1. ASSUME NEW v, NEW c, LeftBehind(v, c) PROVE LeftBehind(v, c)'
    <3>1. PICK k \in 1 .. n : stack[k].bb = v /\ c \in ToSet(stack[k].todo)
      BY <1>1, <2>1 DEF LeftBehind
    <3>2. k # n
      BY <1>3, <3>1 DEF ToSet
    <3>3. k \in 1 .. Len(stack') /\ stack'[k] = stack[k]
      BY <1>2, <1>3, <3>1, <3>2
    <3> QED
      BY <3>1, <3>3 DEF LeftBehind
  <2> QED
    BY <1>1, <1>2, <1>4, <1>5, <2>1 DEF FillPreds
<1>8. FillWalk(l)'
  <2> SUFFICES ASSUME NEW W, IsPreWalk(g, W)
               PROVE  \E i, q, D : Unseen(D)' /\ WalkAt(W, l, n - 1, D, i, q, Cardinality(Entered))
    BY <1>2, <1>5 DEF FillWalk
  <2>1. PICK i, q, D : Unseen(D) /\ WalkAt(W, l, n, D, i, q, Cardinality(Entered))
    BY <1>1, <1>4 DEF FillWalk
  <2>2. D[n] = <<>>
    BY <1>1, <1>3, <2>1 DEF Unseen
  <2>3. WalkAt(W, l, n - 1, D, i, q, Cardinality(Entered))
    BY <1>3, <2>1, <2>2, WalkReturns
  <2>4. ASSUME NEW k \in 1 .. n - 1
        PROVE  stack'[k].todo # <<>> /\ Head(stack'[k].todo) \in Entered /\ D[k] = Tail(stack'[k].todo)
    <3>1. k \in 1 .. Len(stack) /\ k # Len(stack) /\ stack'[k] = stack[k]
      BY <1>1, <1>2, <1>3
    <3> QED
      BY <2>1, <3>1 DEF Unseen
  <2>5. Unseen(D)'
    BY <1>2, <1>5, <2>4 DEF Unseen
  <2> QED
    BY <2>3, <2>5
<1>9. ASSUME n # 1 PROVE FillCalls(l)'
  <2>1. n - 1 \in 1 .. n /\ n - 1 \in 1 .. n - 1 /\ \A k \in 1 .. n - 1 : k \in 1 .. n
    BY <1>3, <1>9
  <2>2. /\ \A k \in 1 .. n : /\ stack[k].bb \in Entered
                             /\ ToSet(stack[k].todo) \subseteq SuccSet(g, stack[k].bb)
        /\ \A j, k \in 1 .. n : j <= k => Anc(parent, stack[j].bb, stack[k].bb)
        /\ Anc(parent, stack[n].bb, l[Len(l)])
    BY <1>1, <1>4 DEF FillCalls, Active
  <2>3. stack' # <<>> /\ Active' = stack[n - 1].bb
    BY <1>2, <1>3, <2>1 DEF Active
  <2>4. Anc(parent, stack[n - 1].bb, l[Len(l)])
    <3>1. parent \in [Ids -> Ids \cup {None}] /\ l[Len(l)] \in Ids
      <4>1. l \in Seq(Ids) /\ l # <<>> /\ parent \in [Ids -> Ids \cup {None}]
        BY <1>4 DEF FillNodes, IsTreePart
      <4> QED
        BY <4>1
    <3>2. Anc(parent, stack[n - 1].bb, stack[n].bb)
      BY <1>3, <2>1, <2>2
    <3>3. stack[n - 1].bb \in Ids /\ stack[n].bb \in Ids
      BY <1>3, <2>1, <2>2 DEF Entered
    <3> QED
      BY <2>2, <3>1, <3>2, <3>3, AncFacts
  <2>5. /\ \A k \in 1 .. Len(stack') : /\ stack'[k].bb \in Entered
                                       /\ ToSet(stack'[k].todo) \subseteq SuccSet(g, stack'[k].bb)
        /\ \A j, k \in 1 .. Len(stack') : j <= k => Anc(parent, stack'[j].bb, stack'[k].bb)
    <3>1. ASSUME NEW k \in 1 .. Len(stack') PROVE k \in 1 .. n /\ stack'[k] = stack[k]
      BY <1>2, <2>1
    <3> QED
      BY <2>2, <3>1
  <2>6. parent' = parent
    BY <1>2
  <2> QED
    BY <1>5, <2>3, <2>4, <2>5, <2>6, Zenon DEF FillCalls
<1> QED
  BY <1>1, <1>6, <1>7, <1>8, <1>9

\* Unless it was the first of the calls, FillTree goes on.
LEMMA ReturnFillInv == ASSUME FillInv, FillReturn PROVE FillInv'
<1>1. phase = "FillTree" /\ DfsListed /\ KeptNew /\ TypeOK
  BY DEF FillReturn, FillInv, DfsListed
<1>2. PICK l : FillAt(l)
  BY <1>1 DEF FillInv
<1>3. CASE Len(stack) = 1
  <2>1. phase' = "ComputeSdoms"
    BY <1>1, <1>3, FillReturnFacts
  <2> QED
    BY <2>1 DEF FillInv
<1>4. CASE Len(stack) # 1
  <2>1. FillAt(l)'
    BY <1>1, <1>2, <1>4, ReturnFillAt DEF FillAt
  <2>2. DfsListed' /\ KeptNew'
    <3>1. /\ stack' \in Seq(Frames)
          /\ UNCHANGED <<graph, pass, queue, visited, blocks, ancestor, dom, bucket, imm_dominator_>>
      BY <1>1, FillReturnFacts
    <3> QED
      BY <1>1, <3>1 DEF DfsListed, KeptNew, TypeOK, AllNull
  <2> QED
    BY <2>1, <2>2 DEF FillInv
<1> QED
  BY <1>3, <1>4

\* When the call for the start block comes to its end, the walk of Preorder has
\* come to its end as well: the nodes were entered in the order in which DFS listed
\* the blocks, and the tree is the depth-first tree of that order.
LEMMA FillEnds ==
  ASSUME FillInv, FillReturn, Len(stack) = 1
  PROVE  TreeBuilt' /\ Entered' = Reachable(graph')
<1>1. phase = "FillTree" /\ DfsListed /\ TypeOK
  BY DEF FillReturn, FillInv, DfsListed
<1>2. PICK l : FillAt(l)
  BY <1>1 DEF FillInv
<1>3. PICK g : g = graph
  OBVIOUS
<1>4. /\ Len(stack') = 0 /\ FillNodes(l)' /\ FillPreds' /\ FillWalk(l)'
      /\ graph' = g /\ blocks' = blocks
  <2>1. /\ FillNodes(l)' /\ FillPreds' /\ FillWalk(l)'
    BY <1>1, <1>2, ReturnFillAt
  <2>2. Len(stack') = Len(stack) - 1 /\ graph' = graph /\ blocks' = blocks
    BY <1>1, FillReturnFacts
  <2> QED
    BY <1>3, <2>1, <2>2
<1>5. g \in Graphs /\ blocks = Preorder(g) /\ ToSet(blocks) = Reachable(g)
  BY <1>1, <1>3, GraphFacts DEF DfsListed
<1>6. l = blocks
  <2>1. Entered' \in SUBSET Ids
    BY DEF Entered
  <2>2. \A W : IsPreWalk(g, W) => \E m, q, D : WalkAt(W, l, 0, D, m, q, Cardinality(Entered'))
    BY <1>4 DEF FillWalk
  <2> QED
    BY <1>5, <2>1, <2>2, WalkEnds
<1>7. IsDfsTree(g, blocks, parent')
  <2>1. IsTreePart(g, l, parent')
    BY <1>4 DEF FillNodes
  <2> QED
    BY <1>5, <1>6, <2>1, TreeWhole
<1>r. Entered' = Reachable(g)
  BY <1>4, <1>5, <1>6 DEF FillNodes
<1>8. /\ pred' \in [Ids -> Seq(Ids)]
      /\ \A w \in Reachable(g) : ToSet(pred'[w]) = {v \in Reachable(g) : w \in SuccSet(g, v)}
  <2>2. \A v, w : ~LeftBehind(v, w)'
    BY <1>4 DEF LeftBehind
  <2>3. /\ pred' \in [Ids -> Seq(Ids)]
        /\ \A w \in Ids : \A v \in ToSet(pred'[w]) : v \in Reachable(g) /\ w \in SuccSet(g, v)
        /\ \A v \in Reachable(g) : \A w \in SuccSet(g, v) : v \in ToSet(pred'[w])
    BY <1>4, <1>r, <2>2 DEF FillPreds
  <2>4. Reachable(g) \subseteq Ids
    BY <1>5, ReachableFacts
  <2> QED
    BY <2>3, <2>4
<1> QED
  BY <1>4, <1>5, <1>7, <1>8, <1>r DEF TreeBuilt

\* The loop of ComputeSdoms starts from there.
LEMMA FillBackInv == ASSUME FillInv, FillReturn, Len(stack) = 1 PROVE BackInv'
<1>1. phase = "FillTree" /\ DfsListed /\ KeptNew /\ TypeOK
  BY DEF FillReturn, FillInv, DfsListed
<1>2. PICK l : FillAt(l)
  BY <1>1 DEF FillInv
<1>3. TreeBuilt' /\ Entered' = Reachable(graph')
  BY FillEnds
<1>4. /\ phase' = "ComputeSdoms" /\ at' = Len(blocks)
      /\ UNCHANGED <<graph, blocks, ancestor, dom, bucket, imm_dominator_>>
  BY <1>1, FillReturnFacts
<1>5. FillNodes(l)'
  BY <1>1, <1>2, ReturnFillAt
<1>6. PICK g, b, p, s : g = graph' /\ b = blocks' /\ p = parent' /\ s = semi'
  OBVIOUS
<1>7. g \in Graphs /\ IsDfsTree(g, b, p) /\ ToSet(b) = Reachable(g)
  BY <1>3, <1>6 DEF TreeBuilt, IsDfsTree
<1>8. /\ Len(b) \in Nat /\ Reachable(g) \subseteq Ids
      /\ \A x \in Reachable(g) : Idx(b, x) \in 1 .. Len(b)
      /\ Start \in Reachable(g)
  BY <1>7, IdxFacts, ReachableFacts
<1>9. Len(b) \in 1 .. Len(b)
  <2>1. Idx(b, Start) \in 1 .. Len(b)
    BY <1>8
  <2> QED
    BY <1>8, <2>1
<1>10. /\ s \in [Ids -> Ids \cup {None}] /\ label' = s /\ \A x \in Reachable(g) : s[x] = x
  <2>1. /\ semi' \in [Ids -> Ids \cup {None}] /\ label' = semi'
        /\ \A x \in Entered' : semi'[x] = x
    BY <1>5 DEF FillNodes
  <2>2. Entered' = Reachable(g)
    BY <1>3, <1>6
  <2> QED
    BY <1>6, <2>1, <2>2
<1>11. Forest' \in Forests /\ Forest'.label = s /\ \A x \in Ids : Forest'.ancestor[x] = None
  BY <1>1, <1>4, <1>10 DEF Forest, Forests, KeptNew, AllNull
<1>12. \A x \in Reachable(g) : ~(Len(b) < Idx(b, x)) /\ Idx(b, x) <= Len(b)
  BY <1>8
<1>13. IsForest(g, b, p, Len(b), s, Forest')
  <2>1. Linked(g, b, Len(b)) = {}
    BY <1>12 DEF Linked
  <2> QED
    BY <1>10, <1>11, <2>1 DEF IsForest
<1>14. SemiSoFar(Len(b), s)'
  BY <1>6, <1>10, <1>12 DEF SemiSoFar, SemiType, idx
<1>15. SdomAt(at, semi, Forest, bucket, dom)'
  <2>1. \A x \in Ids : bucket'[x] = <<>>
    BY <1>1, <1>4 DEF KeptNew
  <2>2. bucket' \in [Ids -> Seq(Ids)] /\ dom' \in [Ids -> Ids \cup {None}]
    BY <1>1, <1>4 DEF KeptNew, AllNull
  <2>3. \A x \in Ids : ToSet(bucket'[x]) = {}
    BY <2>1 DEF ToSet
  <2>4. at' = Len(b)
    BY <1>4, <1>6
  <2> QED
    BY <1>6, <1>12, <1>13, <1>14, <2>2, <2>3, <2>4 DEF SdomAt, idx
<1>16. imm_dominator_' = AllNull'
  BY <1>1, <1>4 DEF KeptNew, AllNull
<1> QED
  BY <1>3, <1>4, <1>6, <1>9, <1>15, <1>16 DEF BackInv, SdomsInv, DomsInv, DoneInv

-----------------------------------------------------------------------------
\* The pass from its start to its end.

\* What is known of the traversal that DFS is.
TraversalInv ==
  /\ ListInv /\ PreInv /\ PostInv
  /\ CallsAlongPath /\ LeavesLast
  /\ BFSInv

DfsInv == phase = "DFS" => TraversalInv /\ NodesNew

LaterInv == phase # "DFS" => DfsListed

DomTreeInv == DfsInv /\ LaterInv /\ FillInv /\ BackInv

\* Each step of DFS keeps it.
LEMMA StepTraversalInv == TraversalInv /\ [Next]_vars => TraversalInv'
  BY StepListInv, StepPreInv, StepPostInv, StepCycles, StepBFSInv DEF TraversalInv

\* DomTreeInv holds at first, and each step of the pass keeps it.
LEMMA InitDomTreeInv == DomInit => DomTreeInv
<1> SUFFICES ASSUME DomInit PROVE DomTreeInv
  OBVIOUS
<1>1. Init /\ phase = "DFS" /\ NodesNew
  BY DEF DomInit, NodesNew, KeptNew, ClearDominators
<1>2. TraversalInv
  BY <1>1, InitListInv, InitPreInv, InitPostInv, InitCycles, InitBFSInv DEF TraversalInv
<1> QED
  BY <1>1, <1>2 DEF DomTreeInv, DfsInv, LaterInv, FillInv, BackInv, SdomsInv, DomsInv, DoneInv

\* Nothing after DFS touches the list.
LEMMA StillListed ==
  ASSUME DfsListed, stack' \in Seq(Frames), UNCHANGED <<graph, pass, queue, visited, blocks>>
  PROVE  DfsListed'
  BY DEF DfsListed, TypeOK

LEMMA StepDomTreeInv == DomTreeInv /\ [DomNext]_domVars => DomTreeInv'
<1> SUFFICES ASSUME DomTreeInv, [DomNext]_domVars PROVE DomTreeInv'
  OBVIOUS
<1> USE DEF DomTreeInv
<1>1. CASE RunDFS
  <2>1. phase = "DFS" /\ phase' = "DFS" /\ Next /\ UNCHANGED <<nodes, imm_dominator_>>
    BY <1>1 DEF RunDFS
  <2>2. TraversalInv'
    BY <2>1, StepTraversalInv DEF DfsInv
  <2>3. NodesNew'
    BY <2>1 DEF DfsInv, NodesNew, KeptNew, nodes, AllNull
  <2> QED
    BY <2>1, <2>2, <2>3 DEF DfsInv, LaterInv, FillInv, BackInv, SdomsInv, DomsInv, DoneInv
<1>2. CASE FillTree
  <2>1. phase = "DFS" /\ pass = "DFS" /\ Done /\ phase' = "FillTree"
    BY <1>2 DEF FillTree
  <2>2. TraversalInv /\ NodesNew
    BY <2>1 DEF DfsInv
  <2>3. DfsListed
    <3>1. ToSet(blocks) = Reachable(graph) /\ IsInjective(blocks) /\ TypeOK
      BY <2>1, <2>2, ListedAtEnd DEF TraversalInv, ListInv
    <3>2. blocks = Preorder(graph)
      BY <2>1, <2>2, PreorderListed DEF TraversalInv
    <3> QED
      BY <2>1, <3>1, <3>2 DEF DfsListed
  <2>4. FillInv'
    BY <1>2, <2>2, <2>3, StartFillInv
  <2> QED
    BY <2>1, <2>4 DEF DfsInv, LaterInv, FillInv, BackInv, SdomsInv, DomsInv, DoneInv
<1>3. CASE FillDescend \/ FillPred
  <2>1. phase' = "FillTree"
    BY <1>3 DEF FillDescend, FillPred
  <2>2. FillInv'
    BY <1>3, DescendFillInv, PredFillInv
  <2> QED
    BY <2>1, <2>2 DEF DfsInv, LaterInv, FillInv, BackInv, SdomsInv, DomsInv, DoneInv
<1>4. CASE FillReturn
  <2>1. phase = "FillTree" /\ DfsListed
    BY <1>4 DEF FillReturn, FillInv
  <2>2. DfsListed'
    <3>1. stack' \in Seq(Frames) /\ UNCHANGED <<graph, pass, queue, visited, blocks>>
      BY <1>4, <2>1, FillReturnFacts DEF DfsListed
    <3> QED
      BY <2>1, <3>1, StillListed
  <2>3. FillInv'
    BY <1>4, ReturnFillInv
  <2>4. phase' \in {"FillTree", "ComputeSdoms"} /\ (Len(stack) # 1 => phase' = "FillTree")
    BY <1>4, <2>1 DEF FillReturn
  <2>5. BackInv'
    <3>1. CASE Len(stack) = 1
      BY <1>4, <3>1, FillBackInv
    <3>2. CASE Len(stack) # 1
      BY <2>4, <3>2 DEF BackInv, SdomsInv, DomsInv, DoneInv
    <3> QED
      BY <3>1, <3>2
  <2> QED
    BY <2>2, <2>3, <2>4, <2>5 DEF DfsInv, LaterInv
<1>5. CASE ComputeSdom \/ SdomsDone \/ ComputeDom \/ DomsDone
  <2>1. phase # "DFS" /\ phase' # "DFS" /\ phase' # "FillTree" /\ UNCHANGED vars
    BY <1>5 DEF ComputeSdom, SdomsDone, ComputeDom, DomsDone
  <2>2. DfsListed'
    <3>1. stack' \in Seq(Frames) /\ UNCHANGED <<graph, pass, queue, visited, blocks>>
      BY <2>1 DEF vars, LaterInv, DfsListed, TypeOK
    <3> QED
      BY <2>1, <3>1, StillListed DEF LaterInv
  <2>3. BackInv'
    BY <1>5, SdomBackInv, SdomsDoneBackInv, DomBackInv, DomsDoneBackInv
  <2> QED
    BY <2>1, <2>2, <2>3 DEF DfsInv, LaterInv, FillInv
<1>6. CASE UNCHANGED domVars
  <2>1. /\ UNCHANGED <<graph, pass, stack, queue, visited, blocks, phase, parent, ancestor, label, semi,
                       dom, bucket, pred, at, imm_dominator_>>
    BY <1>6 DEF domVars, vars, nodes
  <2>2. DfsInv'
    <3>1. TraversalInv => TraversalInv'
      BY <1>6, StepTraversalInv DEF domVars
    <3>2. NodesNew => NodesNew'
      BY <2>1 DEF NodesNew, KeptNew, AllNull
    <3> QED
      BY <2>1, <3>1, <3>2 DEF DfsInv
  <2>3. LaterInv'
    BY <2>1 DEF LaterInv, DfsListed, TypeOK
  <2>4. FillInv'
    <3>1. ASSUME NEW l, FillAt(l) PROVE FillAt(l)'
      <4>1. FillNodes(l)'
        BY <2>1, <3>1 DEF FillAt, FillNodes, Entered
      <4>2. FillPreds'
        <5>1. Entered' = Entered
          BY <2>1 DEF Entered
        <5>2. ASSUME NEW v, NEW w, LeftBehind(v, w) PROVE LeftBehind(v, w)'
          BY <2>1, <5>2 DEF LeftBehind
        <5>3. graph' = graph /\ pred' = pred
          BY <2>1
        <5> HIDE DEF Entered
        <5> QED
          BY <3>1, <5>1, <5>2, <5>3 DEF FillAt, FillPreds
      <4>3. FillWalk(l)'
        <5>1. Entered' = Entered
          BY <2>1 DEF Entered
        <5>2. ASSUME NEW D, Unseen(D) PROVE Unseen(D)'
          BY <2>1, <5>2, <5>1 DEF Unseen
        <5> QED
          BY <2>1, <3>1, <5>1, <5>2 DEF FillAt, FillWalk
      <4>4. FillCalls(l)'
        BY <2>1, <3>1 DEF FillAt, FillCalls, Entered, Active
      <4> QED
        BY <4>1, <4>2, <4>3, <4>4 DEF FillAt
    <3> QED
      BY <2>1, <3>1 DEF FillInv, DfsListed, TypeOK, KeptNew, AllNull
  <2>5. BackInv'
    BY <2>1 DEF BackInv, SdomsInv, DomsInv, DoneInv, TreeBuilt, SdomAt, DomsAt, SemiSoFar, SemiType, idx,
                GoodDom, Forest, AllNull
  <2> QED
    BY <2>2, <2>3, <2>4, <2>5
<1> QED
  BY <1>1, <1>2, <1>3, <1>4, <1>5, <1>6 DEF DomNext

\* In each phase of the pass its nodes, its forest, its buckets and its call stack
\* are what DomTreeInv says: on any graph.
THEOREM SpecDomTreeInv == DomSpec => []DomTreeInv
  BY InitDomTreeInv, StepDomTreeInv, PTL DEF DomSpec

\* ComputeSdoms gives each node it has taken its semidominator: the lowest of the
\* blocks that lead to it through higher ones, on any graph, whatever Compress
\* has done to the forest by then.
THEOREM SemidominatorsRight == DomSpec => []SemidominatorsExact
<1>1. DomTreeInv => SemidominatorsExact
  BY SemidominatorsListed DEF DomTreeInv
<1> QED
  BY <1>1, SpecDomTreeInv, PTL

\* The dominator tree is right on any graph: at the end a block has as its immediate
\* dominator the strict dominator that all its other strict dominators dominate.
THEOREM ImmDominatorsRight == DomSpec => []ImmDominatorsExact
<1>1. DomTreeInv => ImmDominatorsExact
  BY ImmDominatorsListed DEF DomTreeInv
<1> QED
  BY <1>1, SpecDomTreeInv, PTL

\* The list that the pass takes its numbers from is right, and is left alone.
THEOREM DfsOfDomTree == DomSpec => [](ListsReachableOnce /\ PostorderClosesCycles /\ ListedByDistance)
<1>1. DomTreeInv => ListsReachableOnce /\ PostorderClosesCycles /\ ListedByDistance
  <2>1. ASSUME DomTreeInv, phase = "DFS"
        PROVE  ListsReachableOnce /\ PostorderClosesCycles /\ ListedByDistance
    BY <2>1, OnceInOrder, LeavesLastOrders, LevelsOrder DEF DomTreeInv, DfsInv, TraversalInv
  <2>2. ASSUME DomTreeInv, phase # "DFS"
        PROVE  ListsReachableOnce /\ PostorderClosesCycles /\ ListedByDistance
    BY <2>2 DEF DomTreeInv, LaterInv, DfsListed, ListsReachableOnce, PostorderClosesCycles, ListedByDistance
  <2> QED
    BY <2>1, <2>2
<1> QED
  BY <1>1, SpecDomTreeInv, PTL
=============================================================================
