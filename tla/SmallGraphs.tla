---------------------------- MODULE SmallGraphs ----------------------------
(***************************************************************************)
(* The graphs with n blocks, all of which can be reached, up to renaming:  *)
(* the blocks are numbered in the order a depth-first walk meets them. So  *)
(* the first successor of block k that is not met before it is k + 1.      *)
(* A graph is built one block at a time.                                   *)
(***************************************************************************)
EXTENDS CfgShapes, Integers

Targets(k, n) == {a \in 1 .. n - 1 : a <= k + 1}

SuccessorsOf(k, n) ==
  {<<>>} \cup {<<a>> : a \in Targets(k, n)}
         \cup {p \in Targets(k, n) \X Targets(k, n) : p[1] # p[2]}
         \cup {<<k + 1, m>> : m \in k + 2 .. n - 1}

\* The successor lists of the blocks, from block 0 on. Block k is met once a block
\* before it leads there.
PreorderShapes(n) ==
  LET Names(s, k) == \E i \in DOMAIN s : k \in ToSet(s[i])
      Build[k \in 0 .. n] ==
        IF k = 0 THEN {<<>>}
        ELSE {t \in {Append(s, list) : s \in Build[k - 1], list \in SuccessorsOf(k - 1, n)} :
                k = n \/ Names(t, k)}
  IN  Build[n]

\* As a graph on Ids, of which those from n on are no blocks yet.
PreorderGraph(succs) ==
  LET n == Len(succs)
  IN  [GraphOf([b \in Ids |-> IF b < n THEN succs[b + 1] ELSE <<>>]) EXCEPT !.blocks = 0 .. n - 1]
=============================================================================
