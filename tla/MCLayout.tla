------------------------------ MODULE MCLayout ------------------------------
(***************************************************************************)
(* Every graph of four blocks, and those of five without a block that is   *)
(* its own successor, up to renaming; and graphs of six blocks in which a  *)
(* branch with more blocks to come may lead to two that have been laid     *)
(* out; and graphs with a block that cannot be reached.  Each of the at    *)
(* most five edges that lead back costs a block or two, and the layout up  *)
(* to three.                                                               *)
(***************************************************************************)
EXTENDS Layout, SmallGraphs
MCIds == 0 .. 13

IsSelfLoop(shape, k) == k - 1 \in ToSet(shape[k])

\* The first side of the inner of two branches is laid out first, as blocks 2 and
\* 3; block 4 is the other side, block 5 comes behind.
SixBlocks ==
  {<< <<1, 5>>, <<2, 4>>, <<3>>, <<>>, l4, l5 >> :
     l4 \in {<<2, 3>>, <<3, 2>>, <<5>>}, l5 \in {<<2, 3>>, <<3, 2>>, <<2>>, <<3, 4>>}}

\* Three blocks, and one more that cannot be reached and may lead anywhere.
AndUnreachable ==
  {Append(s, list) : s \in PreorderShapes(3),
                     list \in {<<>>} \cup {<<a>> : a \in 1 .. 3} \cup
                             {p \in (1 .. 3) \X (1 .. 3) : p[1] # p[2]}}

MCInputs ==
  {PreorderGraph(s) :
     s \in PreorderShapes(4) \cup AndUnreachable \cup SixBlocks \cup
           {t \in PreorderShapes(5) : \A k \in DOMAIN t : ~IsSelfLoop(t, k)}}
=============================================================================
