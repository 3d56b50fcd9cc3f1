------------------------------ MODULE Meaning ------------------------------
(***************************************************************************)
(* What a program does, for what passes make of it to be compared with.    *)
(* isa/isa_def.h only names the instructions; what they compute is what    *)
(* the names say, on integers that wrap around. A run is determined by the *)
(* arguments and by which way each branch goes. What can be seen of it:    *)
(* the calls it makes, the check that stops it, what it returns.           *)
(*                                                                         *)
(* Bounds: integers of Width bits; a run ends as "cut" when more branches  *)
(* come than it is told the ways of, or after Fuel blocks.                 *)
(***************************************************************************)
EXTENDS Insts, Integers

CONSTANTS
  Width,   \* of an integer, 64 in the code
  Fuel     \* the number of blocks a run may come through

ASSUME MeaningAssumption == Width \in Nat \ {0, 1} /\ Fuel \in Nat

Half == 2 ^ (Width - 1)

Wrap(n) == ((n + Half) % (2 * Half)) - Half

Integer == -Half .. Half - 1

Bit(n, k) == (n \div 2 ^ k) % 2

Xor == [p \in Integer \X Integer |->
          Wrap(FoldSet(LAMBDA k, sum : sum + 2 ^ k * ((Bit(p[1], k) + Bit(p[2], k)) % 2),
                       0, 0 .. Width - 1))]

\* Shifting by as many bits as there are, or by fewer than none, is undefined.
IsDefined(op, n) == op \in {"ASHR", "ASHRI", "SHLI"} => n \in 0 .. Width - 1

Apply(op, m, n) ==
  CASE op \in {"ADD", "ADDI"}   -> Wrap(m + n)
    [] op = "SUB"               -> Wrap(m - n)
    [] op \in {"XOR", "XORI"}   -> Xor[m, n]
    [] op \in {"ASHR", "ASHRI"} -> m \div 2 ^ n
    [] op = "SHLI"              -> Wrap(m * 2 ^ n)

\* A check stops the run: a zero, a null, an index that is not one of an array, each of
\* which has two elements.
Fails(op, v) == IF op = "CHECK_SIZE" THEN v[2] \notin 0 .. 1 ELSE v[1] = 0

-----------------------------------------------------------------------------
\* A run has the values of the instructions, None as long as they have none, and
\* what it is: going on, stopped by a check, cut, undefined, or broken, when it
\* needs a value that there is not.
NewRun(t, ways) ==
  [env |-> [i \in DOMAIN t.op |-> None], seen |-> <<>>, ways |-> ways, ret |-> None,
   is |-> "on"]

\* CallOf(r, args) is what a call makes of the run: the run, and its value.
RunInst(t, args, CallOf(_, _), r, i) ==
  LET op == t.op[i]
      v  == [k \in DOMAIN t.inputs[i] |-> r.env[t.inputs[i][k]]]
      Compute(n) ==
        IF IsDefined(op, n) THEN [r EXCEPT !.env[i] = Apply(op, v[1], n)]
        ELSE [r EXCEPT !.is = "undefined"]
  IN  IF r.is # "on" \/ op = "PHI" THEN r
      ELSE IF None \in ToSet(v) THEN [r EXCEPT !.is = "broken"]
      ELSE CASE op = "PARAM"       -> [r EXCEPT !.env[i] = args[Position(t, i)]]
             [] op = "CONST"       -> [r EXCEPT !.env[i] = t.val[i]]
             [] op = "RETURN"      -> [r EXCEPT !.ret = v[1]]
             [] op = "CALL_STATIC" -> LET c == CallOf(r, v) IN [c EXCEPT !.run.env[i] = c.val].run
             [] op \in CHECK       -> IF Fails(op, v)
                                      THEN [r EXCEPT !.is = "stopped", !.seen = Append(@, <<op>>)]
                                      ELSE r
             [] op \in BINARY      -> Compute(v[2])
             [] OTHER              -> Compute(t.val[i])

\* The phis of b take their values at once, by the block that control comes from.
EnterBlock(t, r, b, prev) ==
  LET FromPrev(i) == SelectInSeq(t.from[i], LAMBDA c : c = prev)
      phis == {i \in ToSet(InstsOf(t, b)) : t.op[i] = "PHI"}
  IN  [r EXCEPT !.env = [i \in DOMAIN @ |->
         IF i \notin phis THEN @[i]
         ELSE IF FromPrev(i) = 0 THEN None ELSE @[t.inputs[i][FromPrev(i)]]]]

\* The run of a program from its start block on.
RunFrom(g, t, args, ways, CallOf(_, _)) ==
  LET Block(r, b, prev) ==
        FoldLeft(LAMBDA acc, i : RunInst(t, args, CallOf, acc, i), EnterBlock(t, r, b, prev),
                 InstsOf(t, b))
      Way(r) == IF Head(r.ways) THEN BRANCH_TRUE ELSE FALLTHROUGH
      Blocks[n \in Nat] ==
        IF n = 0 THEN [at |-> Start, prev |-> None, run |-> NewRun(t, ways)]
        ELSE LET s == Blocks[n - 1]
                 r == Block(s.run, s.at, s.prev)
                 Go(c, left) == [at |-> c, prev |-> s.at, run |-> [r EXCEPT !.ways = left]]
             IN  IF s.at = None \/ s.run.is # "on" THEN s
                 ELSE CASE GetNumSuccessors(g, s.at) = 0 -> Go(None, r.ways)
                        [] GetNumSuccessors(g, s.at) = 1 -> Go(g.succs[s.at][FALLTHROUGH], r.ways)
                        [] GetNumSuccessors(g, s.at) = 2 ->
                             IF r.ways = <<>> /\ r.is = "on"
                             THEN [s EXCEPT !.run = [r EXCEPT !.is = "cut"]]
                             ELSE IF r.is # "on" THEN [s EXCEPT !.run = r]
                             ELSE Go(g.succs[s.at][Way(r)], Tail(r.ways))
  IN  Blocks[Fuel].run

\* A call that is only seen, and of whose value nothing is known but what it is of.
OpaqueCall(r, args) ==
  [run |-> [r EXCEPT !.seen = Append(@, args)],
   val |-> Wrap(1 + FoldLeft(LAMBDA n, m : n + m, 0, args))]

\* A call of the function with the graph g and the instructions t.
CallTo(g, t, r, args) ==
  LET c == RunFrom(g, t, args, r.ways, OpaqueCall)
  IN  [run |-> [r EXCEPT !.seen = @ \o c.seen, !.ways = c.ways, !.is = c.is], val |-> c.ret]

Seen(r) == <<r.is, r.seen, r.ret>>
=============================================================================
