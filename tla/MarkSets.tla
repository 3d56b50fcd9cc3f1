------------------------------ MODULE MarkSets ------------------------------
(***************************************************************************)
(* What the marker utility promises to a compiler pass.  A pass that owns  *)
(* a marker sees a private set of marked objects which starts empty; the   *)
(* passes running at the same time never see each other's marks; and the   *)
(* program stops for want of a marker only when Capacity of them are in    *)
(* scope.  The promise of an empty start is made for the first Fresh       *)
(* markers of the process: after that the implementation's generation      *)
(* counter has gone round and an old mark may be seen again.               *)
(***************************************************************************)
EXTENDS Naturals, FiniteSets

CONSTANTS
  Objects,    \* the things that can be marked: basic blocks, instructions
  Holders,    \* the scopes that may own a marker
  Capacity,   \* markers that may be in scope together
  Fresh       \* how many markers of a process are promised to start empty

VARIABLES
  held,       \* the holders whose marker is in scope
  marked,     \* marked[h]: the objects h has marked
  ret,        \* what the last probe, set or clear returned
  made,       \* markers handed out since the process started
  halted      \* the process stopped because no marker was left

vars == <<held, marked, ret, made, halted>>

Init ==
  /\ held = {}
  /\ marked = [h \in Holders |-> {}]
  /\ ret = FALSE
  /\ made = 0
  /\ halted = FALSE

Acquire(h) ==
  /\ h \notin held
  /\ held' = held \cup {h}
  /\ \E S \in SUBSET Objects :
       /\ made < Fresh => S = {}
       /\ marked' = [marked EXCEPT ![h] = S]
  /\ made' = made + 1
  /\ UNCHANGED <<ret, halted>>

Exhausted ==
  /\ Cardinality(held) >= Capacity
  /\ halted' = TRUE
  /\ UNCHANGED <<held, marked, ret, made>>

Release(h) ==
  /\ h \in held
  /\ held' = held \ {h}
  /\ marked' = [marked EXCEPT ![h] = {}]
  /\ UNCHANGED <<ret, made, halted>>

Probe(h, o) ==
  /\ h \in held
  /\ ret' = (o \in marked[h])
  /\ UNCHANGED <<held, marked, made, halted>>

Set(h, o) ==
  /\ h \in held
  /\ ret' = (o \in marked[h])
  /\ marked' = [marked EXCEPT ![h] = @ \cup {o}]
  /\ UNCHANGED <<held, made, halted>>

Clear(h, o) ==
  /\ h \in held
  /\ ret' = (o \in marked[h])
  /\ marked' = [marked EXCEPT ![h] = @ \ {o}]
  /\ UNCHANGED <<held, made, halted>>

\* A new object takes the place of o: nobody has marked it.
Replace(o) ==
  /\ marked' = [h \in Holders |-> marked[h] \ {o}]
  /\ UNCHANGED <<held, ret, made, halted>>

Next ==
  \/ Exhausted
  \/ \E h \in Holders : Acquire(h) \/ Release(h)
  \/ \E h \in Holders, o \in Objects : Probe(h, o) \/ Set(h, o) \/ Clear(h, o)
  \/ \E o \in Objects : Replace(o)

Spec == Init /\ [][Next]_vars
=============================================================================
