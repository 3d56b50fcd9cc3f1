------------------------------- MODULE Marker -------------------------------
(***************************************************************************)
(* utils/marker: the marks a pass puts on basic blocks and instructions.   *)
(*                                                                         *)
(* A Marker is a scope-bound object.  Its constructor asks the factory for *)
(* the first free of NumSlots slots and a generation number; marking an    *)
(* object writes the generation into the object's cell for that slot, and  *)
(* an object is marked while its cell holds the marker's generation.       *)
(* Nothing is ever swept: a disposed marker leaves its generation behind   *)
(* in every object it touched, and only the next generation being a        *)
(* different one makes the old marks invisible.                            *)
(***************************************************************************)
EXTENDS Naturals, FiniteSets

CONSTANTS
  Objects,      \* Markable objects: basic blocks and instructions
  Holders,      \* scopes that declare a Marker
  NumSlots,     \* NumConcurrentMarkers
  GenMod,       \* 2^w, w the width of MarkerGenT (32 in the code)
  MaxMarkers    \* bound: markers made in one behaviour

ASSUME MarkerAssumption ==
  /\ IsFiniteSet(Holders)
  /\ NumSlots \in Nat
  /\ GenMod \in Nat /\ GenMod >= 2
  /\ MaxMarkers \in Nat

Slot == 0 .. NumSlots - 1
Gen  == 0 .. GenMod - 1
GEN_UNSET == 0

VARIABLES
  slot_tracker,   \* MarkerFactory::slot_tracker_
  current_gen,    \* the static of MarkerFactory::NewGen
  markers,        \* markers[o][s]: Markable::markers_
  held,           \* the holders whose Marker is constructed
  slot_,          \* Marker::slot_ of each holder
  gen_,           \* Marker::gen_ of each holder
  ret,            \* result of the last ProbeMark, SetMark or ClearMark
  made,           \* markers constructed so far
  halted          \* UNREACHABLE was reached: the process has stopped

vars == <<slot_tracker, current_gen, markers, held, slot_, gen_, ret, made, halted>>

TypeOK ==
  /\ slot_tracker \in [Slot -> BOOLEAN]
  /\ current_gen \in Gen
  /\ markers \in [Objects -> [Slot -> Gen]]
  /\ held \in SUBSET Holders
  /\ slot_ \in [Holders -> Nat]
  /\ gen_ \in [Holders -> Gen]
  /\ ret \in BOOLEAN
  /\ made \in Nat
  /\ halted \in BOOLEAN

NoMarks == [s \in Slot |-> GEN_UNSET]

Init ==
  /\ slot_tracker = [s \in Slot |-> FALSE]
  /\ current_gen = GEN_UNSET
  /\ markers = [o \in Objects |-> NoMarks]
  /\ held = {}
  /\ slot_ = [h \in Holders |-> 0]
  /\ gen_ = [h \in Holders |-> GEN_UNSET]
  /\ ret = FALSE
  /\ made = 0
  /\ halted = FALSE

-----------------------------------------------------------------------------
\* Mutated operations, for the mutation runs only.
NewGenNoSkip(g) == (g + 1) % GenMod
DisposeNothing(h) == slot_tracker
OtherCell(h, o, g) == [markers EXCEPT ![o] = [s \in Slot |-> g]]

-----------------------------------------------------------------------------
\* The next generation, in unsigned arithmetic: 0 is skipped when it wraps.
NewGen(g) ==
  LET n == (g + 1) % GenMod
  IN  (n + (IF n = GEN_UNSET THEN 1 ELSE 0)) % GenMod

FirstFree(s) == ~slot_tracker[s] /\ \A t \in Slot : t < s => slot_tracker[t]

InitMarker(h) ==
  /\ ~halted
  /\ h \notin held
  /\ made < MaxMarkers
  /\ \E s \in Slot :
       /\ FirstFree(s)
       /\ slot_tracker' = [slot_tracker EXCEPT ![s] = TRUE]
       /\ current_gen' = NewGen(current_gen)
       /\ gen_' = [gen_ EXCEPT ![h] = NewGen(current_gen)]
       /\ slot_' = [slot_ EXCEPT ![h] = s]
  /\ held' = held \cup {h}
  /\ made' = made + 1
  /\ UNCHANGED <<markers, ret, halted>>

\* InitMarker when every slot is taken.
NoSlotLeft(h) ==
  /\ ~halted
  /\ h \notin held
  /\ \A s \in Slot : slot_tracker[s]
  /\ halted' = TRUE
  /\ UNCHANGED <<slot_tracker, current_gen, markers, held, slot_, gen_, ret, made>>

FreedSlot(h) == [slot_tracker EXCEPT ![slot_[h]] = FALSE]

DisposeMarker(h) ==
  /\ ~halted
  /\ h \in held
  /\ slot_tracker' = FreedSlot(h)
  /\ held' = held \ {h}
  /\ UNCHANGED <<current_gen, markers, slot_, gen_, ret, made, halted>>

IsMarked(h, o) == markers[o][slot_[h]] = gen_[h]

WriteCell(h, o, g) == [markers EXCEPT ![o][slot_[h]] = g]

ProbeMark(h, o) ==
  /\ ~halted
  /\ h \in held
  /\ ret' = IsMarked(h, o)
  /\ UNCHANGED <<slot_tracker, current_gen, markers, held, slot_, gen_, made, halted>>

SetMark(h, o) ==
  /\ ~halted
  /\ h \in held
  /\ ret' = IsMarked(h, o)
  /\ markers' = WriteCell(h, o, gen_[h])
  /\ UNCHANGED <<slot_tracker, current_gen, held, slot_, gen_, made, halted>>

ClearMark(h, o) ==
  /\ ~halted
  /\ h \in held
  /\ ret' = IsMarked(h, o)
  /\ markers' = WriteCell(h, o, GEN_UNSET)
  /\ UNCHANGED <<slot_tracker, current_gen, held, slot_, gen_, made, halted>>

\* A block or instruction is destroyed and another one is constructed: passes
\* do so with markers in scope (LoopAnalysis splits back edges with two).
NewMarkable(o) ==
  /\ ~halted
  /\ markers' = [markers EXCEPT ![o] = NoMarks]
  /\ UNCHANGED <<slot_tracker, current_gen, held, slot_, gen_, ret, made, halted>>

Next ==
  \/ \E h \in Holders : InitMarker(h) \/ NoSlotLeft(h) \/ DisposeMarker(h)
  \/ \E h \in Holders, o \in Objects :
       ProbeMark(h, o) \/ SetMark(h, o) \/ ClearMark(h, o)
  \/ \E o \in Objects : NewMarkable(o)

Spec == Init /\ [][Next]_vars

-----------------------------------------------------------------------------
\* No marker in scope carries the generation an untouched object has, also
\* after the counter has wrapped: "this will make so that GEN_UNSET will never
\* be returned" (marker_factory.cpp:38).  Otherwise a pass would take every
\* block for visited and silently do nothing.
NeverUnset == \A h \in held : gen_[h] # GEN_UNSET

\* Two markers in scope never share a slot, and the tracker knows exactly the
\* slots in use: markers are constructed and disposed in nested scopes, by
\* passes that call one another, and a slot freed too early or never would be
\* seen only in a pass that runs later.
SlotsExact ==
  /\ \A g, h \in held : slot_[g] = slot_[h] => g = h
  /\ \A s \in Slot : slot_tracker[s] <=> \E h \in held : slot_[h] = s

-----------------------------------------------------------------------------
\* The refinement mapping: what a holder has marked is what it would find
\* marked if it probed every object.
marked == [h \in Holders |-> IF h \in held THEN {o \in Objects : IsMarked(h, o)} ELSE {}]

Fresh == GenMod - 1

M == INSTANCE MarkSets WITH Capacity <- NumSlots

\* The slots and generations implement private sets of marks that start empty,
\* for the first 2^w - 1 markers of the process; the marks that disposed markers
\* leave behind in the objects are never seen, and the answers of ProbeMark,
\* SetMark and ClearMark are those of the sets.
ImplementsMarkSets == M!Spec
=============================================================================
