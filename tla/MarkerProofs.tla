---------------------------- MODULE MarkerProofs ----------------------------
(***************************************************************************)
(* Proofs about Marker, for every number of slots, width of the generation *)
(* counter, set of objects and set of scopes.                              *)
(***************************************************************************)
EXTENDS Marker, FiniteSetTheorems, TLAPS

\* The generation a new marker gets is never the one of an untouched cell, and
\* until the counter wraps it is the successor of the last one.
LEMMA NewGenFacts ==
  ASSUME NEW g \in Gen
  PROVE  /\ NewGen(g) \in Gen \ {GEN_UNSET}
         /\ g + 1 < GenMod => NewGen(g) = g + 1
<1> USE MarkerAssumption DEF Gen, GEN_UNSET
<1>1. (g + 1) % GenMod \in Gen
  OBVIOUS
<1>2. CASE g + 1 < GenMod
  <2>1. (g + 1) % GenMod = g + 1
    BY <1>2
  <2>2. (g + 1 + 0) % GenMod = g + 1
    BY <1>2
  <2> QED
    BY <2>1, <2>2, <1>2 DEF NewGen
<1>3. CASE g + 1 = GenMod
  <2>1. (g + 1) % GenMod = 0
    BY <1>3
  <2>2. (0 + 1) % GenMod = 1
    OBVIOUS
  <2> QED
    BY <2>1, <2>2, <1>3 DEF NewGen
<1> QED
  BY <1>2, <1>3

-----------------------------------------------------------------------------
\* The slots of the markers in scope exist.
SlotsInRange == \A h \in held : slot_[h] \in Slot

\* Until the counter wraps, generations are given out in order and none of the
\* cells, and no marker, is ahead of the counter.
GensInOrder ==
  made < GenMod =>
    /\ current_gen = made
    /\ \A o \in Objects, s \in Slot : markers[o][s] <= made
    /\ \A h \in held : gen_[h] <= made

IInv == TypeOK /\ NeverUnset /\ SlotsInRange /\ SlotsExact /\ GensInOrder

LEMMA InitInv == Init => IInv
<1> SUFFICES ASSUME Init PROVE IInv
  OBVIOUS
<1>1. TypeOK
  <2>1. GEN_UNSET \in Gen
    BY MarkerAssumption DEF Gen, GEN_UNSET
  <2>2. NoMarks \in [Slot -> Gen]
    BY <2>1 DEF NoMarks
  <2> QED
    BY <2>1, <2>2 DEF Init, TypeOK
<1>2. NeverUnset /\ SlotsInRange /\ SlotsExact
  BY DEF Init, NeverUnset, SlotsInRange, SlotsExact
<1>3. GensInOrder
  BY DEF Init, GensInOrder, NoMarks, GEN_UNSET
<1> QED
  BY <1>1, <1>2, <1>3 DEF IInv

\* What marking or unmarking does to the types and the order of generations.
LEMMA WriteCellFacts ==
  ASSUME TypeOK, NEW h \in Holders, NEW o \in Objects, NEW g \in Gen,
         slot_[h] \in Slot
  PROVE  /\ WriteCell(h, o, g) \in [Objects -> [Slot -> Gen]]
         /\ \A p \in Objects, s \in Slot :
              WriteCell(h, o, g)[p][s] =
                IF p = o /\ s = slot_[h] THEN g ELSE markers[p][s]
  BY DEF TypeOK, WriteCell

LEMMA StepInv == IInv /\ [Next]_vars => IInv'
<1> SUFFICES ASSUME IInv, [Next]_vars PROVE IInv'
  OBVIOUS
<1> USE DEF IInv
<1>1. ASSUME NEW h \in Holders, InitMarker(h) PROVE IInv'
  <2>1. PICK s \in Slot :
           /\ FirstFree(s)
           /\ slot_tracker' = [slot_tracker EXCEPT ![s] = TRUE]
           /\ current_gen' = NewGen(current_gen)
           /\ gen_' = [gen_ EXCEPT ![h] = NewGen(current_gen)]
           /\ slot_' = [slot_ EXCEPT ![h] = s]
    BY <1>1 DEF InitMarker
  <2>2. /\ held' = held \cup {h} /\ made' = made + 1 /\ h \notin held
        /\ UNCHANGED <<markers, ret, halted>>
    BY <1>1 DEF InitMarker
  <2>3. /\ NewGen(current_gen) \in Gen \ {GEN_UNSET}
        /\ current_gen + 1 < GenMod => NewGen(current_gen) = current_gen + 1
    BY NewGenFacts DEF TypeOK
  <2>4. TypeOK'
    BY <2>1, <2>2, <2>3 DEF TypeOK, Slot
  <2>5. NeverUnset'
    BY <2>1, <2>2, <2>3 DEF TypeOK, NeverUnset
  <2>6. SlotsInRange'
    BY <2>1, <2>2 DEF TypeOK, SlotsInRange
  <2>7. SlotsExact'
    BY <2>1, <2>2 DEF TypeOK, SlotsExact, SlotsInRange, FirstFree
  <2>8. GensInOrder'
    <3> SUFFICES ASSUME made' < GenMod PROVE GensInOrder'
      BY DEF GensInOrder
    <3>1. /\ current_gen = made /\ made \in Nat
          /\ \A o \in Objects, t \in Slot : markers[o][t] \in Nat /\ markers[o][t] <= made
          /\ \A k \in held : gen_[k] <= made
      BY <2>2, MarkerAssumption DEF TypeOK, GensInOrder, Gen
    <3>2. NewGen(current_gen) = made'
      BY <2>2, <2>3, <3>1
    <3>3. \A k \in held' : gen_'[k] <= made'
      BY <2>1, <2>2, <3>1, <3>2 DEF TypeOK, Gen
    <3> QED
      BY <2>1, <2>2, <3>1, <3>2, <3>3 DEF GensInOrder
  <2> QED
    BY <2>4, <2>5, <2>6, <2>7, <2>8
<1>2. ASSUME NEW h \in Holders, NoSlotLeft(h) PROVE IInv'
  BY <1>2 DEF NoSlotLeft, TypeOK, NeverUnset, SlotsInRange, SlotsExact, GensInOrder
<1>3. ASSUME NEW h \in Holders, DisposeMarker(h) PROVE IInv'
  <2>1. /\ h \in held /\ held' = held \ {h}
        /\ slot_tracker' = [slot_tracker EXCEPT ![slot_[h]] = FALSE]
        /\ UNCHANGED <<current_gen, markers, slot_, gen_, ret, made, halted>>
    BY <1>3 DEF DisposeMarker, FreedSlot
  <2>2. TypeOK'
    BY <2>1 DEF TypeOK
  <2>3. NeverUnset' /\ SlotsInRange' /\ GensInOrder'
    BY <2>1 DEF NeverUnset, SlotsInRange, GensInOrder
  <2>4. SlotsExact'
    BY <2>1 DEF TypeOK, SlotsExact, SlotsInRange
  <2> QED
    BY <2>2, <2>3, <2>4
<1>4. ASSUME NEW h \in Holders, NEW o \in Objects, ProbeMark(h, o) PROVE IInv'
  BY <1>4
  DEF ProbeMark, IsMarked, TypeOK, NeverUnset, SlotsInRange, SlotsExact, GensInOrder
<1>5. ASSUME NEW h \in Holders, NEW o \in Objects, NEW g \in {gen_[h], GEN_UNSET},
             h \in held, markers' = WriteCell(h, o, g), ret' = IsMarked(h, o),
             UNCHANGED <<slot_tracker, current_gen, held, slot_, gen_, made, halted>>
      PROVE IInv'
  <2>1. g \in Gen /\ slot_[h] \in Slot
    BY MarkerAssumption, <1>5 DEF TypeOK, SlotsInRange, Gen, GEN_UNSET
  <2>2. /\ markers' \in [Objects -> [Slot -> Gen]]
        /\ \A p \in Objects, s \in Slot :
             markers'[p][s] = IF p = o /\ s = slot_[h] THEN g ELSE markers[p][s]
    BY <2>1, <1>5, WriteCellFacts
  <2>3. TypeOK'
    BY <2>2, <1>5 DEF TypeOK, IsMarked
  <2>4. NeverUnset' /\ SlotsInRange' /\ SlotsExact'
    BY <1>5 DEF NeverUnset, SlotsInRange, SlotsExact
  <2>5. GensInOrder'
    <3> SUFFICES ASSUME made < GenMod, NEW p \in Objects, NEW s \in Slot
                 PROVE  markers'[p][s] <= made
      BY <1>5 DEF GensInOrder
    <3>1. g <= made
      BY <1>5 DEF TypeOK, GensInOrder, GEN_UNSET
    <3> QED
      BY <3>1, <2>2 DEF GensInOrder
  <2> QED
    BY <2>3, <2>4, <2>5
<1>6. ASSUME NEW o \in Objects, NewMarkable(o) PROVE IInv'
  <2>1. TypeOK'
    BY <1>6, MarkerAssumption DEF NewMarkable, TypeOK, NoMarks, Gen, GEN_UNSET
  <2>2. NeverUnset' /\ SlotsInRange' /\ SlotsExact'
    BY <1>6 DEF NewMarkable, NeverUnset, SlotsInRange, SlotsExact
  <2>3. GensInOrder'
    BY <1>6 DEF NewMarkable, TypeOK, GensInOrder, NoMarks, GEN_UNSET
  <2> QED
    BY <2>1, <2>2, <2>3
<1>7. CASE UNCHANGED vars
  BY <1>7
  DEF vars, TypeOK, NeverUnset, SlotsInRange, SlotsExact, GensInOrder
<1>8. ASSUME NEW h \in Holders, NEW o \in Objects, SetMark(h, o) PROVE IInv'
  BY <1>5, <1>8 DEF SetMark
<1>9. ASSUME NEW h \in Holders, NEW o \in Objects, ClearMark(h, o) PROVE IInv'
  BY <1>5, <1>9 DEF ClearMark
<1> QED
  BY <1>1, <1>2, <1>3, <1>4, <1>6, <1>7, <1>8, <1>9 DEF Next

-----------------------------------------------------------------------------
THEOREM InductiveInvariant == Spec => []IInv
  BY InitInv, StepInv, PTL DEF Spec

\* Every variable keeps its type: the counter fits its width and every slot a
\* marker holds is an index of the object's cells (marker_factory.cpp:5).
THEOREM TypeCorrect == Spec => []TypeOK
  BY InductiveInvariant, PTL DEF IInv

\* No marker in scope ever carries GEN_UNSET, also after the counter has wrapped
\* (marker_factory.cpp:35).
THEOREM GenNeverUnset == Spec => []NeverUnset
  BY InductiveInvariant, PTL DEF IInv

\* The tracker knows exactly the slots in use, and no two markers share one
\* (marker_factory.cpp:5).
THEOREM SlotOwnership == Spec => []SlotsExact
  BY InductiveInvariant, PTL DEF IInv

-----------------------------------------------------------------------------
\* Slots only run out when there are as many markers in scope as slots.
LEMMA AllSlotsTaken ==
  ASSUME IInv, \A s \in Slot : slot_tracker[s]
  PROVE  Cardinality(held) >= NumSlots
<1> DEFINE f == [h \in held |-> slot_[h]]
<1>1. f \in Surjection(held, Slot)
  BY DEF IInv, SlotsInRange, SlotsExact, Surjection
<1>2. IsFiniteSet(held)
  BY MarkerAssumption, FS_Subset DEF IInv, TypeOK
<1>3. Cardinality(Slot) = NumSlots
  <2>1. NumSlots - 1 \in Int /\ 0 \in Int
    BY MarkerAssumption
  <2>2. Cardinality(0 .. NumSlots - 1) = IF 0 > NumSlots - 1 THEN 0 ELSE NumSlots - 1 - 0 + 1
    BY <2>1, FS_Interval
  <2> QED
    BY <2>2, MarkerAssumption DEF Slot
<1>4. Cardinality(Slot) <= Cardinality(held)
  BY <1>1, <1>2, FS_Surjection
<1>5. Cardinality(held) \in Nat
  BY <1>2, FS_CardinalityType
<1> QED
  BY <1>3, <1>4, <1>5, MarkerAssumption

\* Writing through one marker is invisible to every other marker in scope.
LEMMA WriteCellMarks ==
  ASSUME IInv, NEW h \in held, NEW o \in Objects, NEW g \in Gen,
         markers' = WriteCell(h, o, g), UNCHANGED <<held, slot_, gen_>>
  PROVE  \A k \in Holders, p \in Objects :
           p \in marked'[k] <=>
             IF k = h /\ p = o THEN g = gen_[h] ELSE p \in marked[k]
<1>1. h \in Holders /\ slot_[h] \in Slot
  BY DEF IInv, TypeOK, SlotsInRange
<1>2. \A p \in Objects, s \in Slot :
         markers'[p][s] = IF p = o /\ s = slot_[h] THEN g ELSE markers[p][s]
  BY <1>1, WriteCellFacts DEF IInv
<1>3. ASSUME NEW k \in held, NEW p \in Objects
      PROVE  IsMarked(k, p)' <=> IF k = h /\ p = o THEN g = gen_[h] ELSE IsMarked(k, p)
  <2>1. slot_[k] \in Slot /\ (slot_[k] = slot_[h] => k = h)
    BY <1>3 DEF IInv, SlotsInRange, SlotsExact
  <2> QED
    BY <1>2, <1>3, <2>1 DEF IsMarked
<1> QED
  BY <1>3 DEF marked

LEMMA MarkedType == marked \in [Holders -> SUBSET Objects]
  BY DEF marked

\* Every step of the implementation is a step of MarkSets or leaves it alone.
LEMMA StepRefines == IInv /\ [Next]_vars => [M!Next]_(M!vars)
<1> SUFFICES ASSUME IInv, [Next]_vars PROVE [M!Next]_(M!vars)
  OBVIOUS
<1>m. marked \in [Holders -> SUBSET Objects] /\ marked' \in [Holders -> SUBSET Objects]
  BY MarkedType DEF marked
<1>1. ASSUME NEW h \in Holders, InitMarker(h) PROVE M!Acquire(h)
  <2>1. PICK s \in Slot :
           /\ FirstFree(s)
           /\ current_gen' = NewGen(current_gen)
           /\ gen_' = [gen_ EXCEPT ![h] = NewGen(current_gen)]
           /\ slot_' = [slot_ EXCEPT ![h] = s]
    BY <1>1 DEF InitMarker
  <2>2. /\ held' = held \cup {h} /\ made' = made + 1 /\ h \notin held
        /\ UNCHANGED <<markers, ret, halted>>
    BY <1>1 DEF InitMarker
  <2> DEFINE S == {o \in Objects : markers[o][s] = NewGen(current_gen)}
  <2>3. marked' = [marked EXCEPT ![h] = S]
    <3>1. ASSUME NEW k \in Holders PROVE marked'[k] = IF k = h THEN S ELSE marked[k]
      <4>1. CASE k = h
        <5>1. k \in held' /\ slot_'[k] = s /\ gen_'[k] = NewGen(current_gen)
          BY <2>1, <2>2, <4>1 DEF IInv, TypeOK
        <5> QED
          BY <2>2, <4>1, <5>1 DEF marked, IsMarked
      <4>2. CASE k # h
        <5>1. (k \in held' <=> k \in held) /\ slot_'[k] = slot_[k] /\ gen_'[k] = gen_[k]
          BY <2>1, <2>2, <4>2 DEF IInv, TypeOK
        <5> QED
          BY <2>2, <4>2, <5>1 DEF marked, IsMarked
      <4> QED
        BY <4>1, <4>2
    <3> QED
      BY <3>1, <1>m
  <2>4. made < Fresh => S = {}
    <3> SUFFICES ASSUME made < Fresh, NEW o \in Objects
                 PROVE  markers[o][s] # NewGen(current_gen)
      OBVIOUS
    <3>1. current_gen = made /\ markers[o][s] <= made
      BY MarkerAssumption DEF IInv, TypeOK, GensInOrder, Fresh
    <3>2. NewGen(current_gen) = made + 1
      BY <3>1, NewGenFacts, MarkerAssumption DEF IInv, TypeOK, Fresh
    <3>3. markers[o][s] \in Nat /\ made \in Nat
      BY DEF IInv, TypeOK, Gen
    <3> QED
      BY <3>1, <3>2, <3>3
  <2> QED
    BY <2>2, <2>3, <2>4 DEF M!Acquire
<1>2. ASSUME NEW h \in Holders, NoSlotLeft(h) PROVE M!Exhausted
  <2>1. marked' = marked
    BY <1>2 DEF NoSlotLeft, marked, IsMarked
  <2>2. Cardinality(held) >= NumSlots
    BY <1>2, AllSlotsTaken DEF NoSlotLeft
  <2>3. halted' = TRUE /\ UNCHANGED <<held, ret, made>>
    BY <1>2 DEF NoSlotLeft
  <2>4. Cardinality(held) = M!Cardinality(held)
    BY DEF Cardinality, M!Cardinality
  <2> QED
    BY <2>1, <2>2, <2>3, <2>4 DEF M!Exhausted
<1>3. ASSUME NEW h \in Holders, DisposeMarker(h) PROVE M!Release(h)
  <2>1. h \in held /\ held' = held \ {h} /\ UNCHANGED <<markers, slot_, gen_, ret, made, halted>>
    BY <1>3 DEF DisposeMarker
  <2>2. \A k \in Holders : marked'[k] = IF k = h THEN {} ELSE marked[k]
    BY <2>1 DEF marked, IsMarked
  <2>3. marked' = [marked EXCEPT ![h] = {}]
    BY <2>2, <1>m
  <2> QED
    BY <2>1, <2>3 DEF M!Release
<1>4. ASSUME NEW h \in Holders, NEW o \in Objects, ProbeMark(h, o) PROVE M!Probe(h, o)
  <2>1. marked' = marked
    BY <1>4 DEF ProbeMark, marked, IsMarked
  <2>2. h \in held /\ ret' = IsMarked(h, o) /\ UNCHANGED <<held, made, halted>>
    BY <1>4 DEF ProbeMark
  <2>3. ret' = (o \in marked[h])
    BY <2>2 DEF marked, IsMarked
  <2> QED
    BY <2>1, <2>2, <2>3 DEF M!Probe
<1>5. ASSUME NEW h \in Holders, NEW o \in Objects, SetMark(h, o) PROVE M!Set(h, o)
  <2>1. /\ h \in held /\ ret' = IsMarked(h, o) /\ markers' = WriteCell(h, o, gen_[h])
        /\ UNCHANGED <<held, slot_, gen_, made, halted>>
    BY <1>5 DEF SetMark
  <2>2. gen_[h] \in Gen
    BY DEF IInv, TypeOK
  <2>3. \A k \in Holders, p \in Objects :
           p \in marked'[k] <=> ((k = h /\ p = o) \/ p \in marked[k])
    BY <2>1, <2>2, WriteCellMarks
  <2>4. \A k \in Holders : marked'[k] = IF k = h THEN marked[k] \cup {o} ELSE marked[k]
    BY <2>3, <1>m
  <2>5. marked' = [marked EXCEPT ![h] = @ \cup {o}]
    BY <2>4, <1>m
  <2>6. ret' = (o \in marked[h])
    BY <2>1 DEF marked, IsMarked
  <2> QED
    BY <2>1, <2>5, <2>6 DEF M!Set
<1>6. ASSUME NEW h \in Holders, NEW o \in Objects, ClearMark(h, o) PROVE M!Clear(h, o)
  <2>1. /\ h \in held /\ ret' = IsMarked(h, o) /\ markers' = WriteCell(h, o, GEN_UNSET)
        /\ UNCHANGED <<held, slot_, gen_, made, halted>>
    BY <1>6 DEF ClearMark
  <2>2. GEN_UNSET \in Gen /\ gen_[h] # GEN_UNSET
    BY <2>1, MarkerAssumption DEF IInv, NeverUnset, Gen, GEN_UNSET
  <2>3. \A k \in Holders, p \in Objects :
           p \in marked'[k] <=> (~(k = h /\ p = o) /\ p \in marked[k])
    BY <2>1, <2>2, WriteCellMarks
  <2>4. \A k \in Holders : marked'[k] = IF k = h THEN marked[k] \ {o} ELSE marked[k]
    BY <2>3, <1>m
  <2>5. marked' = [marked EXCEPT ![h] = @ \ {o}]
    BY <2>4, <1>m
  <2>6. ret' = (o \in marked[h])
    BY <2>1 DEF marked, IsMarked
  <2> QED
    BY <2>1, <2>5, <2>6 DEF M!Clear
<1>7. ASSUME NEW o \in Objects, NewMarkable(o) PROVE M!Replace(o)
  <2>1. /\ markers' = [markers EXCEPT ![o] = NoMarks]
        /\ UNCHANGED <<held, slot_, gen_, ret, made, halted>>
    BY <1>7 DEF NewMarkable
  <2>2. ASSUME NEW k \in held, NEW p \in Objects
        PROVE  IsMarked(k, p)' <=> p # o /\ IsMarked(k, p)
    <3>1. slot_[k] \in Slot /\ gen_[k] # GEN_UNSET
      BY <2>2 DEF IInv, SlotsInRange, NeverUnset
    <3> QED
      BY <2>1, <2>2, <3>1 DEF IsMarked, NoMarks, IInv, TypeOK
  <2>3. \A k \in Holders : marked'[k] = marked[k] \ {o}
    BY <2>1, <2>2 DEF marked
  <2>4. marked' = [k \in Holders |-> marked[k] \ {o}]
    BY <2>3, <1>m
  <2> QED
    BY <2>1, <2>4 DEF M!Replace
<1>8. CASE UNCHANGED vars
  BY <1>8 DEF vars, M!vars, marked, IsMarked
<1> QED
  BY <1>1, <1>2, <1>3, <1>4, <1>5, <1>6, <1>7, <1>8 DEF Next, M!Next

\* The shared slots and generations behave as private sets of marks that start
\* empty, for the first 2^w - 1 markers of the process; a pass never sees the
\* marks of another, and only running out of slots stops it
\* (marker_factory.cpp, markable.cpp).
THEOREM MarkerRefinesMarkSets == Spec => ImplementsMarkSets
<1>1. Init => M!Init
  BY DEF Init, M!Init, marked
<1> QED
  BY <1>1, InductiveInvariant, StepRefines, PTL DEF Spec, ImplementsMarkSets, M!Spec
=============================================================================
