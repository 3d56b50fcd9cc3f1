-------------------------- MODULE LinearScanProofs --------------------------
(***************************************************************************)
(* Proofs about LinearScan, for every number of registers, of live ranges  *)
(* and of points.                                                          *)
(***************************************************************************)
EXTENDS LinearScan, FiniteSetTheorems, TLAPS

\* A scan of 1 .. L that stops at the first element outside S stops somewhere:
\* the loops that walk a list up to the first entry of a kind are defined with
\* CHOOSE over where they stop.
LEMMA ScanStops ==
  ASSUME NEW L \in Nat, NEW S
  PROVE  \E n \in 0 .. L : /\ \A k \in 1 .. n : k \in S
                           /\ n < L => n + 1 \notin S
<1> DEFINE T == {k \in 1 .. L : \A j \in 1 .. k : j \in S}
           n == Cardinality(T)
<1>1. IsFiniteSet(1 .. L) /\ Cardinality(1 .. L) = L
  BY FS_Interval
<1>2. IsFiniteSet(T) /\ n \in Nat /\ n <= L
  <2>1. T \in SUBSET (1 .. L)
    OBVIOUS
  <2>2. IsFiniteSet(T) /\ Cardinality(T) <= Cardinality(1 .. L)
    BY <1>1, <2>1, FS_Subset
  <2> QED
    BY <1>1, <2>2, FS_CardinalityType
<1>3. \A k \in T : k <= n
  <2> SUFFICES ASSUME NEW k \in T PROVE k <= n
    OBVIOUS
  <2>1. 1 .. k \in SUBSET T
    OBVIOUS
  <2>2. Cardinality(1 .. k) <= Cardinality(T)
    BY <1>2, <2>1, FS_Subset
  <2>3. Cardinality(1 .. k) = k
    BY FS_Interval
  <2> QED
    BY <2>2, <2>3
<1>4. T = 1 .. n
  <2>1. IsFiniteSet(1 .. n) /\ Cardinality(1 .. n) = n
    BY <1>2, FS_Interval
  <2>2. T \in SUBSET (1 .. n)
    BY <1>2, <1>3
  <2> HIDE DEF T
  <2> QED
    BY <2>1, <2>2, FS_Subset
<1>5. \A k \in 1 .. n : k \in S
  BY <1>2, <1>4
<1>6. n < L => n + 1 \notin S
  <2> SUFFICES ASSUME n < L, n + 1 \in S PROVE FALSE
    OBVIOUS
  <2>1. n + 1 \in T
    <3> HIDE DEF n
    <3> QED
      BY <1>2, <1>5
  <2> QED
    BY <1>2, <1>3, <2>1
<1> HIDE DEF n
<1> QED
  BY <1>2, <1>5, <1>6

\* The first register that is not in use, when one is not.
LEMMA FirstFreeExists ==
  ASSUME NEW m \in [Regs -> BOOLEAN], NEW q \in Regs, ~m[q]
  PROVE  \E r \in Regs : FirstFree(m, r)
<1> USE LinearScanAssumption DEF Regs
<1> DEFINE S == {k \in 1 .. NumRegs : \E r \in Regs : k = r + 1 /\ m[r]}
<1>1. PICK n \in 0 .. NumRegs : /\ \A k \in 1 .. n : k \in S
                                /\ n < NumRegs => n + 1 \notin S
  <2> HIDE DEF S
  <2> QED
    BY ScanStops
<1>2. \A p \in Regs : p < n => m[p]
  <2> SUFFICES ASSUME NEW p \in Regs, p < n PROVE m[p]
    OBVIOUS
  <2>1. p + 1 \in S
    <3>1. p + 1 \in 1 .. n
      OBVIOUS
    <3> HIDE DEF S
    <3> QED
      BY <3>1, <1>1
  <2>2. PICK r \in Regs : p + 1 = r + 1 /\ m[r]
    BY <2>1
  <2>3. p = r
    BY <2>2
  <2> QED
    BY <2>2, <2>3
<1>3. n < NumRegs
  <2>1. ~(q < n)
    BY <1>2
  <2> QED
    BY <2>1
<1>4. ~m[n]
  <2>1. n + 1 \notin S /\ n \in Regs /\ n + 1 \in 1 .. NumRegs
    <3> HIDE DEF S
    <3> QED
      BY <1>1, <1>3
  <2> QED
    BY <2>1
<1> QED
  BY <1>2, <1>3, <1>4 DEF FirstFree

-----------------------------------------------------------------------------
\* A list of ranges by increasing index of the list, with their ends.
RangesOK == ranges_ \in [Index -> LiveRanges]

LEMMA EndIsPoint ==
  ASSUME RangesOK, NEW i \in Index
  PROVE  Start(i) \in Nat /\ End(i) \in Nat
BY LinearScanAssumption DEF RangesOK, LiveRanges, Points, Start, End

\* The expired ranges are a prefix of the list, and what is left of it is a
\* suffix that holds every range that did not expire.
LEMMA UnexpiredFacts ==
  ASSUME RangesOK, active_ \in Seq(Index), cur \in Index
  PROVE  /\ NumExpired \in 0 .. Len(active_)
         /\ \A k \in 1 .. NumExpired : End(active_[k]) <= Start(cur)
         /\ NumErased \in 0 .. NumExpired
         /\ Unexpired \in Seq(Index)
         /\ Len(Unexpired) = Len(active_) - NumErased
         /\ \A k \in 1 .. Len(Unexpired) : Unexpired[k] = active_[k + NumErased]
<1> DEFINE S == {k \in 1 .. Len(active_) : End(active_[k]) <= Start(cur)}
           Stop(n) == /\ \A k \in 1 .. n : End(active_[k]) <= Start(cur)
                      /\ n < Len(active_) => Start(cur) < End(active_[n + 1])
<1>1. \E n \in 0 .. Len(active_) : Stop(n)
  <2>1. PICK n \in 0 .. Len(active_) : /\ \A k \in 1 .. n : k \in S
                                       /\ n < Len(active_) => n + 1 \notin S
    <3>1. Len(active_) \in Nat
      OBVIOUS
    <3> HIDE DEF S
    <3> QED
      BY <3>1, ScanStops
  <2>2. ASSUME n < Len(active_) PROVE Start(cur) < End(active_[n + 1])
    <3>1. n + 1 \in 1 .. Len(active_) /\ active_[n + 1] \in Index
      BY <2>2
    <3>2. ~(End(active_[n + 1]) <= Start(cur))
      BY <2>1, <2>2, <3>1
    <3> QED
      BY <3>1, <3>2, EndIsPoint
  <2> QED
    BY <2>1, <2>2
<1>e. NumExpired \in 0 .. Len(active_) /\ Stop(NumExpired)
  <2>1. NumExpired = CHOOSE n \in 0 .. Len(active_) : Stop(n)
    BY DEF NumExpired
  <2> HIDE DEF Stop
  <2> QED
    BY <1>1, <2>1
<1>2. NumExpired \in 0 .. Len(active_)
  BY <1>e
<1>3. NumErased \in 0 .. NumExpired
  <2>1. CASE NumExpired = Len(active_) /\ active_ # <<>>
    <3>1. Len(active_) \in Nat /\ Len(active_) # 0
      BY <2>1
    <3> QED
      BY <2>1, <3>1 DEF NumErased
  <2>2. CASE ~(NumExpired = Len(active_) /\ active_ # <<>>)
    BY <1>2, <2>2 DEF NumErased
  <2> QED
    BY <2>1, <2>2
<1> QED
  BY <1>e, <1>3 DEF Unexpired

\* A range is put into the list at some place and moves nothing else.
LEMMA AddToActiveFacts ==
  ASSUME RangesOK, NEW a \in Seq(Index), NEW i \in Index
  PROVE  /\ AddToActive(a, i) \in Seq(Index)
         /\ Len(AddToActive(a, i)) = Len(a) + 1
         /\ \E p \in 1 .. Len(a) + 1 :
              /\ \A k \in 1 .. p - 1 : End(a[k]) <= End(i)
              /\ p <= Len(a) => End(i) < End(a[p])
              /\ \A k \in 1 .. Len(a) + 1 :
                   AddToActive(a, i)[k] =
                     IF k < p THEN a[k] ELSE IF k = p THEN i ELSE a[k - 1]
<1> DEFINE S == {k \in 1 .. Len(a) : End(a[k]) <= End(i)}
           Behind(p) == /\ \A k \in 1 .. p - 1 : End(a[k]) <= End(i)
                        /\ p <= Len(a) => End(i) < End(a[p])
<1>1. \E p \in 1 .. Len(a) + 1 : Behind(p)
  <2>1. PICK n \in 0 .. Len(a) : /\ \A k \in 1 .. n : k \in S
                                 /\ n < Len(a) => n + 1 \notin S
    <3>1. Len(a) \in Nat
      OBVIOUS
    <3> HIDE DEF S
    <3> QED
      BY <3>1, ScanStops
  <2>2. ASSUME n + 1 <= Len(a) PROVE End(i) < End(a[n + 1])
    <3>1. n + 1 \in 1 .. Len(a) /\ a[n + 1] \in Index
      BY <2>2
    <3>2. ~(End(a[n + 1]) <= End(i))
      BY <2>1, <2>2, <3>1
    <3> QED
      BY <3>1, <3>2, EndIsPoint
  <2>3. Behind(n + 1)
    BY <2>1, <2>2
  <2> QED
    BY <2>3
<1> DEFINE pos == CHOOSE p \in 1 .. Len(a) + 1 : Behind(p)
<1>p. pos \in 1 .. Len(a) + 1 /\ Behind(pos)
  <2> HIDE DEF Behind
  <2> QED
    BY <1>1
<1>2. pos \in 1 .. Len(a) + 1
  BY <1>p
<1> DEFINE front == SubSeq(a, 1, pos - 1)
           back == SubSeq(a, pos, Len(a))
<1>3. AddToActive(a, i) = front \o <<i>> \o back
  BY DEF AddToActive, InsertAt
<1> HIDE DEF pos
<1>4. /\ front \in Seq(Index) /\ Len(front) = pos - 1
      /\ \A k \in 1 .. pos - 1 : front[k] = a[k]
  BY <1>2
<1>5. /\ back \in Seq(Index) /\ Len(back) = Len(a) + 1 - pos
      /\ \A k \in 1 .. Len(a) + 1 - pos : back[k] = a[k + pos - 1]
  BY <1>2
<1> HIDE DEF front, back
<1> DEFINE upto == front \o <<i>>
<1>6. /\ upto \in Seq(Index) /\ Len(upto) = pos
      /\ \A k \in 1 .. pos : upto[k] = IF k < pos THEN a[k] ELSE i
  BY <1>2, <1>4
<1> HIDE DEF upto
<1>7. upto \o back \in Seq(Index) /\ Len(upto \o back) = Len(a) + 1
  BY <1>2, <1>5, <1>6
<1>8. ASSUME NEW k \in 1 .. Len(a) + 1
      PROVE  (upto \o back)[k] = IF k < pos THEN a[k] ELSE IF k = pos THEN i ELSE a[k - 1]
  <2>1. CASE k <= pos
    <3>1. k \in 1 .. pos /\ (upto \o back)[k] = upto[k]
      BY <1>2, <1>5, <1>6, <2>1
    <3> QED
      BY <1>2, <1>6, <2>1, <3>1
  <2>2. CASE pos < k
    <3>1. (upto \o back)[k] = back[k - pos]
      BY <1>2, <1>5, <1>6, <2>2
    <3>2. k - pos \in 1 .. Len(a) + 1 - pos /\ (k - pos) + pos - 1 = k - 1
      BY <1>2, <2>2
    <3>3. back[k - pos] = a[k - 1]
      BY <1>5, <3>2
    <3> QED
      BY <1>2, <2>2, <3>1, <3>3
  <2>3. k <= pos \/ pos < k
    BY <1>2
  <2> QED
    BY <2>1, <2>2, <2>3
<1>9. AddToActive(a, i) = upto \o back
  BY <1>3 DEF upto
<1> QED
  BY <1>p, <1>7, <1>8, <1>9
-----------------------------------------------------------------------------
\* What the lists of active ranges keep: increasing ends, no range twice.
ByEnd(a)  == \A k, l \in 1 .. Len(a) : k < l => End(a[k]) <= End(a[l])
Once(a)   == \A k, l \in 1 .. Len(a) : a[k] = a[l] => k = l
In(i, a)  == \E k \in 1 .. Len(a) : a[k] = i

LEMMA AddToActiveKeeps ==
  ASSUME RangesOK, NEW a \in Seq(Index), NEW i \in Index, ByEnd(a), Once(a), ~In(i, a)
  PROVE  /\ AddToActive(a, i) \in Seq(Index)
         /\ Len(AddToActive(a, i)) = Len(a) + 1
         /\ ByEnd(AddToActive(a, i))
         /\ Once(AddToActive(a, i))
         /\ \A j \in Index : In(j, AddToActive(a, i)) <=> j = i \/ In(j, a)
<1> DEFINE b == AddToActive(a, i)
<1>1. b \in Seq(Index) /\ Len(b) = Len(a) + 1
  BY AddToActiveFacts
<1>2. PICK p \in 1 .. Len(a) + 1 :
         /\ \A k \in 1 .. p - 1 : End(a[k]) <= End(i)
         /\ p <= Len(a) => End(i) < End(a[p])
         /\ \A k \in 1 .. Len(a) + 1 :
              b[k] = IF k < p THEN a[k] ELSE IF k = p THEN i ELSE a[k - 1]
  BY AddToActiveFacts
<1> HIDE DEF b
<1>3. Len(a) \in Nat /\ \A k \in 1 .. Len(a) : a[k] \in Index /\ a[k] # i
  BY DEF In
<1>4. \A j \in Index : End(j) \in Nat
  BY EndIsPoint
<1>5. Len(a) \in Nat
  BY <1>3
\* Those before the place end no later than i, those from it on no sooner.
<1>6. \A k \in 1 .. Len(a) : /\ k < p => End(a[k]) <= End(i)
                             /\ p <= k => End(i) <= End(a[k])
  <2> SUFFICES ASSUME NEW k \in 1 .. Len(a)
               PROVE  (k < p => End(a[k]) <= End(i)) /\ (p <= k => End(i) <= End(a[k]))
    OBVIOUS
  <2>1. k < p => End(a[k]) <= End(i)
    <3>1. k < p => k \in 1 .. p - 1
      BY <1>5
    <3> QED
      BY <1>2, <3>1
  <2>2. ASSUME p <= k PROVE End(i) <= End(a[k])
    <3>1. p \in 1 .. Len(a) /\ p <= Len(a) /\ (p < k \/ p = k)
      BY <1>5, <2>2
    <3>2. End(i) < End(a[p])
      BY <1>2, <3>1
    <3>3. p < k => End(a[p]) <= End(a[k])
      BY <3>1 DEF ByEnd
    <3> QED
      BY <1>3, <1>4, <3>1, <3>2, <3>3
  <2> QED
    BY <2>1, <2>2
\* Where the entries of the new list come from.
<1>7. \A k \in 1 .. Len(a) + 1 :
         /\ k < p => k \in 1 .. Len(a) /\ b[k] = a[k]
         /\ k = p => b[k] = i
         /\ p < k => k - 1 \in 1 .. Len(a) /\ p <= k - 1 /\ b[k] = a[k - 1]
  <2> SUFFICES ASSUME NEW k \in 1 .. Len(a) + 1
               PROVE  /\ k < p => k \in 1 .. Len(a) /\ b[k] = a[k]
                      /\ k = p => b[k] = i
                      /\ p < k => k - 1 \in 1 .. Len(a) /\ p <= k - 1 /\ b[k] = a[k - 1]
    OBVIOUS
  <2>1. b[k] = IF k < p THEN a[k] ELSE IF k = p THEN i ELSE a[k - 1]
    BY <1>2
  <2>2. /\ k < p => k \in 1 .. Len(a)
        /\ k = p => ~(k < p)
        /\ p < k => k - 1 \in 1 .. Len(a) /\ p <= k - 1 /\ ~(k < p) /\ k # p
    BY <1>5
  <2> QED
    BY <2>1, <2>2
<1>8. ByEnd(b)
  <2> SUFFICES ASSUME NEW k \in 1 .. Len(a) + 1, NEW l \in 1 .. Len(a) + 1, k < l
               PROVE  End(b[k]) <= End(b[l])
    BY <1>1 DEF ByEnd
  <2>1. CASE l < p
    <3>1. k < p
      BY <1>5, <2>1
    <3> QED
      BY <1>7, <2>1, <3>1 DEF ByEnd
  <2>2. CASE k < p /\ l = p
    BY <1>6, <1>7, <2>2
  <2>3. CASE k < p /\ p < l
    <3>1. End(a[k]) <= End(i) /\ End(i) <= End(a[l - 1])
      BY <1>6, <1>7, <2>3
    <3>2. End(a[k]) <= End(a[l - 1])
      BY <1>3, <1>4, <1>7, <2>3, <3>1
    <3> QED
      BY <1>7, <2>3, <3>2
  <2>4. CASE k = p
    <3>1. p < l
      BY <2>4
    <3> QED
      BY <1>6, <1>7, <2>4, <3>1
  <2>5. CASE p < k
    <3>1. p < l /\ k - 1 < l - 1
      BY <1>5, <2>5
    <3> QED
      BY <1>7, <2>5, <3>1 DEF ByEnd
  <2>6. l < p \/ (k < p /\ l = p) \/ (k < p /\ p < l) \/ k = p \/ p < k
    BY <1>5
  <2> QED
    BY <2>1, <2>2, <2>3, <2>4, <2>5, <2>6
<1>9. Once(b)
  <2> SUFFICES ASSUME NEW k \in 1 .. Len(a) + 1, NEW l \in 1 .. Len(a) + 1, b[k] = b[l], k < l
               PROVE  FALSE
    BY <1>1, <1>5 DEF Once
  <2>1. CASE l < p
    <3>1. k < p
      BY <1>5, <2>1
    <3> QED
      BY <1>7, <2>1, <3>1 DEF Once
  <2>2. CASE l = p
    <3>1. k < p
      BY <1>5, <2>2
    <3> QED
      BY <1>3, <1>7, <2>2, <3>1
  <2>3. CASE k = p
    <3>1. p < l
      BY <2>3
    <3> QED
      BY <1>3, <1>7, <2>3, <3>1
  <2>4. CASE k < p /\ p < l
    <3>1. k # l - 1
      BY <1>5, <2>4
    <3> QED
      BY <1>7, <2>4, <3>1 DEF Once
  <2>5. CASE p < k
    <3>1. p < l /\ k - 1 # l - 1
      BY <1>5, <2>5
    <3> QED
      BY <1>7, <2>5, <3>1 DEF Once
  <2>6. l < p \/ l = p \/ k = p \/ (k < p /\ p < l) \/ p < k
    BY <1>5
  <2> QED
    BY <2>1, <2>2, <2>3, <2>4, <2>5, <2>6
<1>10. ASSUME NEW j \in Index PROVE In(j, b) <=> j = i \/ In(j, a)
  <2>1. ASSUME In(j, b) PROVE j = i \/ In(j, a)
    <3>1. PICK k \in 1 .. Len(a) + 1 : b[k] = j
      BY <1>1, <2>1 DEF In
    <3>2. CASE k < p
      BY <1>2, <1>3, <3>1, <3>2 DEF In
    <3>3. CASE k = p
      BY <1>2, <3>1, <3>3
    <3>4. CASE p < k
      <4>1. k - 1 \in 1 .. Len(a) /\ a[k - 1] = j
        BY <1>2, <1>3, <3>1, <3>4
      <4> QED
        BY <4>1 DEF In
    <3> QED
      BY <3>2, <3>3, <3>4
  <2>2. ASSUME j = i PROVE In(j, b)
    <3>1. p \in 1 .. Len(b) /\ b[p] = i
      BY <1>1, <1>2, <1>3
    <3> QED
      BY <2>2, <3>1 DEF In
  <2>3. ASSUME In(j, a) PROVE In(j, b)
    <3>1. PICK k \in 1 .. Len(a) : a[k] = j
      BY <2>3 DEF In
    <3>2. CASE k < p
      <4>1. k \in 1 .. Len(b) /\ b[k] = j
        BY <1>1, <1>2, <1>3, <3>1, <3>2
      <4> QED
        BY <4>1 DEF In
    <3>3. CASE ~(k < p)
      <4>1. k + 1 \in 1 .. Len(b) /\ ~(k + 1 < p) /\ k + 1 # p /\ (k + 1) - 1 = k
        BY <1>1, <1>2, <1>3, <3>3
      <4>2. b[k + 1] = j
        BY <1>1, <1>2, <3>1, <4>1
      <4> QED
        BY <4>1, <4>2 DEF In
    <3> QED
      BY <3>2, <3>3
  <2> QED
    BY <2>1, <2>2, <2>3
<1> QED
  BY <1>1, <1>8, <1>9, <1>10 DEF b
-----------------------------------------------------------------------------
\* The inductive invariant.

\* The ranges are served in the order of their starts.
ByStart == \A i, j \in Index : i < j => Start(i) <= Start(j)

UnservedUnset == \A i \in Index : cur <= i => location[i].where = "UNSET"

\* The list of active ranges: no more than there are registers, each served, each
\* on a register, none twice, by increasing end.
ActiveListed ==
  /\ Len(active_) <= NumRegs
  /\ \A k \in 1 .. Len(active_) : /\ active_[k] < cur
                                  /\ location[active_[k]].where = "REGISTER"
  /\ Once(active_)
  /\ ByEnd(active_)

\* A range on a register that reaches beyond the last start is in the list.
LiveListed ==
  \A i \in Index : /\ i < cur
                   /\ location[i].where = "REGISTER"
                   /\ Start(cur - 1) < End(i)
                   => In(i, active_)

\* A register in use is held by a range of the list.
UsedIsHeld ==
  \A r \in Regs : reg_map_[r] => \E k \in 1 .. Len(active_) : location[active_[k]].slot = r

\* And the other way round, and by one range only, until the list was drained:
\* then a range stays in it whose register was released.
HeldIsUsed ==
  ~drained => \A k \in 1 .. Len(active_) : reg_map_[location[active_[k]].slot]
HeldOnce ==
  ~drained => \A k, l \in 1 .. Len(active_) :
                location[active_[k]].slot = location[active_[l]].slot => k = l

\* The slots given out are below the next one.
SlotsBelow ==
  /\ current_stack_slot < cur
  /\ \A i \in Index : location[i].where = "STACK" => location[i].slot < current_stack_slot

IInv ==
  /\ TypeOK /\ ByStart /\ UnservedUnset
  /\ ActiveListed /\ LiveListed
  /\ UsedIsHeld /\ HeldIsUsed /\ HeldOnce /\ SlotsBelow
  /\ EveryRangeLocated /\ StackSlotsPrivate /\ ExclusiveUntilDrained
-----------------------------------------------------------------------------
DrainedNow == active_ # <<>> /\ NumExpired = Len(active_)

LEMMA TypeFacts ==
  ASSUME IInv
  PROVE  /\ RangesOK
         /\ active_ \in Seq(Index) /\ Len(active_) \in Nat
         /\ \A k \in 1 .. Len(active_) : active_[k] \in Index
         /\ \A i \in Index : /\ location[i] \in Locations
                             /\ location[i].slot \in Nat
                             /\ location[i].where = "REGISTER" => location[i].slot \in Regs
         /\ \A i \in Index : Start(i) \in Nat /\ End(i) \in Nat
         /\ cur \in Nat /\ NumRegs \in Nat \ {0} /\ NumRanges \in Nat
<1>1. RangesOK
  BY DEF IInv, TypeOK, RangesOK
<1>2. active_ \in Seq(Index)
  BY DEF IInv, TypeOK
<1>3. \A i \in Index : Start(i) \in Nat /\ End(i) \in Nat
  BY <1>1, EndIsPoint
<1>4. \A i \in Index : /\ location[i] \in Locations
                       /\ location[i].slot \in Nat
                       /\ location[i].where = "REGISTER" => location[i].slot \in Regs
  BY DEF IInv, TypeOK, Locations
<1>5. cur \in Nat /\ NumRegs \in Nat \ {0} /\ NumRanges \in Nat
  BY LinearScanAssumption DEF IInv, TypeOK
<1> QED
  BY <1>1, <1>2, <1>3, <1>4, <1>5

\* What expiring leaves of the list of active ranges and of the register map.
LEMMA UnexpiredKeeps ==
  ASSUME IInv, cur \in Index
  PROVE  /\ Unexpired \in Seq(Index) /\ Len(Unexpired) <= NumRegs
         /\ \A k \in 1 .. Len(Unexpired) : /\ Unexpired[k] < cur
                                           /\ location[Unexpired[k]].where = "REGISTER"
         /\ Once(Unexpired) /\ ByEnd(Unexpired)
         /\ \A i \in Index : /\ i < cur
                             /\ location[i].where = "REGISTER"
                             /\ Start(cur) < End(i)
                             => In(i, Unexpired)
         /\ \A r \in Regs : ReleasedRegs[r] =>
              \E k \in 1 .. Len(Unexpired) : location[Unexpired[k]].slot = r
         /\ ~(drained \/ DrainedNow) =>
              \A k \in 1 .. Len(Unexpired) : ReleasedRegs[location[Unexpired[k]].slot]
         /\ ~(drained \/ DrainedNow) =>
              \A k, l \in 1 .. Len(Unexpired) :
                location[Unexpired[k]].slot = location[Unexpired[l]].slot => k = l
<1> DEFINE L == Len(active_)
           d == NumErased
           U == Unexpired
<1>1. /\ NumExpired \in 0 .. L
      /\ \A k \in 1 .. NumExpired : End(active_[k]) <= Start(cur)
      /\ d \in 0 .. NumExpired
      /\ U \in Seq(Index) /\ Len(U) = L - d
      /\ \A k \in 1 .. Len(U) : U[k] = active_[k + d]
  BY TypeFacts, UnexpiredFacts
<1>2. L \in Nat /\ L <= NumRegs
  BY TypeFacts DEF IInv, ActiveListed
<1>3. ~DrainedNow => d = NumExpired
  BY DEF DrainedNow, NumErased
<1> HIDE DEF d, U
<1>4. Len(U) \in Nat /\ Len(U) <= NumRegs /\ d \in Nat
  BY <1>1, <1>2, TypeFacts
<1>5. \A k \in 1 .. Len(U) : k + d \in 1 .. L /\ U[k] = active_[k + d]
  BY <1>1, <1>2
<1>6. \A k \in 1 .. Len(U) : U[k] < cur /\ location[U[k]].where = "REGISTER"
  BY <1>5 DEF IInv, ActiveListed
<1>7. Once(U)
  <2> SUFFICES ASSUME NEW k \in 1 .. Len(U), NEW l \in 1 .. Len(U), U[k] = U[l]
               PROVE  k = l
    BY DEF Once
  <2>1. k + d = l + d
    BY <1>5 DEF IInv, ActiveListed, Once
  <2> QED
    BY <1>4, <2>1
<1>8. ByEnd(U)
  <2> SUFFICES ASSUME NEW k \in 1 .. Len(U), NEW l \in 1 .. Len(U), k < l
               PROVE  End(U[k]) <= End(U[l])
    BY DEF ByEnd
  <2>1. k + d < l + d
    BY <1>4
  <2> QED
    BY <1>5, <2>1 DEF IInv, ActiveListed, ByEnd
<1>9. ASSUME NEW i \in Index, i < cur, location[i].where = "REGISTER", Start(cur) < End(i)
      PROVE  In(i, U)
  <2>1. Start(cur - 1) <= Start(cur)
    <3>1. cur - 1 \in Index /\ cur - 1 < cur
      BY <1>9, TypeFacts DEF Index
    <3> QED
      BY <3>1 DEF IInv, ByStart
  <2>2. Start(cur - 1) < End(i)
    <3>1. cur - 1 \in Index
      BY <1>9, TypeFacts DEF Index
    <3> QED
      BY <1>9, <2>1, <3>1, TypeFacts
  <2>3. PICK k \in 1 .. L : active_[k] = i
    BY <1>9, <2>2 DEF IInv, LiveListed, In
  <2>4. ~(k <= NumExpired)
    <3> SUFFICES ASSUME k \in 1 .. NumExpired PROVE FALSE
      BY <1>1, <1>2
    <3> QED
      BY <1>1, <1>9, <2>3, TypeFacts
  <2>5. k - d \in 1 .. Len(U) /\ (k - d) + d = k
    BY <1>1, <1>2, <2>4
  <2>6. U[k - d] = i
    BY <1>5, <2>3, <2>5
  <2> QED
    BY <2>5, <2>6 DEF In
<1>10. ASSUME NEW r \in Regs, ReleasedRegs[r]
       PROVE  \E k \in 1 .. Len(U) : location[U[k]].slot = r
  <2>1. reg_map_[r] /\ \A k \in 1 .. NumExpired : location[active_[k]].slot # r
    BY <1>10 DEF ReleasedRegs
  <2>2. PICK k \in 1 .. L : location[active_[k]].slot = r
    BY <2>1 DEF IInv, UsedIsHeld
  <2>3. ~(k <= NumExpired)
    <3> SUFFICES ASSUME k \in 1 .. NumExpired PROVE FALSE
      BY <1>1, <1>2
    <3> QED
      BY <2>1, <2>2
  <2>4. k - d \in 1 .. Len(U) /\ (k - d) + d = k
    BY <1>1, <1>2, <2>3
  <2>5. U[k - d] = active_[k]
    BY <1>5, <2>4
  <2> QED
    BY <2>2, <2>4, <2>5
<1>11. ASSUME ~(drained \/ DrainedNow), NEW k \in 1 .. Len(U), NEW l \in 1 .. Len(U),
              location[U[k]].slot = location[U[l]].slot
       PROVE  k = l
  <2>1. k + d = l + d
    BY <1>5, <1>11 DEF IInv, HeldOnce
  <2> QED
    BY <1>4, <2>1
<1>12. ASSUME ~(drained \/ DrainedNow), NEW k \in 1 .. Len(U)
       PROVE  ReleasedRegs[location[U[k]].slot]
  <2> DEFINE r == location[U[k]].slot
  <2>1. k + d \in 1 .. L /\ U[k] = active_[k + d]
    BY <1>5
  <2>2. r \in Regs
    BY <1>6, <2>1, TypeFacts
  <2>3. reg_map_[r]
    BY <1>12, <2>1 DEF IInv, HeldIsUsed
  <2>4. ASSUME NEW m \in 1 .. NumExpired, location[active_[m]].slot = r PROVE FALSE
    <3>1. m \in 1 .. L
      BY <1>1, <1>2
    <3>2. m = k + d
      BY <1>12, <2>1, <2>4, <3>1 DEF IInv, HeldOnce
    <3> QED
      BY <1>1, <1>2, <1>3, <1>12, <3>2
  <2> HIDE DEF r
  <2>5. ReleasedRegs[r]
    BY <2>2, <2>3, <2>4 DEF ReleasedRegs
  <2> QED
    BY <2>5 DEF r
<1> QED
  BY <1>1, <1>4, <1>6, <1>7, <1>8, <1>9, <1>10, <1>11, <1>12 DEF U
\* A list of active ranges shorter than the register file leaves a register free:
\* the two conditions of the code, on active_ and on reg_map_, agree.
LEMMA FreeRegister ==
  ASSUME IInv, cur \in Index, ~IsRegMapEmpty
  PROVE  \E r \in Regs : FirstFree(ReleasedRegs, r)
<1> DEFINE U == Unexpired
<1>1. /\ U \in Seq(Index) /\ Len(U) <= NumRegs
      /\ \A r \in Regs : ReleasedRegs[r] => \E k \in 1 .. Len(U) : location[U[k]].slot = r
  BY UnexpiredKeeps
<1>2. NumRegs \in Nat \ {0} /\ Len(U) \in Nat /\ Len(U) < NumRegs
  <2>1. Len(U) # NumRegs
    BY DEF IsRegMapEmpty
  <2> HIDE DEF U
  <2> QED
    BY <1>1, <2>1, LinearScanAssumption
<1>3. ReleasedRegs \in [Regs -> BOOLEAN]
  BY DEF ReleasedRegs
<1> HIDE DEF U
<1>4. PICK q \in Regs : ~ReleasedRegs[q]
  <2> SUFFICES ASSUME \A r \in Regs : ReleasedRegs[r] PROVE FALSE
    BY <1>3
  <2> DEFINE f == [r \in Regs |-> CHOOSE k \in 1 .. Len(U) : location[U[k]].slot = r]
  <2>1. \A r \in Regs : f[r] \in 1 .. Len(U) /\ location[U[f[r]]].slot = r
    BY <1>1
  <2>2. f \in [Regs -> 1 .. Len(U)]
    BY <2>1
  <2> HIDE DEF f
  <2>3. IsFiniteSet(Regs) /\ Cardinality(Regs) = NumRegs
    <3>1. 0 \in Int /\ NumRegs - 1 \in Int /\ ~(0 > NumRegs - 1) /\ NumRegs - 1 - 0 + 1 = NumRegs
      BY <1>2
    <3> QED
      BY <3>1, FS_Interval DEF Regs
  <2>4. IsFiniteSet(1 .. Len(U)) /\ Cardinality(1 .. Len(U)) = Len(U)
    <3> DEFINE n == Len(U)
    <3>1. n \in Nat
      BY <1>2
    <3> HIDE DEF n
    <3>2. IsFiniteSet(1 .. n) /\ Cardinality(1 .. n) = n
      BY <3>1, FS_Interval
    <3> QED
      BY <3>2 DEF n
  <2>5. PICK x, y \in Regs : x # y /\ f[x] = f[y]
    BY <1>2, <2>2, <2>3, <2>4, FS_PigeonHole
  <2> QED
    BY <2>1, <2>5
<1> QED
  BY <1>3, <1>4, FirstFreeExists

-----------------------------------------------------------------------------
LEMMA InitInv == Init => IInv
<1> SUFFICES ASSUME Init PROVE IInv
  OBVIOUS
<1> USE LinearScanAssumption
<1>1. /\ active_ = <<>> /\ Len(active_) = 0
      /\ cur = 1 /\ drained = FALSE /\ current_stack_slot = 0
      /\ \A i \in Index : location[i].where = "UNSET"
  BY DEF Init
<1>2. TypeOK
  <2>1. location \in [Index -> Locations]
    BY DEF Init, Locations
  <2>2. reg_map_ \in [Regs -> BOOLEAN]
    BY DEF Init
  <2>3. active_ \in Seq(Index)
    BY <1>1
  <2>4. current_stack_slot \in 0 .. NumRanges /\ cur \in 1 .. NumRanges + 1
    BY <1>1
  <2> QED
    BY <1>1, <2>1, <2>2, <2>3, <2>4 DEF Init, TypeOK
<1>3. ByStart /\ UnservedUnset
  BY <1>1 DEF Init, ByStart, UnservedUnset
<1>4. ActiveListed
  BY <1>1 DEF ActiveListed, Once, ByEnd
<1>5. LiveListed /\ SlotsBelow
  BY <1>1 DEF LiveListed, SlotsBelow
<1>6. UsedIsHeld /\ HeldIsUsed /\ HeldOnce
  <2>1. \A r \in Regs : ~reg_map_[r]
    BY DEF Init
  <2> QED
    BY <1>1, <2>1 DEF UsedIsHeld, HeldIsUsed, HeldOnce
<1>7. EveryRangeLocated /\ StackSlotsPrivate /\ ExclusiveUntilDrained
  <2>1. Served = {}
    BY <1>1 DEF Served
  <2> QED
    BY <2>1 DEF EveryRangeLocated, StackSlotsPrivate, ExclusiveUntilDrained
<1> QED
  BY <1>2, <1>3, <1>4, <1>5, <1>6, <1>7 DEF IInv
-----------------------------------------------------------------------------
\* What both actions leave alone.
LEMMA FrameKeeps ==
  ASSUME IInv, ranges_' = ranges_, cur' = cur + 1, cur \in Index
  PROVE  /\ RangesOK' /\ ByStart'
         /\ \A i \in Index : Start(i)' = Start(i) /\ End(i)' = End(i)
         /\ \A i \in Index : i < cur' <=> i < cur \/ i = cur
         /\ \A i \in Nat : i \in Served' <=> i \in Index /\ i < cur'
         /\ \A i \in Nat : i \in Served <=> i \in Index /\ i < cur
<1>1. \A i \in Index : Start(i)' = Start(i) /\ End(i)' = End(i)
  BY DEF Start, End
<1>2. RangesOK' /\ ByStart'
  BY <1>1 DEF IInv, TypeOK, RangesOK, ByStart
<1>3. cur \in Nat /\ NumRanges \in Nat /\ cur <= NumRanges
  BY TypeFacts DEF Index
<1> QED
  BY <1>1, <1>2, <1>3 DEF Index, Served

\* Range cur has been put on register r and into a list a of ranges that keep
\* their registers.
LEMMA PlacedOnRegister ==
  ASSUME IInv, cur \in Index, ranges_' = ranges_, cur' = cur + 1,
         drained' = (drained \/ DrainedNow),
         NEW a \in Seq(Index), NEW r \in Regs,
         Len(a) < NumRegs, ByEnd(a), Once(a),
         \A k \in 1 .. Len(a) : /\ a[k] < cur
                                /\ location[a[k]].where = "REGISTER"
                                /\ location'[a[k]] = location[a[k]],
         active_' = AddToActive(a, cur),
         location'[cur] = OnRegister(r),
         \A i \in Index : i < cur /\ location'[i].where = "REGISTER" =>
           /\ location'[i] = location[i]
           /\ Start(cur) < End(i) => In(i, a),
         \A q \in Regs : reg_map_'[q] =>
           q = r \/ \E k \in 1 .. Len(a) : location[a[k]].slot = q,
         ~drained' =>
           /\ reg_map_'[r]
           /\ \A k \in 1 .. Len(a) : /\ reg_map_'[location[a[k]].slot]
                                     /\ location[a[k]].slot # r
           /\ \A k, l \in 1 .. Len(a) : location[a[k]].slot = location[a[l]].slot => k = l
  PROVE  /\ active_' \in Seq(Index)
         /\ ActiveListed' /\ LiveListed'
         /\ UsedIsHeld' /\ HeldIsUsed' /\ HeldOnce' /\ ExclusiveUntilDrained'
<1>1. /\ cur \in Nat /\ Len(a) \in Nat /\ NumRegs \in Nat
      /\ \A k \in 1 .. Len(a) : a[k] \in Index /\ a[k] \in Nat
  BY TypeFacts DEF Index
<1>2. ~In(cur, a)
  BY <1>1 DEF In
<1>3. PICK b \in Seq(Index) :
        /\ active_' = b
        /\ Len(b) = Len(a) + 1
        /\ ByEnd(b) /\ Once(b)
        /\ \A j \in Index : In(j, b) <=> j = cur \/ In(j, a)
  BY <1>2, TypeFacts, AddToActiveKeeps
<1>5. /\ \A i \in Index : Start(i)' = Start(i) /\ End(i)' = End(i)
      /\ \A i \in Index : i < cur' <=> i < cur \/ i = cur
  BY FrameKeeps
<1>6. \A k \in 1 .. Len(b) : b[k] \in Index
  BY <1>3
\* The entries of the new list: the range itself or one of a.
<1>7. \A k \in 1 .. Len(b) : b[k] = cur \/ \E m \in 1 .. Len(a) : b[k] = a[m]
  <2> SUFFICES ASSUME NEW k \in 1 .. Len(b) PROVE b[k] = cur \/ In(b[k], a)
    BY DEF In
  <2> QED
    BY <1>3, <1>6 DEF In
<1>8. /\ location'[cur].where = "REGISTER" /\ location'[cur].slot = r
  BY DEF OnRegister
<1>9. ActiveListed'
  <2>1. Len(b) <= NumRegs
    BY <1>1, <1>3
  <2>2. ASSUME NEW k \in 1 .. Len(b) PROVE b[k] < cur' /\ location'[b[k]].where = "REGISTER"
    BY <1>5, <1>6, <1>7, <1>8
  <2>3. Once(active_)'
    BY <1>3 DEF Once
  <2>4. ByEnd(active_)'
    <3>1. \A k, l \in 1 .. Len(b) : k < l => End(b[k])' <= End(b[l])'
      BY <1>3, <1>5, <1>6 DEF ByEnd
    <3> QED
      BY <1>3, <3>1 DEF ByEnd, End
  <2> QED
    BY <1>3, <2>1, <2>2, <2>3, <2>4 DEF ActiveListed
<1>10. LiveListed'
  <2> SUFFICES ASSUME NEW i \in Index, i < cur', location'[i].where = "REGISTER",
                      Start(cur - 1)' < End(i)'
               PROVE  In(i, b)
    BY <1>3 DEF LiveListed, In
  <2>1. CASE i = cur
    BY <1>3, <2>1
  <2>2. CASE i < cur
    <3>1. Start(cur - 1)' = Start(cur)
      BY <1>1 DEF Start
    <3>2. Start(cur) < End(i)
      BY <1>5, <3>1
    <3> QED
      BY <1>3, <2>2, <3>2
  <2> QED
    BY <1>5, <2>1, <2>2
<1>11. UsedIsHeld'
  <2> SUFFICES ASSUME NEW q \in Regs, reg_map_'[q]
               PROVE  \E k \in 1 .. Len(b) : location'[b[k]].slot = q
    BY <1>3 DEF UsedIsHeld
  <2>1. CASE q = r
    <3>1. PICK k \in 1 .. Len(b) : b[k] = cur
      BY <1>3 DEF In
    <3> QED
      BY <1>8, <2>1, <3>1
  <2>2. CASE q # r
    <3>1. PICK m \in 1 .. Len(a) : location[a[m]].slot = q
      BY <2>2
    <3>2. In(a[m], b)
      BY <1>1, <1>3 DEF In
    <3>3. PICK k \in 1 .. Len(b) : b[k] = a[m]
      BY <3>2 DEF In
    <3> QED
      BY <3>1, <3>3
  <2> QED
    BY <2>1, <2>2
<1>12. ASSUME ~drained', NEW k \in 1 .. Len(b)
       PROVE  reg_map_'[location'[b[k]].slot]
  BY <1>7, <1>8, <1>12
<1>13. HeldIsUsed'
  BY <1>3, <1>12 DEF HeldIsUsed
<1>14. ASSUME ~drained', NEW k \in 1 .. Len(b), NEW l \in 1 .. Len(b),
              location'[b[k]].slot = location'[b[l]].slot
       PROVE  k = l
  <2>1. b[k] = b[l]
    BY <1>7, <1>8, <1>14
  <2> QED
    BY <1>3, <2>1 DEF Once
<1>15. HeldOnce'
  BY <1>3, <1>14 DEF HeldOnce
\* A served range that is live where cur starts is in a, so on another register.
<1>16. ASSUME ~drained', NEW j \in Index, j < cur, location'[j] = OnRegister(r)
       PROVE  End(j) <= Start(cur)
  <2> SUFFICES ASSUME Start(cur) < End(j) PROVE FALSE
    BY TypeFacts
  <2>1. location'[j].where = "REGISTER" /\ location'[j].slot = r
    BY <1>16 DEF OnRegister
  <2>2. In(j, a) /\ location[j].slot = r
    BY <1>16, <2>1
  <2> QED
    BY <1>16, <2>2 DEF In
<1>17. ASSUME ~drained', NEW i \in Served', NEW j \in Served', i # j,
              location'[i].where = "REGISTER", location'[i] = location'[j]
       PROVE  ~Overlap(i, j)'
  <2>1. /\ i \in Index /\ (i < cur \/ i = cur)
        /\ j \in Index /\ (j < cur \/ j = cur)
    BY FrameKeeps DEF Served, Index
  <2>2. CASE i < cur /\ j < cur
    <3>1. location'[i] = location[i] /\ location'[j] = location[j]
      BY <1>17, <2>1, <2>2
    <3>2. i \in Served /\ j \in Served
      BY <2>1, <2>2, FrameKeeps DEF Index
    <3>3. ~drained
      BY <1>17
    <3>4. ~Overlap(i, j)
      BY <1>17, <3>1, <3>2, <3>3 DEF IInv, ExclusiveUntilDrained
    <3> QED
      BY <1>5, <2>1, <3>4 DEF Overlap
  <2>3. CASE i = cur
    <3>1. End(j) <= Start(cur)
      BY <1>16, <1>17, <2>1, <2>3
    <3> QED
      BY <1>5, <2>1, <2>3, <3>1, TypeFacts DEF Overlap
  <2>4. CASE j = cur
    <3>1. End(i) <= Start(cur)
      BY <1>16, <1>17, <2>1, <2>4
    <3> QED
      BY <1>5, <2>1, <2>4, <3>1, TypeFacts DEF Overlap
  <2> QED
    BY <2>1, <2>2, <2>3, <2>4
<1>18. ExclusiveUntilDrained'
  BY <1>17 DEF ExclusiveUntilDrained
<1> QED
  BY <1>3, <1>9, <1>10, <1>11, <1>13, <1>15, <1>18
\* A range v, which is cur or an active one that gave its register to cur, has
\* been put on the stack.
LEMMA PlacedOnStack ==
  ASSUME IInv, cur \in Index, ranges_' = ranges_, cur' = cur + 1,
         NEW v \in Index, v <= cur,
         location'[v] = OnStack, current_stack_slot' = NextStackSlot,
         \A i \in Index : i # v /\ i # cur => location'[i] = location[i],
         v # cur => location'[cur].where = "REGISTER"
  PROVE  SlotsBelow' /\ StackSlotsPrivate' /\ EveryRangeLocated' /\ UnservedUnset'
<1> USE DEF Index, OnStack, NextStackSlot
<1>1. /\ cur \in Nat /\ NumRanges \in Nat /\ current_stack_slot \in Nat
      /\ current_stack_slot < cur
  BY TypeFacts DEF IInv, TypeOK, SlotsBelow
<1>2. /\ location'[v].where = "STACK" /\ location'[v].slot = current_stack_slot
      /\ current_stack_slot' = current_stack_slot + 1
  OBVIOUS
\* The others on the stack were there before, on a lower slot.
<1>3. ASSUME NEW i \in Index, i # v, location'[i].where = "STACK"
      PROVE  location'[i] = location[i] /\ location[i].slot < current_stack_slot
  <2>1. i # cur
    BY <1>3
  <2>2. location'[i] = location[i]
    BY <1>3, <2>1
  <2> QED
    BY <1>3, <2>2 DEF IInv, SlotsBelow
<1>4. SlotsBelow'
  <2> SUFFICES ASSUME NEW i \in Index, location'[i].where = "STACK"
               PROVE  location'[i].slot < current_stack_slot'
    BY <1>1, <1>2 DEF SlotsBelow
  <2>1. CASE i = v
    BY <1>1, <1>2, <2>1
  <2>2. CASE i # v
    <3>1. location[i].slot \in Nat
      BY TypeFacts
    <3> QED
      BY <1>1, <1>2, <1>3, <2>2, <3>1
  <2> QED
    BY <2>1, <2>2
<1>5. \A i \in Served' : i \in Index /\ (i < cur \/ i = cur)
  BY <1>1 DEF Served
<1>6. \A i \in Index : i < cur => i \in Served
  BY <1>1 DEF Served
<1>7. StackSlotsPrivate'
  <2> SUFFICES ASSUME NEW i \in Served', NEW j \in Served', i # j,
                      location'[i].where = "STACK", location'[i] = location'[j]
               PROVE  FALSE
    BY DEF StackSlotsPrivate
  <2>1. i \in Index /\ j \in Index /\ location'[j].where = "STACK"
    BY <1>5
  <2>2. CASE i # v /\ j # v
    <3>1. location'[i] = location[i] /\ location'[j] = location[j]
      BY <1>3, <2>1, <2>2
    <3>2. i # cur /\ j # cur
      BY <2>1, <2>2
    <3>3. i \in Served /\ j \in Served
      BY <1>5, <1>6, <3>2
    <3> QED
      BY <3>1, <3>3 DEF IInv, StackSlotsPrivate
  <2>3. CASE i = v
    <3>1. location'[j] = location[j] /\ location[j].slot < current_stack_slot
      BY <1>3, <2>1, <2>3
    <3> QED
      BY <1>1, <1>2, <2>3, <3>1
  <2>4. CASE j = v
    <3>1. location'[i] = location[i] /\ location[i].slot < current_stack_slot
      BY <1>3, <2>1, <2>4
    <3> QED
      BY <1>1, <1>2, <2>4, <3>1
  <2> QED
    BY <2>2, <2>3, <2>4
<1>8. EveryRangeLocated'
  <2> SUFFICES ASSUME NEW i \in Served' PROVE location'[i].where # "UNSET"
    BY DEF EveryRangeLocated
  <2>1. CASE i = v \/ i = cur
    BY <1>2, <2>1
  <2>2. CASE i # v /\ i # cur
    <3>1. i \in Served /\ location'[i] = location[i]
      BY <1>5, <1>6, <2>2
    <3> QED
      BY <3>1 DEF IInv, EveryRangeLocated
  <2> QED
    BY <2>1, <2>2
<1>9. UnservedUnset'
  <2> SUFFICES ASSUME NEW i \in Index, cur + 1 <= i PROVE location'[i].where = "UNSET"
    BY DEF UnservedUnset
  <2>1. i # v /\ i # cur /\ cur <= i
    BY <1>1
  <2> QED
    BY <2>1 DEF IInv, UnservedUnset
<1> QED
  BY <1>4, <1>7, <1>8, <1>9
-----------------------------------------------------------------------------
LEMMA AssignKeeps == IInv /\ AssignRegister => IInv'
<1> SUFFICES ASSUME IInv, AssignRegister PROVE IInv'
  OBVIOUS
<1>1. cur \in Index /\ cur \in Nat /\ NumRanges \in Nat
  BY TypeFacts DEF AssignRegister, IInv, TypeOK, Index
<1>2. PICK r \in Regs :
        /\ FirstFree(ReleasedRegs, r)
        /\ reg_map_' = [ReleasedRegs EXCEPT ![r] = TRUE]
        /\ location' = [location EXCEPT ![cur] = OnRegister(r)]
  BY <1>1, FreeRegister DEF AssignRegister
<1>3. /\ ranges_' = ranges_ /\ cur' = cur + 1
      /\ active_' = AddToActive(Unexpired, cur)
      /\ current_stack_slot' = current_stack_slot
  BY DEF AssignRegister
<1>d. drained' = (drained \/ DrainedNow)
  BY DEF AssignRegister, DrainedNow
<1>4. /\ Unexpired \in Seq(Index) /\ Len(Unexpired) <= NumRegs
      /\ \A k \in 1 .. Len(Unexpired) : /\ Unexpired[k] < cur
                                        /\ location[Unexpired[k]].where = "REGISTER"
      /\ Once(Unexpired) /\ ByEnd(Unexpired)
  BY <1>1, UnexpiredKeeps
<1>5. Len(Unexpired) < NumRegs
  <2>1. Len(Unexpired) # NumRegs
    BY DEF AssignRegister, IsRegMapEmpty
  <2> QED
    BY <1>4, <2>1, LinearScanAssumption
<1>6. /\ location'[cur] = OnRegister(r)
      /\ \A i \in Index : i # cur => location'[i] = location[i]
      /\ location' \in [Index -> Locations]
  <2>1. location \in [Index -> Locations]
    BY DEF IInv, TypeOK
  <2>2. OnRegister(r) \in Locations
    BY DEF OnRegister, Locations, Regs
  <2> QED
    BY <1>1, <1>2, <2>1, <2>2
<1>7. ReleasedRegs \in [Regs -> BOOLEAN] /\ ~ReleasedRegs[r]
  BY <1>2 DEF ReleasedRegs, FirstFree
<1>8. /\ reg_map_'[r]
      /\ \A q \in Regs : q # r => reg_map_'[q] = ReleasedRegs[q]
      /\ reg_map_' \in [Regs -> BOOLEAN]
  BY <1>2, <1>7
<1>9. \A k \in 1 .. Len(Unexpired) :
         /\ Unexpired[k] \in Index
         /\ location'[Unexpired[k]] = location[Unexpired[k]]
         /\ location[Unexpired[k]].slot \in Regs
  <2> SUFFICES ASSUME NEW k \in 1 .. Len(Unexpired)
               PROVE  /\ Unexpired[k] \in Index
                      /\ location'[Unexpired[k]] = location[Unexpired[k]]
                      /\ location[Unexpired[k]].slot \in Regs
    OBVIOUS
  <2>1. Unexpired[k] \in Index /\ Unexpired[k] < cur
    BY <1>4
  <2>2. Unexpired[k] # cur
    BY <1>1, <2>1 DEF Index
  <2> QED
    BY <1>4, <1>6, <2>1, <2>2, TypeFacts
<1>10. \A i \in Index : i < cur /\ location'[i].where = "REGISTER" =>
         location'[i] = location[i] /\ (Start(cur) < End(i) => In(i, Unexpired))
  <2> SUFFICES ASSUME NEW i \in Index, i < cur, location'[i].where = "REGISTER"
               PROVE  location'[i] = location[i] /\ (Start(cur) < End(i) => In(i, Unexpired))
    OBVIOUS
  <2>1. location'[i] = location[i]
    BY <1>1, <1>6 DEF Index
  <2> QED
    BY <1>1, <2>1, UnexpiredKeeps
<1>11. \A q \in Regs : reg_map_'[q] =>
         q = r \/ \E k \in 1 .. Len(Unexpired) : location[Unexpired[k]].slot = q
  BY <1>1, <1>8, UnexpiredKeeps
<1>12. ~drained' =>
         /\ reg_map_'[r]
         /\ \A k \in 1 .. Len(Unexpired) : /\ reg_map_'[location[Unexpired[k]].slot]
                                           /\ location[Unexpired[k]].slot # r
         /\ \A k, l \in 1 .. Len(Unexpired) :
              location[Unexpired[k]].slot = location[Unexpired[l]].slot => k = l
  BY <1>1, <1>d, <1>7, <1>8, <1>9, UnexpiredKeeps
<1>13. /\ active_' \in Seq(Index)
       /\ ActiveListed' /\ LiveListed'
       /\ UsedIsHeld' /\ HeldIsUsed' /\ HeldOnce' /\ ExclusiveUntilDrained'
  BY <1>1, <1>3, <1>d, <1>4, <1>5, <1>6, <1>9, <1>10, <1>11, <1>12, PlacedOnRegister
<1>14. ByStart' /\ \A i \in Index : i < cur' <=> i < cur \/ i = cur
  BY <1>1, <1>3, FrameKeeps
<1>15. UnservedUnset' /\ SlotsBelow'
  <2>1. \A i \in Index : location'[i].where # "UNSET" => i = cur \/ location[i].where # "UNSET"
    BY <1>6
  <2>2. UnservedUnset'
    <3> SUFFICES ASSUME NEW i \in Index, cur + 1 <= i PROVE location'[i].where = "UNSET"
      BY <1>3 DEF UnservedUnset
    <3>1. i # cur /\ cur <= i
      BY <1>1 DEF Index
    <3> QED
      BY <1>6, <3>1 DEF IInv, UnservedUnset
  <2>3. SlotsBelow'
    <3>1. current_stack_slot \in Nat /\ current_stack_slot < cur + 1
      BY <1>1 DEF IInv, TypeOK, SlotsBelow
    <3>2. location'[cur].where # "STACK"
      BY <1>6 DEF OnRegister
    <3> QED
      BY <1>3, <1>6, <3>1, <3>2 DEF IInv, SlotsBelow
  <2> QED
    BY <2>2, <2>3
<1>16. EveryRangeLocated' /\ StackSlotsPrivate'
  <2>1. \A i \in Served' : i \in Index /\ (i = cur \/ (i # cur /\ i \in Served))
    BY <1>1, <1>3 DEF Served, Index
  <2>2. location'[cur].where = "REGISTER"
    BY <1>6 DEF OnRegister
  <2>3. EveryRangeLocated'
    BY <1>6, <2>1, <2>2 DEF IInv, EveryRangeLocated
  <2>4. StackSlotsPrivate'
    BY <1>6, <2>1, <2>2 DEF IInv, StackSlotsPrivate
  <2> QED
    BY <2>3, <2>4
<1>17. TypeOK'
  <2>1. \A i \in Index : location'[i].where = "REGISTER" => location'[i].slot \in Regs
    <3>1. location'[cur].slot \in Regs
      BY <1>6 DEF OnRegister
    <3> QED
      BY <1>6, <3>1, TypeFacts
  <2>2. cur' \in 1 .. NumRanges + 1
    BY <1>1, <1>3 DEF Index
  <2>3. drained' \in BOOLEAN
    BY <1>d
  <2>4. ranges_' \in [Index -> LiveRanges] /\ current_stack_slot' \in 0 .. NumRanges
    BY <1>3 DEF IInv, TypeOK
  <2> QED
    BY <1>6, <1>8, <1>13, <2>1, <2>2, <2>3, <2>4 DEF TypeOK
<1> QED
  BY <1>13, <1>14, <1>15, <1>16, <1>17 DEF IInv
\* The range that ends last gives its register to the new one.
LEMMA SpillBackKeeps ==
  ASSUME IInv, SpillAtInterval, End(Last(Unexpired)) > End(cur)
  PROVE  IInv'
<1> DEFINE U == Unexpired
           back == U[Len(U)]
           a == Front(U)
           r == location[back].slot
<1>1. cur \in Index /\ cur \in Nat /\ NumRanges \in Nat
  BY TypeFacts DEF SpillAtInterval, IInv, TypeOK, Index
<1>2. /\ ranges_' = ranges_ /\ cur' = cur + 1
      /\ active_' = AddToActive(a, cur)
      /\ current_stack_slot' = NextStackSlot
      /\ reg_map_' = ReleasedRegs
      /\ location' = [location EXCEPT ![back] = OnStack, ![cur] = OnRegister(r)]
  BY DEF SpillAtInterval, Last
<1>3. drained' = (drained \/ DrainedNow)
  BY DEF SpillAtInterval, DrainedNow
<1>4. /\ U \in Seq(Index) /\ Len(U) = NumRegs /\ Len(U) \in Nat \ {0}
      /\ \A k \in 1 .. Len(U) : U[k] < cur /\ location[U[k]].where = "REGISTER"
      /\ Once(U) /\ ByEnd(U)
  BY <1>1, UnexpiredKeeps, LinearScanAssumption DEF SpillAtInterval, IsRegMapEmpty
<1>5. /\ back \in Index /\ back < cur /\ back # cur
      /\ location[back].where = "REGISTER" /\ r \in Regs
  <2> HIDE DEF U
  <2>1. Len(U) \in 1 .. Len(U)
    BY <1>4
  <2>2. back \in Index /\ back < cur /\ location[back].where = "REGISTER"
    BY <1>4, <2>1
  <2>3. back # cur
    BY <1>1, <2>2 DEF Index
  <2> QED
    BY <2>2, <2>3, TypeFacts
<1>6. /\ a \in Seq(Index) /\ Len(a) = Len(U) - 1
      /\ \A k \in 1 .. Len(a) : k \in 1 .. Len(U) /\ k # Len(U) /\ a[k] = U[k]
  <2> HIDE DEF U
  <2> QED
    BY <1>4 DEF Front
<1> HIDE DEF a, U
<1>7. ByEnd(a) /\ Once(a)
  <2>1. Once(a)
    BY <1>4, <1>6 DEF Once
  <2>2. ByEnd(a)
    BY <1>4, <1>6 DEF ByEnd
  <2> QED
    BY <2>1, <2>2
<1>8. /\ location'[cur] = OnRegister(r)
      /\ location'[back] = OnStack
      /\ \A i \in Index : i # back /\ i # cur => location'[i] = location[i]
      /\ location' \in [Index -> Locations]
  <2>1. location \in [Index -> Locations]
    BY DEF IInv, TypeOK
  <2>2. OnRegister(r) \in Locations /\ OnStack \in Locations
    <3>1. current_stack_slot \in Nat
      BY DEF IInv, TypeOK
    <3> QED
      BY <1>5, <3>1 DEF OnRegister, OnStack, Locations, Regs
  <2> HIDE DEF back, r
  <2> QED
    BY <1>1, <1>2, <1>5, <2>1, <2>2
<1>9. \A k \in 1 .. Len(a) : /\ a[k] < cur /\ a[k] \in Index
                             /\ location[a[k]].where = "REGISTER"
                             /\ location'[a[k]] = location[a[k]]
                             /\ location[a[k]].slot \in Regs
  <2> SUFFICES ASSUME NEW k \in 1 .. Len(a)
               PROVE  /\ a[k] < cur /\ a[k] \in Index
                      /\ location[a[k]].where = "REGISTER"
                      /\ location'[a[k]] = location[a[k]]
                      /\ location[a[k]].slot \in Regs
    OBVIOUS
  <2>1. /\ k \in 1 .. Len(U) /\ a[k] = U[k] /\ a[k] \in Index
        /\ a[k] < cur /\ location[a[k]].where = "REGISTER"
    BY <1>4, <1>6
  <2>2. a[k] # back
    BY <1>4, <1>6, <2>1 DEF Once
  <2>3. a[k] # cur
    BY <1>1, <2>1 DEF Index
  <2> HIDE DEF back
  <2> QED
    BY <1>8, <2>1, <2>2, <2>3, TypeFacts
<1>10. \A j \in Index : In(j, U) => j = back \/ In(j, a)
  <2> SUFFICES ASSUME NEW j \in Index, NEW k \in 1 .. Len(U), U[k] = j
               PROVE  j = back \/ In(j, a)
    BY DEF In
  <2>1. CASE k = Len(U)
    BY <2>1
  <2>2. CASE k # Len(U)
    <3>1. k \in 1 .. Len(a)
      BY <1>4, <1>6, <2>2
    <3> QED
      BY <1>6, <3>1 DEF In
  <2> QED
    BY <2>1, <2>2
<1> HIDE DEF back, r
<1>11. \A i \in Index : i < cur /\ location'[i].where = "REGISTER" =>
         location'[i] = location[i] /\ (Start(cur) < End(i) => In(i, a))
  <2> SUFFICES ASSUME NEW i \in Index, i < cur, location'[i].where = "REGISTER"
               PROVE  location'[i] = location[i] /\ (Start(cur) < End(i) => In(i, a))
    OBVIOUS
  <2>1. i # back
    BY <1>8 DEF OnStack
  <2>2. location'[i] = location[i]
    BY <1>1, <1>8, <2>1 DEF Index
  <2>3. Start(cur) < End(i) => In(i, U)
    BY <1>1, <2>2, UnexpiredKeeps DEF U
  <2> QED
    BY <1>10, <2>1, <2>2, <2>3
<1>12. \A q \in Regs : reg_map_'[q] => q = r \/ \E k \in 1 .. Len(a) : location[a[k]].slot = q
  <2> SUFFICES ASSUME NEW q \in Regs, reg_map_'[q], q # r
               PROVE  \E k \in 1 .. Len(a) : location[a[k]].slot = q
    OBVIOUS
  <2>1. PICK k \in 1 .. Len(U) : location[U[k]].slot = q
    BY <1>1, <1>2, UnexpiredKeeps DEF U
  <2>2. k # Len(U)
    BY <2>1 DEF r, back
  <2>3. k \in 1 .. Len(a)
    BY <1>4, <1>6, <2>2
  <2> QED
    BY <1>6, <2>1, <2>3
<1>13. ~drained' =>
         /\ reg_map_'[r]
         /\ \A k \in 1 .. Len(a) : /\ reg_map_'[location[a[k]].slot]
                                   /\ location[a[k]].slot # r
         /\ \A k, l \in 1 .. Len(a) : location[a[k]].slot = location[a[l]].slot => k = l
  <2> SUFFICES ASSUME ~drained'
               PROVE  /\ reg_map_'[r]
                      /\ \A k \in 1 .. Len(a) : /\ reg_map_'[location[a[k]].slot]
                                                /\ location[a[k]].slot # r
                      /\ \A k, l \in 1 .. Len(a) :
                           location[a[k]].slot = location[a[l]].slot => k = l
    OBVIOUS
  <2>1. /\ \A k \in 1 .. Len(U) : ReleasedRegs[location[U[k]].slot]
        /\ \A k, l \in 1 .. Len(U) : location[U[k]].slot = location[U[l]].slot => k = l
    BY <1>1, <1>3, UnexpiredKeeps DEF U
  <2>2. Len(U) \in 1 .. Len(U)
    BY <1>4
  <2>3. reg_map_'[r]
    BY <1>2, <2>1, <2>2 DEF r, back
  <2>4. ASSUME NEW k \in 1 .. Len(a)
        PROVE  reg_map_'[location[a[k]].slot] /\ location[a[k]].slot # r
    BY <1>2, <1>6, <2>1, <2>2 DEF r, back
  <2>5. ASSUME NEW k \in 1 .. Len(a), NEW l \in 1 .. Len(a),
               location[a[k]].slot = location[a[l]].slot
        PROVE  k = l
    BY <1>6, <2>1, <2>5
  <2> QED
    BY <2>3, <2>4, <2>5
<1>14. /\ active_' \in Seq(Index)
       /\ ActiveListed' /\ LiveListed'
       /\ UsedIsHeld' /\ HeldIsUsed' /\ HeldOnce' /\ ExclusiveUntilDrained'
  <2>1. Len(a) < NumRegs
    BY <1>4, <1>6
  <2>2. \A k \in 1 .. Len(a) : /\ a[k] < cur
                               /\ location[a[k]].where = "REGISTER"
                               /\ location'[a[k]] = location[a[k]]
    BY <1>9
  <2>3. /\ ranges_' = ranges_ /\ cur' = cur + 1 /\ active_' = AddToActive(a, cur)
        /\ a \in Seq(Index) /\ r \in Regs /\ location'[cur] = OnRegister(r)
    BY <1>2, <1>5, <1>6, <1>8
  <2> QED
    BY <1>1, <1>3, <1>7, <1>11, <1>12, <1>13, <2>1, <2>2, <2>3, PlacedOnRegister
<1>15. SlotsBelow' /\ StackSlotsPrivate' /\ EveryRangeLocated' /\ UnservedUnset'
  <2>1. location'[cur].where = "REGISTER"
    BY <1>8 DEF OnRegister
  <2>2. back <= cur
    BY <1>1, <1>5 DEF Index
  <2> QED
    BY <1>1, <1>2, <1>5, <1>8, <2>1, <2>2, PlacedOnStack
<1>16. ByStart'
  BY <1>1, <1>2, FrameKeeps
<1>17. TypeOK'
  <2>1. ASSUME NEW i \in Index, location'[i].where = "REGISTER"
        PROVE  location'[i].slot \in Regs
    <3>1. CASE i = cur
      BY <1>5, <1>8, <3>1 DEF OnRegister
    <3>2. CASE i # cur
      <4>1. location'[i] = location[i]
        BY <1>8, <2>1, <3>2 DEF OnStack
      <4> QED
        BY <2>1, <4>1, TypeFacts
    <3> QED
      BY <3>1, <3>2
  <2>2. cur' \in 1 .. NumRanges + 1
    BY <1>1, <1>2 DEF Index
  <2>3. drained' \in BOOLEAN
    BY <1>3
  <2>4. ranges_' \in [Index -> LiveRanges]
    BY <1>2 DEF IInv, TypeOK
  <2>5. current_stack_slot' \in 0 .. NumRanges
    BY <1>1, <1>2, TypeFacts DEF IInv, TypeOK, SlotsBelow, NextStackSlot, Index
  <2>6. reg_map_' \in [Regs -> BOOLEAN]
    BY <1>2 DEF ReleasedRegs, IInv, TypeOK
  <2> QED
    BY <1>8, <1>14, <2>1, <2>2, <2>3, <2>4, <2>5, <2>6 DEF TypeOK
<1> QED
  BY <1>14, <1>15, <1>16, <1>17 DEF IInv
\* The new range goes to the stack itself.
LEMMA SpillNewKeeps ==
  ASSUME IInv, SpillAtInterval, ~(End(Last(Unexpired)) > End(cur))
  PROVE  IInv'
<1>0. PICK U : U = Unexpired
  OBVIOUS
<1>1. cur \in Index /\ cur \in Nat /\ NumRanges \in Nat
  BY TypeFacts DEF SpillAtInterval, IInv, TypeOK, Index
<1>2. /\ ranges_' = ranges_ /\ cur' = cur + 1
      /\ active_' = U
      /\ current_stack_slot' = NextStackSlot
      /\ reg_map_' = ReleasedRegs
      /\ location' = [location EXCEPT ![cur] = OnStack]
  BY <1>0 DEF SpillAtInterval
<1>3. drained' = (drained \/ DrainedNow)
  BY DEF SpillAtInterval, DrainedNow
<1>4. /\ U \in Seq(Index) /\ Len(U) <= NumRegs
      /\ \A k \in 1 .. Len(U) : U[k] < cur /\ location[U[k]].where = "REGISTER"
      /\ Once(U) /\ ByEnd(U)
  BY <1>0, <1>1, UnexpiredKeeps
<1>5. /\ location'[cur] = OnStack
      /\ \A i \in Index : i # cur => location'[i] = location[i]
      /\ location' \in [Index -> Locations]
  <2>1. location \in [Index -> Locations] /\ current_stack_slot \in Nat
    BY DEF IInv, TypeOK
  <2>2. OnStack \in Locations
    BY <2>1 DEF OnStack, Locations
  <2> QED
    BY <1>1, <1>2, <2>1, <2>2
<1>6. /\ \A i \in Index : Start(i)' = Start(i) /\ End(i)' = End(i)
      /\ \A i \in Index : i < cur' <=> i < cur \/ i = cur
      /\ ByStart'
  BY <1>1, <1>2, FrameKeeps
<1>7. /\ \A i \in Index : i < cur /\ location[i].where = "REGISTER" /\ Start(cur) < End(i)
                          => In(i, U)
      /\ \A q \in Regs : ReleasedRegs[q] => \E k \in 1 .. Len(U) : location[U[k]].slot = q
      /\ ~drained' => \A k \in 1 .. Len(U) : ReleasedRegs[location[U[k]].slot]
      /\ ~drained' => \A k, l \in 1 .. Len(U) :
                        location[U[k]].slot = location[U[l]].slot => k = l
  BY <1>0, <1>1, <1>3, UnexpiredKeeps
<1>8. \A k \in 1 .. Len(U) : /\ U[k] \in Index /\ U[k] < cur'
                             /\ location'[U[k]] = location[U[k]]
  <2> SUFFICES ASSUME NEW k \in 1 .. Len(U)
               PROVE  U[k] \in Index /\ U[k] < cur' /\ location'[U[k]] = location[U[k]]
    OBVIOUS
  <2>1. U[k] \in Index /\ U[k] < cur
    BY <1>4
  <2>2. U[k] # cur
    BY <1>1, <2>1 DEF Index
  <2> QED
    BY <1>5, <1>6, <2>1, <2>2
<1>9. ActiveListed'
  <2>1. ByEnd(active_)'
    <3>1. \A k, l \in 1 .. Len(U) : k < l => End(U[k])' <= End(U[l])'
      BY <1>4, <1>6, <1>8 DEF ByEnd
    <3> QED
      BY <1>2, <3>1 DEF ByEnd, End
  <2>2. Once(active_)'
    BY <1>2, <1>4 DEF Once
  <2> QED
    BY <1>2, <1>4, <1>8, <2>1, <2>2 DEF ActiveListed
<1>10. LiveListed'
  <2> SUFFICES ASSUME NEW i \in Index, i < cur', location'[i].where = "REGISTER",
                      Start(cur - 1)' < End(i)'
               PROVE  In(i, active_)'
    BY DEF LiveListed
  <2>1. i # cur /\ i < cur
    BY <1>5, <1>6 DEF OnStack
  <2>2. Start(cur - 1)' = Start(cur)
    BY <1>1, <1>2 DEF Start
  <2>3. In(i, U)
    BY <1>5, <1>6, <1>7, <2>1, <2>2
  <2> QED
    BY <1>2, <2>3 DEF In
<1>11. UsedIsHeld' /\ HeldIsUsed' /\ HeldOnce'
  <2>1. UsedIsHeld'
    BY <1>2, <1>7, <1>8 DEF UsedIsHeld
  <2>2. HeldIsUsed'
    BY <1>2, <1>7, <1>8 DEF HeldIsUsed
  <2>3. HeldOnce'
    BY <1>2, <1>7, <1>8 DEF HeldOnce
  <2> QED
    BY <2>1, <2>2, <2>3
<1>12. ExclusiveUntilDrained'
  <2> SUFFICES ASSUME ~drained', NEW i \in Served', NEW j \in Served', i # j,
                      location'[i].where = "REGISTER", location'[i] = location'[j]
               PROVE  ~Overlap(i, j)'
    BY DEF ExclusiveUntilDrained
  <2>1. i \in Index /\ j \in Index /\ i # cur /\ j # cur
    BY <1>1, <1>2, <1>5 DEF Served, Index, OnStack
  <2>2. i \in Served /\ j \in Served
    BY <1>1, <1>2, <2>1 DEF Served, Index
  <2>3. ~Overlap(i, j)
    BY <1>3, <1>5, <2>1, <2>2 DEF IInv, ExclusiveUntilDrained
  <2> QED
    BY <1>6, <2>1, <2>3 DEF Overlap
<1>13. SlotsBelow' /\ StackSlotsPrivate' /\ EveryRangeLocated' /\ UnservedUnset'
  BY <1>1, <1>2, <1>5, PlacedOnStack
<1>14. TypeOK'
  <2>1. ASSUME NEW i \in Index, location'[i].where = "REGISTER"
        PROVE  location'[i].slot \in Regs
    <3>1. i # cur
      BY <1>5, <2>1 DEF OnStack
    <3>2. location'[i] = location[i]
      BY <1>5, <3>1
    <3> QED
      BY <2>1, <3>2, TypeFacts
  <2>2. cur' \in 1 .. NumRanges + 1
    BY <1>1, <1>2 DEF Index
  <2>3. drained' \in BOOLEAN
    BY <1>3
  <2>4. ranges_' \in [Index -> LiveRanges]
    BY <1>2 DEF IInv, TypeOK
  <2>5. current_stack_slot' \in 0 .. NumRanges
    BY <1>1, <1>2, TypeFacts DEF IInv, TypeOK, SlotsBelow, NextStackSlot, Index
  <2>6. reg_map_' \in [Regs -> BOOLEAN]
    BY <1>2 DEF ReleasedRegs, IInv, TypeOK
  <2> QED
    BY <1>2, <1>4, <1>5, <2>1, <2>2, <2>3, <2>4, <2>5, <2>6 DEF TypeOK
<1> QED
  BY <1>6, <1>9, <1>10, <1>11, <1>12, <1>13, <1>14 DEF IInv

LEMMA NextInv == IInv /\ [Next]_vars => IInv'
<1> SUFFICES ASSUME IInv, [Next]_vars PROVE IInv'
  OBVIOUS
<1>1. CASE AssignRegister
  BY <1>1, AssignKeeps
<1>2. CASE SpillAtInterval
  BY <1>2, SpillBackKeeps, SpillNewKeeps
<1>3. CASE UNCHANGED vars
  BY <1>3 DEF vars, IInv, TypeOK, ByStart, UnservedUnset, ActiveListed, LiveListed,
              UsedIsHeld, HeldIsUsed, HeldOnce, SlotsBelow, EveryRangeLocated,
              StackSlotsPrivate, ExclusiveUntilDrained, Once, ByEnd, In, Start, End,
              Served, Overlap
<1> QED
  BY <1>1, <1>2, <1>3 DEF Next

THEOREM Invariance == Spec => []IInv
BY InitInv, NextInv, PTL DEF Spec

-----------------------------------------------------------------------------
\* Every state of the allocation loop of linear_scan.cpp is well typed: registers
\* are registers of the architecture and a stack slot is used per range at most.
THEOREM TypeCorrect == Spec => []TypeOK
<1>1. IInv => TypeOK
  BY DEF IInv
<1> QED
  BY <1>1, Invariance, PTL

\* AssignRegister never fails: active_ and reg_map_ agree on whether a register is
\* free, whatever the ranges and the register file.
THEOREM AlwaysLocated == Spec => []EveryRangeLocated
<1>1. IInv => EveryRangeLocated
  BY DEF IInv
<1> QED
  BY <1>1, Invariance, PTL

\* No two values share a stack slot.
THEOREM SlotsNeverShared == Spec => []StackSlotsPrivate
<1>1. IInv => StackSlotsPrivate
  BY DEF IInv
<1> QED
  BY <1>1, Invariance, PTL

\* Values live at the same point are on different registers as long as no range is
\* served after every active one has ended: the one case the loop that expires
\* ranges mishandles.
THEOREM RegistersExclusiveUntilDrained == Spec => []ExclusiveUntilDrained
<1>1. IInv => ExclusiveUntilDrained
  BY DEF IInv
<1> QED
  BY <1>1, Invariance, PTL

\* The list of active ranges is sorted, holds ranges on registers only, and misses
\* none that is still live.
THEOREM ActiveListComplete == Spec => []ActiveComplete
<1>1. IInv => ActiveComplete
  <2> SUFFICES ASSUME IInv PROVE ActiveComplete
    OBVIOUS
  <2>1. /\ \A k \in 1 .. Len(active_) - 1 : End(active_[k]) <= End(active_[k + 1])
        /\ \A k \in DOMAIN active_ : location[active_[k]].where = "REGISTER"
    <3>1. \A k \in 1 .. Len(active_) - 1 :
            k \in 1 .. Len(active_) /\ k + 1 \in 1 .. Len(active_) /\ k < k + 1
      BY TypeFacts
    <3>2. DOMAIN active_ = 1 .. Len(active_)
      BY TypeFacts
    <3>3. \A k \in 1 .. Len(active_) - 1 : End(active_[k]) <= End(active_[k + 1])
      BY <3>1 DEF IInv, ActiveListed, ByEnd
    <3> QED
      BY <3>2, <3>3 DEF IInv, ActiveListed
  <2>2. ASSUME NEW i \in Served, location[i].where = "REGISTER", Start(cur - 1) < End(i)
        PROVE  i \in ToSet(active_)
    <3>1. i \in Index /\ i < cur
      BY TypeFacts DEF Served, IInv, TypeOK, Index
    <3>2. In(i, active_)
      BY <2>2, <3>1 DEF IInv, LiveListed
    <3> QED
      BY <3>2, TypeFacts DEF In, ToSet
  <2> QED
    BY <2>1, <2>2 DEF ActiveComplete
<1> QED
  BY <1>1, Invariance, PTL
-----------------------------------------------------------------------------
\* Every range on a register that is still live where cur starts ends no later
\* than the last of the active list.
LEMMA LastEndsLast ==
  ASSUME IInv, cur \in Index, Len(Unexpired) # 0,
         NEW j \in Index, j < cur, location[j].where = "REGISTER", Start(cur) < End(j)
  PROVE  End(j) <= End(Last(Unexpired))
<1>1. PICK U \in Seq(Index) : U = Unexpired /\ ByEnd(U) /\ In(j, U) /\ Len(U) # 0
  BY UnexpiredKeeps
<1>2. PICK k \in 1 .. Len(U) : U[k] = j
  BY <1>1 DEF In
<1>3. Len(U) \in 1 .. Len(U) /\ (k < Len(U) \/ k = Len(U))
  BY <1>1
<1>4. End(j) \in Nat
  BY TypeFacts
<1> QED
  BY <1>1, <1>2, <1>3, <1>4 DEF ByEnd, Last

LEMMA StepSpillsFurthest ==
  ASSUME IInv, [Next]_vars, NEW i \in Index
  PROVE  /\ location[i].where = "STACK" => location'[i] = location[i]
         /\ location[i].where # "STACK" /\ location'[i].where = "STACK" =>
              \A j \in Served \cup {cur} :
                location[j].where = "STACK" \/ End(j) <= Start(cur) \/ End(j) <= End(i)
<1> DEFINE Kept == location'[i] = location[i]
           Furthest == \A j \in Served \cup {cur} :
                         \/ location[j].where = "STACK"
                         \/ End(j) <= Start(cur) \/ End(j) <= End(i)
<1>1. CASE AssignRegister
  <2>1. cur \in Index
    BY <1>1, TypeFacts DEF AssignRegister, IInv, TypeOK, Index
  <2>2. PICK r \in Regs : location' = [location EXCEPT ![cur] = OnRegister(r)]
    BY <1>1, <2>1, FreeRegister DEF AssignRegister
  <2>3. location[cur].where = "UNSET"
    BY <2>1, TypeFacts DEF IInv, UnservedUnset, Index
  <2>4. (i # cur => Kept) /\ location'[cur].where = "REGISTER"
    BY <2>1, <2>2 DEF IInv, TypeOK, OnRegister
  <2> QED
    BY <2>3, <2>4
<1>2. CASE SpillAtInterval
  <2>1. /\ cur \in Index /\ cur \in Nat
        /\ \A j \in Served \cup {cur} : j \in Index /\ (j < cur \/ j = cur)
    BY <1>2, TypeFacts DEF SpillAtInterval, IInv, TypeOK, Index, Served
  <2>2. PICK U \in Seq(Index) :
          /\ U = Unexpired
          /\ Len(U) \in Nat \ {0}
          /\ \A k \in 1 .. Len(U) : U[k] < cur /\ location[U[k]].where = "REGISTER"
    BY <1>2, <2>1, UnexpiredKeeps, LinearScanAssumption DEF SpillAtInterval, IsRegMapEmpty
  <2> DEFINE back == Last(Unexpired)
  <2>3. /\ back \in Index /\ back # cur /\ location[back].where = "REGISTER"
    <3>1. Len(U) \in 1 .. Len(U)
      BY <2>2
    <3>2. back = U[Len(U)] /\ U[Len(U)] \in Index
      BY <2>2, <3>1 DEF Last
    <3>3. U[Len(U)] < cur /\ location[U[Len(U)]].where = "REGISTER"
      BY <2>2, <3>1
    <3> HIDE DEF back
    <3>4. back # cur
      BY <2>1, <3>2, <3>3 DEF Index
    <3> QED
      BY <3>2, <3>3, <3>4
  <2>4. \A j \in Served : \/ location[j].where = "STACK"
                          \/ End(j) <= Start(cur) \/ End(j) <= End(back)
    <3> SUFFICES ASSUME NEW j \in Served, location[j].where # "STACK", ~(End(j) <= Start(cur))
                 PROVE  End(j) <= End(back)
      OBVIOUS
    <3>1. j \in Index /\ j < cur
      BY <2>1 DEF Served
    <3>2. location[j].where = "REGISTER"
      BY <3>1, TypeFacts DEF IInv, EveryRangeLocated, Locations
    <3>3. Start(cur) < End(j)
      BY <2>1, <3>1, TypeFacts
    <3> QED
      BY <2>1, <2>2, <3>1, <3>2, <3>3, LastEndsLast
  <2>5. location[cur].where = "UNSET"
    BY <2>1, TypeFacts DEF IInv, UnservedUnset, Index
  <2> HIDE DEF back
  <2>6. location \in [Index -> Locations] /\ End(back) \in Nat /\ End(cur) \in Nat
    BY <2>1, <2>3, TypeFacts DEF IInv, TypeOK
  <2>7. CASE End(back) > End(cur)
    <3>1. location' = [location EXCEPT ![back] = OnStack,
                                       ![cur] = OnRegister(location[back].slot)]
      BY <1>2, <2>7 DEF SpillAtInterval, back
    <3>2. /\ location'[cur].where = "REGISTER"
          /\ i # cur /\ i # back => Kept
      BY <2>1, <2>3, <2>6, <3>1 DEF OnRegister
    <3>3. i = back => Furthest
      BY <2>1, <2>4, <2>6, <2>7
    <3> QED
      BY <2>3, <2>5, <3>2, <3>3
  <2>8. CASE ~(End(back) > End(cur))
    <3>1. location' = [location EXCEPT ![cur] = OnStack]
      BY <1>2, <2>8 DEF SpillAtInterval, back
    <3>2. i # cur => Kept
      BY <2>6, <3>1
    <3>3. i = cur => Furthest
      <4> SUFFICES ASSUME NEW j \in Served \cup {cur}
                   PROVE  \/ location[j].where = "STACK"
                          \/ End(j) <= Start(cur) \/ End(j) <= End(cur)
        OBVIOUS
      <4>1. CASE j = cur
        BY <2>6, <4>1
      <4>2. CASE j \in Served
        <5>1. End(j) \in Nat
          BY <2>1, TypeFacts
        <5> QED
          BY <2>4, <2>6, <2>8, <4>2, <5>1
      <4> QED
        BY <4>1, <4>2
    <3> QED
      BY <2>5, <3>2, <3>3
  <2> QED
    BY <2>7, <2>8
<1>3. CASE UNCHANGED vars
  BY <1>3 DEF vars
<1> QED
  BY <1>1, <1>2, <1>3 DEF Next

\* What goes to the stack stays there, and is the value that ends last of those
\* that compete for a register.
THEOREM SpillsTheFurthest == Spec => SpillsFurthest
<1>1. IInv /\ [Next]_vars =>
        [ \A i \in Index :
            /\ location[i].where = "STACK" => location'[i] = location[i]
            /\ location[i].where # "STACK" /\ location'[i].where = "STACK" =>
                 \A j \in Served \cup {cur} :
                   \/ location[j].where = "STACK"
                   \/ End(j) <= Start(cur)
                   \/ End(j) <= End(i) ]_vars
  BY StepSpillsFurthest
<1> QED
  BY <1>1, Invariance, PTL DEF Spec, SpillsFurthest
=============================================================================
