----------------------------- MODULE LinearScan -----------------------------
(***************************************************************************)
(* pass/linear_scan.cpp: the allocation loop of the register allocator.    *)
(*                                                                         *)
(* The live ranges, sorted by their start, are given a register or a stack *)
(* slot one after the other.  active_ lists the ranges that hold a         *)
(* register, by increasing end; before a range is served, the ranges that  *)
(* ended are expired and their registers released; when as many ranges are *)
(* active as there are registers, the one that ends last goes to the       *)
(* stack.  A live range is known by its index in ranges_.                  *)
(***************************************************************************)
EXTENDS Naturals, Sequences, SequencesExt

CONSTANTS
  NumRegs,      \* arch::ArchInfo<ARCH>::NUM_REGISTERS
  NumRanges,    \* bound: live ranges to allocate
  MaxPoint      \* bound: the last point of the linear order

\* SetArch has been called with a real architecture.
ASSUME LinearScanAssumption == NumRegs \in Nat \ {0} /\ NumRanges \in Nat /\ MaxPoint \in Nat

Regs   == 0 .. NumRegs - 1
Points == 0 .. MaxPoint
Index  == 1 .. NumRanges

\* Half-open, as all ranges are; liveness leaves no empty one.
LiveRanges == {r \in [start : Points, end : Points] : r.start < r.end}

Locations == [where : {"UNSET", "REGISTER", "STACK"}, slot : Nat]

VARIABLES
  ranges_,              \* LinearScan::ranges_, after the sort
  location,             \* location[i]: InstBase::location_ of the value of range i
  active_,              \* LinearScan::active_
  reg_map_,             \* LinearScan::reg_map_, TRUE for a register in use
  current_stack_slot,   \* LinearScan::current_stack_slot
  cur,                  \* the range the loop is at
  drained               \* history: a range was served after every active one had ended

vars == <<ranges_, location, active_, reg_map_, current_stack_slot, cur, drained>>

Start(i) == ranges_[i].start
End(i)   == ranges_[i].end

TypeOK ==
  /\ ranges_ \in [Index -> LiveRanges]
  /\ location \in [Index -> Locations]
  /\ \A i \in Index : location[i].where = "REGISTER" => location[i].slot \in Regs
  /\ active_ \in Seq(Index)
  /\ reg_map_ \in [Regs -> BOOLEAN]
  /\ current_stack_slot \in 0 .. NumRanges
  /\ cur \in 1 .. NumRanges + 1
  /\ drained \in BOOLEAN

\* The sort is by start only and starts from the order of a hash map: ranges with
\* equal starts come in any order.
Init ==
  /\ ranges_ \in [Index -> LiveRanges]
  /\ \A i, j \in Index : i < j => Start(i) <= Start(j)
  /\ location = [i \in Index |-> [where |-> "UNSET", slot |-> 0]]
  /\ active_ = <<>>
  /\ reg_map_ = [r \in Regs |-> FALSE]
  /\ current_stack_slot = 0
  /\ cur = 1
  /\ drained = FALSE

-----------------------------------------------------------------------------
\* Mutated operations, for the mutation runs only.
ExpiresOnePointEarly ==
  CHOOSE n \in 0 .. Len(active_) :
    /\ \A k \in 1 .. n : End(active_[k]) <= Start(cur) + 1
    /\ n < Len(active_) => Start(cur) + 1 < End(active_[n + 1])
ReleasesNothing == reg_map_
AddsAtBack(a, i) == Append(a, i)
SameStackSlot == current_stack_slot

-----------------------------------------------------------------------------
\* The active ranges that ended before range cur starts: the loop of
\* ExpireOldIntervals stops at the first that did not.
NumExpired ==
  CHOOSE n \in 0 .. Len(active_) :
    /\ \A k \in 1 .. n : End(active_[k]) <= Start(cur)
    /\ n < Len(active_) => Start(cur) < End(active_[n + 1])

\* All of them have their register released.
ReleasedRegs ==
  [r \in Regs |-> /\ reg_map_[r]
                  /\ \A k \in 1 .. NumExpired : location[active_[k]].slot # r]

\* They are erased up to the last range the loop looked at, which is the first
\* live one or, when there is none, the last of the expired.
NumErased == IF NumExpired = Len(active_) /\ active_ # <<>> THEN NumExpired - 1 ELSE NumExpired

Unexpired == SubSeq(active_, NumErased + 1, Len(active_))

\* Behind the ranges that end no later.
AddToActive(a, i) ==
  LET pos == CHOOSE p \in 1 .. Len(a) + 1 :
               /\ \A k \in 1 .. p - 1 : End(a[k]) <= End(i)
               /\ p <= Len(a) => End(i) < End(a[p])
  IN  InsertAt(a, pos, i)

NextStackSlot == current_stack_slot + 1

OnRegister(r) == [where |-> "REGISTER", slot |-> r]
OnStack       == [where |-> "STACK", slot |-> current_stack_slot]

IsRegMapEmpty == Len(Unexpired) = NumRegs

\* The first free register of those in m; the location is left alone if there is
\* none.
FirstFree(m, r) == ~m[r] /\ \A q \in Regs : q < r => m[q]

\* One turn of the loop that finds a register for the range.
AssignRegister ==
  /\ cur <= NumRanges
  /\ ~IsRegMapEmpty
  /\ IF \E r \in Regs : FirstFree(ReleasedRegs, r)
     THEN \E r \in Regs : /\ FirstFree(ReleasedRegs, r)
                          /\ reg_map_' = [ReleasedRegs EXCEPT ![r] = TRUE]
                          /\ location' = [location EXCEPT ![cur] = OnRegister(r)]
     ELSE reg_map_' = ReleasedRegs /\ UNCHANGED location
  /\ active_' = AddToActive(Unexpired, cur)
  /\ cur' = cur + 1
  /\ drained' = (drained \/ (active_ # <<>> /\ NumExpired = Len(active_)))
  /\ UNCHANGED <<ranges_, current_stack_slot>>

\* One turn that spills: the active range that ends last, if it outlives this one,
\* gives its register away, else this one goes to the stack.
SpillAtInterval ==
  /\ cur <= NumRanges
  /\ IsRegMapEmpty
  /\ LET back == Last(Unexpired) IN
       IF End(back) > End(cur)
       THEN /\ location' = [location EXCEPT ![back] = OnStack,
                                            ![cur] = OnRegister(location[back].slot)]
            /\ active_' = AddToActive(Front(Unexpired), cur)
       ELSE /\ location' = [location EXCEPT ![cur] = OnStack]
            /\ active_' = Unexpired
  /\ reg_map_' = ReleasedRegs
  /\ current_stack_slot' = NextStackSlot
  /\ cur' = cur + 1
  /\ drained' = (drained \/ (active_ # <<>> /\ NumExpired = Len(active_)))
  /\ UNCHANGED ranges_

Next == AssignRegister \/ SpillAtInterval

Spec == Init /\ [][Next]_vars

-----------------------------------------------------------------------------
Served == 1 .. cur - 1

\* Range::IfIntersect
Overlap(i, j) == Start(i) < End(j) /\ Start(j) < End(i)

\* Every range the loop has passed has a place: whenever active_ is shorter than
\* the register file, reg_map_ has a free register. AssignRegister searches one
\* structure under a condition on the other, and on failure silently leaves the
\* location unset.
EveryRangeLocated == \A i \in Served : location[i].where # "UNSET"

\* A stack slot is never given to two values, whichever of them was spilled
\* first.
StackSlotsPrivate ==
  \A i, j \in Served : i # j /\ location[i].where = "STACK" => location[i] # location[j]

\* active_ holds, by increasing end, every range that is on a register and still
\* live where the loop is: one that is missing would lose its register to the
\* next range without ever being considered for spilling.
ActiveComplete ==
  /\ \A k \in 1 .. Len(active_) - 1 : End(active_[k]) <= End(active_[k + 1])
  /\ \A k \in DOMAIN active_ : location[active_[k]].where = "REGISTER"
  /\ \A i \in Served : /\ location[i].where = "REGISTER"
                       /\ Start(cur - 1) < End(i)
                       => i \in ToSet(active_)

\* As long as the loop never met an active_ list whose ranges had all ended, two
\* values that are live at the same point never share a register.
ExclusiveUntilDrained ==
  ~drained => \A i, j \in Served :
    i # j /\ location[i].where = "REGISTER" /\ location[i] = location[j] => ~Overlap(i, j)

\* Two values that are live at the same point never share a register.
RegistersExclusive ==
  \A i, j \in Served :
    i # j /\ location[i].where = "REGISTER" /\ location[i] = location[j] => ~Overlap(i, j)

-----------------------------------------------------------------------------
\* A value goes to the stack once, never comes back, and when it goes it is
\* the one that ends last among itself, the new range and the ranges on a
\* register that are still live: the choice linear scan is built on.
SpillsFurthest ==
  [][ \A i \in Index :
        /\ location[i].where = "STACK" => location'[i] = location[i]
        /\ location[i].where # "STACK" /\ location'[i].where = "STACK" =>
             \A j \in Served \cup {cur} :
               \/ location[j].where = "STACK"
               \/ End(j) <= Start(cur)
               \/ End(j) <= End(i) ]_vars
=============================================================================
