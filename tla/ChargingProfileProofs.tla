----------------------- MODULE ChargingProfileProofs -----------------------
(***************************************************************************)
(* Proofs about ChargingProfile, for schedules and profiles of any length: *)
(* the two loops of _is_charging_profile_valid stay within their lists, a  *)
(* profile is rejected for a cause, and an accepted one keeps within the   *)
(* first two slots.  The argument is about the carried index: it is never  *)
(* too small, and it is exact as long as it was carried over once.         *)
(***************************************************************************)
EXTENDS ChargingProfile, SequenceTheorems, TLAPS

\* What the lists of both sides are: not empty, with starts that increase from 0.
WellFormed(list) == list \in Seq(Entry) /\ Len(list) \in Nat \ {0} /\ Increasing(list)

InputOK == WellFormed(slots) /\ WellFormed(entries) /\ duration \in Nat \ {0}

\* The entry that follows those a slot has passed on ends after the slot: the
\* carried index is never too small, so that the next slot starts with an entry
\* it overlaps.  The index of EvProfileEntryEnd errs to the other side only.
CarryReaches ==
    /\ last <= evIdx
    /\ (idx >= 1 /\ last < evIdx) =>
          cached + last + 1 = Len(entries) \/ entries[last + 2].start > SlotEnd(idx)
    /\ (idx >= 1 /\ cached + 2 <= Len(entries)) => entries[cached + 2].start > slots[idx].start
    /\ (verdict = "slot" /\ idx >= 1 /\ cached + last + 2 <= Len(entries)) =>
          entries[cached + last + 2].start > SlotEnd(idx)

\* As long as the index was carried over once it is not too large either: the
\* entries before it end by the start of the slot.
CarryExact ==
    /\ idx = 0 => cached = 0 /\ last = 0 /\ verdict = "slot"
    /\ idx = 1 => cached = 0 /\ (last > 0 => entries[last + 1].start <= SlotEnd(1))
    /\ (idx = 2 /\ cached > 0) => entries[cached + 1].start <= slots[2].start

\* The entries of this slot that the inner loop has seen are within its power.
Compared ==
    (idx >= 1 /\ verdict # "rejected") =>
        \A i \in cached + 1 .. cached + evIdx : ~TooMuch(i, idx)

\* The slots that are over.
Over(j) == j < idx \/ (j = idx /\ verdict \in {"slot", "accepted"})

\* Of the first two slots, no entry that overlaps one that is over exceeds it.
SlotsKept ==
    \A i \in 1 .. Len(entries), j \in 1 .. Len(slots) :
        (j <= 2 /\ Over(j) /\ Overlap(i, j)) => ~TooMuch(i, j)

AllSlotsSeen == verdict = "accepted" => idx = Len(slots)

IInv ==
    /\ InputOK
    /\ TypeOK
    /\ CarryReaches
    /\ CarryExact
    /\ Compared
    /\ SlotsKept
    /\ AllSlotsSeen
    /\ RejectedForCause

-----------------------------------------------------------------------------
(***************************************************************************)
(* The lists.                                                              *)
(***************************************************************************)

\* Every list that Init chooses from is well formed.
LEMMA ListsWellFormed ==
    ASSUME NEW n \in Nat, NEW list \in Lists(n) PROVE WellFormed(list)
<1>1. list \in SeqOf(Entry, n) /\ list # <<>> /\ Increasing(list)
  BY DEF Lists, BoundedSeq
<1>2. PICK m \in 0 .. n : list \in [1 .. m -> Entry]
  BY <1>1 DEF SeqOf
<1>3. list \in Seq(Entry) /\ Len(list) = m
  BY <1>2, SeqDef, LenProperties, Z3
<1>4. Len(list) # 0
  BY <1>1, <1>3, EmptySeq
<1>. QED BY <1>1, <1>3, <1>4 DEF WellFormed

\* What the other proofs use of a well-formed list.
LEMMA ListFacts ==
    ASSUME NEW list, WellFormed(list)
    PROVE  /\ Len(list) \in Nat \ {0}
           /\ \A i \in 1 .. Len(list) : list[i].start \in Nat
           /\ list[1].start = 0
           /\ \A i, j \in 1 .. Len(list) : i < j => list[i].start < list[j].start
<1>1. \A i \in 1 .. Len(list) : list[i] \in Entry
  BY DEF WellFormed
<1>2. \A i \in 1 .. Len(list) : list[i].start \in Nat
  BY <1>1, ProfileConstants DEF Entry
<1>. QED BY <1>2 DEF WellFormed, Increasing

\* Powers can be compared.
LEMMA PowerIsNat ==
    ASSUME NEW list, WellFormed(list), NEW i \in 1 .. Len(list)
    PROVE  list[i].power \in Nat
<1>1. list[i] \in Entry
  BY DEF WellFormed
<1>. QED BY <1>1, ProfileConstants DEF Entry

\* The starts grow with the position.
LEMMA StartsGrow ==
    ASSUME NEW list, WellFormed(list),
           NEW i \in 1 .. Len(list), NEW j \in 1 .. Len(list), i <= j
    PROVE  list[i].start <= list[j].start
<1>1. CASE i = j
  BY <1>1, ListFacts
<1>2. CASE i < j
  BY <1>2, ListFacts
<1>. QED BY <1>1, <1>2, ListFacts

\* The position in a list decides whether an entry is the last one: comparing
\* the starts, as the code does, comes to the same because they increase.
LEMMA LastByStart ==
    ASSUME InputOK, TypeOK, Here <= Len(entries)
    PROVE  IsLastEvProfile <=> Here = Len(entries)
<1>1. Here \in 1 .. Len(entries) /\ Len(entries) \in 1 .. Len(entries)
  BY ListFacts DEF InputOK, TypeOK, Here
<1>. QED BY <1>1, ListFacts DEF InputOK, IsLastEvProfile, Last

\* A slot ends after it starts, and where the next one starts.
LEMMA SlotFacts ==
    ASSUME InputOK, NEW j \in 1 .. Len(slots)
    PROVE  /\ SlotEnd(j) \in Nat
           /\ slots[j].start < SlotEnd(j)
           /\ j < Len(slots) => SlotEnd(j) = slots[j + 1].start
BY ListFacts DEF InputOK, SlotEnd

\* The loops begin before the first slot, with nothing passed on.
LEMMA InitInv == Init => IInv
<1>. SUFFICES ASSUME Init PROVE IInv
  OBVIOUS
<1>1. InputOK
  BY ListsWellFormed, ProfileConstants DEF Init, InputOK
<1>2. Len(slots) \in Nat \ {0} /\ Len(entries) \in Nat \ {0}
  BY <1>1, ListFacts DEF InputOK
<1>. QED
  BY <1>1, <1>2
  DEF Init, IInv, TypeOK, CarryReaches, CarryExact, Compared, SlotsKept, Over,
      AllSlotsSeen, RejectedForCause

-----------------------------------------------------------------------------
(***************************************************************************)
(* The steps.                                                              *)
(***************************************************************************)

\* A new slot begins with an entry that lasts beyond the start of the slot.
LEMMA NextSlotKeeps ==
    ASSUME IInv, NextSlot PROVE IInv'
<1>. USE DEF NextSlot, input
<1>1. InputOK /\ InputOK'
  BY DEF IInv, InputOK, WellFormed, Increasing
<1>2. Len(slots) \in Nat \ {0} /\ Len(entries) \in Nat \ {0}
  BY <1>1, ListFacts DEF InputOK
<1>3. TypeOK /\ TypeOK'
  BY <1>2 DEF IInv, TypeOK
<1>4. CarryReaches'
  <2>1. SUFFICES ASSUME cached' + 2 <= Len(entries)
                 PROVE  entries[cached' + 2].start > slots[idx'].start
    BY <1>2, <1>3 DEF CarryReaches
  <2>2. CASE idx = 0
    <3>1. cached' = 0 /\ idx' = 1
      BY <2>2 DEF IInv, CarryExact
    <3>2. 2 \in 1 .. Len(entries) /\ 1 \in 1 .. Len(entries)
      BY <2>1, <3>1, <1>2
    <3>3. entries[1].start = 0 /\ entries[2].start > entries[1].start
      BY <3>2, <1>1, ListFacts DEF InputOK
    <3>4. slots[1].start = 0
      BY <1>1, ListFacts DEF InputOK
    <3>. QED BY <3>1, <3>3, <3>4
  <2>3. CASE idx # 0
    <3>1. idx \in 1 .. Len(slots) /\ idx < Len(slots) /\ idx >= 1
      BY <2>3, <1>2, <1>3 DEF TypeOK
    <3>2. SlotEnd(idx) = slots[idx'].start
      BY <3>1, <1>1, SlotFacts
    <3>3. cached' + 2 = cached + last + 2
      BY <1>3 DEF TypeOK
    <3>. QED BY <2>1, <3>1, <3>2, <3>3 DEF IInv, CarryReaches
  <2>. QED BY <2>2, <2>3
<1>5. CarryExact'
  <2>1. idx' = 1 => cached' = 0 /\ last' = 0
    BY <1>3 DEF IInv, CarryExact, TypeOK
  <2>2. ASSUME idx' = 2, cached' > 0 PROVE entries[cached' + 1].start <= slots[2].start
    <3>1. idx = 1 /\ 1 < Len(slots) /\ cached = 0 /\ cached' = last /\ last > 0
      BY <2>2, <1>2, <1>3 DEF IInv, CarryExact, TypeOK
    <3>2. SlotEnd(1) = slots[2].start
      BY <3>1, <1>2 DEF SlotEnd
    <3>. QED BY <3>1, <3>2 DEF IInv, CarryExact
  <2>3. idx' # 0
    BY <1>3 DEF TypeOK
  <2>. QED BY <2>1, <2>2, <2>3 DEF CarryExact
<1>6. Compared'
  BY <1>3 DEF Compared, TypeOK
<1>7. SlotsKept'
  <2>1. SUFFICES ASSUME NEW i \in 1 .. Len(entries), NEW j \in 1 .. Len(slots),
                        j <= 2, Over(j)', Overlap(i, j)'
                 PROVE  ~TooMuch(i, j)'
    BY DEF SlotsKept
  <2>2. Over(j)
    BY <2>1, <1>2, <1>3 DEF Over, TypeOK
  <2>3. Overlap(i, j)
    BY <2>1 DEF Overlap, SlotEnd, EntryEnd
  <2>. QED BY <2>1, <2>2, <2>3 DEF IInv, SlotsKept, TooMuch
<1>. QED
  BY <1>1, <1>3, <1>4, <1>5, <1>6, <1>7 DEF IInv, AllSlotsSeen, RejectedForCause

\* The last slot is over.
LEMMA AcceptKeeps ==
    ASSUME IInv, Accept PROVE IInv'
<1>. USE DEF Accept, input
<1>1. InputOK /\ InputOK'
  BY DEF IInv, InputOK, WellFormed, Increasing
<1>2. TypeOK /\ TypeOK'
  BY DEF IInv, TypeOK
<1>3. CarryReaches'
  BY DEF IInv, CarryReaches, SlotEnd
<1>4. CarryExact'
  <2>1. idx # 0
    BY <1>1, ListFacts DEF InputOK
  <2>. QED BY <2>1 DEF IInv, CarryExact, SlotEnd
<1>5. Compared'
  BY DEF IInv, Compared, TooMuch
<1>6. SlotsKept'
  BY DEF IInv, SlotsKept, Over, Overlap, TooMuch, SlotEnd, EntryEnd
<1>. QED
  BY <1>1, <1>2, <1>3, <1>4, <1>5, <1>6 DEF IInv, AllSlotsSeen, RejectedForCause

\* One more entry of the slot is compared, and maybe passed on.
LEMMA CheckEntryKeeps ==
    ASSUME IInv, CheckEntry PROVE IInv'
<1>. USE DEF CheckEntry, input
<1>1. InputOK /\ InputOK'
  BY DEF IInv, InputOK, WellFormed, Increasing
<1>2. Len(slots) \in Nat \ {0} /\ Len(entries) \in Nat \ {0}
  BY <1>1, ListFacts DEF InputOK
<1>3. TypeOK /\ idx # 0
  BY DEF IInv, CarryExact
<1>4. IsLastEvProfile <=> cached + evIdx + 1 = Len(entries)
  BY <1>1, <1>3, LastByStart DEF Here
<1>5. last' = last \/ (last' = evIdx + 1 /\ cached + evIdx + 1 # Len(entries)
                        /\ entries[evIdx + 2].start <= SlotEnd(idx))
  BY <1>3, <1>4 DEF EvProfileEntryEnd, TypeOK
<1>6. cached + evIdx + 1 <= Len(entries)
  BY DEF Here
<1>7. TypeOK'
  <2>1. evIdx + 1 \in 0 .. Len(entries) - cached
    BY <1>2, <1>3, <1>6 DEF TypeOK
  <2>2. CASE last' = last
    BY <2>1, <2>2, <1>3 DEF TypeOK
  <2>3. CASE last' = evIdx + 1 /\ cached + evIdx + 1 # Len(entries)
    <3>1. evIdx + 1 \in 0 .. Len(entries) - 1 - cached
      BY <2>3, <1>2, <1>3, <1>6 DEF TypeOK
    <3>. QED BY <2>1, <2>3, <3>1, <1>3 DEF TypeOK
  <2>. QED BY <2>2, <2>3, <1>5
<1>8. CarryReaches'
  <2>1. last' <= evIdx'
    BY <1>3, <1>5 DEF TypeOK, IInv, CarryReaches
  <2>2. ASSUME last' < evIdx'
        PROVE  cached + last' + 1 = Len(entries) \/ entries[last' + 2].start > SlotEnd(idx)
    <3>1. last' = last
      BY <2>2, <1>3, <1>5 DEF TypeOK
    <3>2. CASE last < evIdx
      BY <3>1, <3>2, <1>3 DEF IInv, CarryReaches, TypeOK
    <3>3. CASE last = evIdx
      <4>1. CASE cached + evIdx + 1 = Len(entries)
        BY <3>1, <3>3, <4>1
      <4>2. CASE cached + evIdx + 1 # Len(entries)
        <5>1. ~(EvProfileEntryEnd <= SlotEnd(idx))
          BY <3>1, <3>3, <4>2, <1>3, <1>4 DEF TypeOK
        <5>2. evIdx + 2 \in 1 .. Len(entries) /\ evIdx + 2 = (evIdx + 1) + 1
          BY <4>2, <1>2, <1>3, <1>6 DEF TypeOK
        <5>3. entries[evIdx + 2].start \in Nat
          BY <5>2, <1>1, ListFacts DEF InputOK
        <5>4. SlotEnd(idx) \in Nat
          BY <1>1, <1>2, <1>3, SlotFacts DEF TypeOK
        <5>. QED BY <5>1, <5>2, <5>3, <5>4, <3>1, <3>3 DEF EvProfileEntryEnd
      <4>. QED BY <4>1, <4>2
    <3>. QED BY <3>2, <3>3, <1>3 DEF IInv, CarryReaches, TypeOK
  <2>3. cached + 2 <= Len(entries) => entries[cached + 2].start > slots[idx].start
    BY <1>3 DEF IInv, CarryReaches, TypeOK
  <2>4. SlotEnd(idx)' = SlotEnd(idx)
    BY DEF SlotEnd
  <2>. QED BY <2>1, <2>2, <2>3, <2>4 DEF CarryReaches
<1>9. CarryExact'
  <2>1. ASSUME idx = 1, last' > 0 PROVE entries[last' + 1].start <= SlotEnd(1)
    <3>1. CASE last' = last
      BY <2>1, <3>1 DEF IInv, CarryExact
    <3>2. CASE last' # last
      <4>1. last' + 1 = evIdx + 2 /\ entries[evIdx + 2].start <= SlotEnd(1)
        BY <2>1, <3>2, <1>3, <1>5 DEF TypeOK
      <4>. QED BY <4>1
    <3>. QED BY <3>1, <3>2
  <2>2. SlotEnd(1)' = SlotEnd(1)
    BY DEF SlotEnd
  <2>. QED BY <2>1, <2>2, <1>3 DEF IInv, CarryExact
<1>10. Compared'
  <2>1. SUFFICES ASSUME NEW i \in cached + 1 .. cached + (evIdx + 1)
                 PROVE  ~TooMuch(i, idx)
    BY DEF Compared, TooMuch
  <2>2. CASE i \in cached + 1 .. cached + evIdx
    BY <2>2, <1>3 DEF IInv, Compared, TypeOK
  <2>3. CASE i = Here
    <3>1. Here \in 1 .. Len(entries) /\ idx \in 1 .. Len(slots)
      BY <1>2, <1>3 DEF Here, TypeOK
    <3>2. entries[Here].power \in Nat /\ slots[idx].power \in Nat
      BY <3>1, <1>1, PowerIsNat DEF InputOK
    <3>. QED BY <2>3, <3>2 DEF TooMuch
  <2>. QED BY <2>2, <2>3, <1>3 DEF Here, TypeOK
<1>11. SlotsKept'
  BY DEF IInv, SlotsKept, Over, Overlap, TooMuch, SlotEnd, EntryEnd
<1>. QED
  BY <1>1, <1>7, <1>8, <1>9, <1>10, <1>11 DEF IInv, AllSlotsSeen, RejectedForCause

\* The entry that costs the profile its acceptance is one the slot overlaps.
LEMMA RejectKeeps ==
    ASSUME IInv, Reject PROVE IInv'
<1>. USE DEF Reject, input
<1>1. InputOK /\ InputOK'
  BY DEF IInv, InputOK, WellFormed, Increasing
<1>2. Len(slots) \in Nat \ {0} /\ Len(entries) \in Nat \ {0}
  BY <1>1, ListFacts DEF InputOK
<1>3. TypeOK /\ idx # 0
  BY DEF IInv, CarryExact
<1>4. TypeOK'
  BY <1>3 DEF TypeOK
<1>5. CarryReaches'
  BY DEF IInv, CarryReaches, SlotEnd
<1>6. CarryExact'
  BY <1>3 DEF IInv, CarryExact, SlotEnd
<1>7. SlotsKept'
  BY DEF IInv, SlotsKept, Over, Overlap, TooMuch, SlotEnd, EntryEnd
<1>8. Here \in 1 .. Len(entries) /\ idx \in 1 .. Len(slots)
  BY <1>2, <1>3 DEF Here, TypeOK
<1>9. Overlap(Here, idx) \/ Here = Len(entries)
  <2>1. SUFFICES ASSUME Here # Len(entries) PROVE Overlap(Here, idx)
    OBVIOUS
  <2>2. entries[Here].start < SlotEnd(idx)
    BY <2>1, <1>1, <1>3, LastByStart DEF InSlot
  <2>3. /\ Here < Len(entries)
        /\ Here + 1 \in 1 .. Len(entries)
        /\ cached + 2 \in 1 .. Len(entries)
        /\ cached + 2 <= Here + 1
    BY <2>1, <1>2, <1>3, <1>8 DEF TypeOK, Here
  <2>4. entries[cached + 2].start > slots[idx].start
    BY <2>3, <1>2, <1>3 DEF IInv, CarryReaches, TypeOK
  <2>5. entries[cached + 2].start <= entries[Here + 1].start
    BY <2>3, <1>1, StartsGrow DEF InputOK
  <2>6. /\ entries[cached + 2].start \in Nat
        /\ entries[Here + 1].start \in Nat
        /\ slots[idx].start \in Nat
    BY <2>3, <1>1, <1>8, ListFacts DEF InputOK
  <2>7. slots[idx].start < EntryEnd(Here)
    BY <2>3, <2>4, <2>5, <2>6 DEF EntryEnd
  <2>. QED BY <2>2, <2>7 DEF Overlap
<1>10. RejectedForCause'
  <2>1. TooMuch(Here, idx)
    BY DEF TooMuch
  <2>2. \E i \in 1 .. Len(entries), j \in 1 .. Len(slots) :
            TooMuch(i, j) /\ (Overlap(i, j) \/ i = Len(entries))
    BY <2>1, <1>8, <1>9
  <2>. QED
    BY <2>2 DEF RejectedForCause, TooMuch, Overlap, SlotEnd, EntryEnd
<1>. QED
  BY <1>1, <1>4, <1>5, <1>6, <1>7, <1>10 DEF IInv, Compared, AllSlotsSeen

\* When the inner loop ends, it has compared every entry the slot overlaps, and
\* what it carries on reaches into the next slot.
LEMMA EndSlotKeeps ==
    ASSUME IInv, EndSlot PROVE IInv'
<1>. USE DEF EndSlot, input
<1>1. InputOK /\ InputOK'
  BY DEF IInv, InputOK, WellFormed, Increasing
<1>2. Len(slots) \in Nat \ {0} /\ Len(entries) \in Nat \ {0}
  BY <1>1, ListFacts DEF InputOK
<1>3. TypeOK /\ idx # 0
  BY DEF IInv, CarryExact
<1>4. TypeOK'
  BY <1>3 DEF TypeOK
<1>5. idx \in 1 .. Len(slots) /\ SlotEnd(idx) \in Nat /\ SlotEnd(idx)' = SlotEnd(idx)
  <2>1. idx \in 1 .. Len(slots)
    BY <1>2, <1>3 DEF TypeOK
  <2>. QED BY <2>1, <1>1, SlotFacts DEF SlotEnd
<1>6. ASSUME NEW i \in 1 .. Len(entries), i >= Here
      PROVE  entries[i].start >= SlotEnd(idx) /\ (i > Here => entries[i].start > SlotEnd(idx))
  <2>1. Here \in 1 .. Len(entries)
    BY <1>6, <1>2, <1>3 DEF Here, TypeOK
  <2>2. ~(entries[Here].start < SlotEnd(idx))
    BY <2>1 DEF InSlot
  <2>3. entries[Here].start \in Nat /\ entries[i].start \in Nat
    BY <2>1, <1>1, ListFacts DEF InputOK
  <2>4. entries[Here].start <= entries[i].start
    BY <2>1, <1>1, <1>6, StartsGrow DEF InputOK
  <2>5. i > Here => entries[Here].start < entries[i].start
    BY <2>1, <1>1, <1>6, ListFacts DEF InputOK
  <2>. QED BY <2>2, <2>3, <2>4, <2>5, <1>5
<1>7. CarryReaches'
  <2>1. SUFFICES ASSUME cached + last + 2 <= Len(entries)
                 PROVE  entries[cached + last + 2].start > SlotEnd(idx)
    BY <1>5 DEF IInv, CarryReaches
  <2>2. CASE last < evIdx
    <3>1. entries[last + 2].start > SlotEnd(idx)
      BY <2>1, <2>2, <1>2, <1>3 DEF IInv, CarryReaches, TypeOK
    <3>2. /\ last + 2 \in 1 .. Len(entries)
          /\ cached + last + 2 \in 1 .. Len(entries)
          /\ last + 2 <= cached + last + 2
      BY <2>1, <1>2, <1>3 DEF TypeOK
    <3>3. entries[last + 2].start <= entries[cached + last + 2].start
      BY <3>2, <1>1, StartsGrow DEF InputOK
    <3>4. entries[last + 2].start \in Nat /\ entries[cached + last + 2].start \in Nat
      BY <3>2, <1>1, ListFacts DEF InputOK
    <3>. QED BY <3>1, <3>3, <3>4, <1>5
  <2>3. CASE last = evIdx
    <3>1. cached + last + 2 \in 1 .. Len(entries) /\ cached + last + 2 > Here
      BY <2>1, <2>3, <1>2, <1>3 DEF TypeOK, Here
    <3>. QED BY <3>1, <1>3, <1>6 DEF TypeOK, Here
  <2>. QED BY <2>2, <2>3, <1>3 DEF IInv, CarryReaches, TypeOK
<1>8. CarryExact'
  BY <1>3 DEF IInv, CarryExact, SlotEnd
<1>9. Compared'
  BY DEF IInv, Compared, TooMuch
<1>10. SlotsKept'
  <2>1. SUFFICES ASSUME NEW i \in 1 .. Len(entries), NEW j \in 1 .. Len(slots),
                        j <= 2, Over(j)', Overlap(i, j)
                 PROVE  ~TooMuch(i, j)
    BY DEF SlotsKept, Overlap, TooMuch, SlotEnd, EntryEnd
  <2>2. CASE j # idx
    <3>1. Over(j)
      BY <2>1, <2>2 DEF Over
    <3>. QED BY <2>1, <3>1 DEF IInv, SlotsKept
  <2>3. CASE j = idx /\ i <= cached
    <3>1. cached > 0 /\ idx = 2
      BY <2>1, <2>3, <1>3, <1>5 DEF IInv, CarryExact, TypeOK
    <3>2. entries[cached + 1].start <= slots[2].start
      BY <3>1 DEF IInv, CarryExact
    <3>3. /\ i < Len(entries)
          /\ i + 1 \in 1 .. Len(entries)
          /\ cached + 1 \in 1 .. Len(entries)
          /\ i + 1 <= cached + 1
      BY <2>3, <1>2, <1>3 DEF TypeOK
    <3>4. entries[i + 1].start <= entries[cached + 1].start
      BY <3>3, <1>1, StartsGrow DEF InputOK
    <3>5. slots[2].start < entries[i + 1].start
      BY <2>1, <2>3, <3>1, <3>3 DEF Overlap, EntryEnd
    <3>6. /\ entries[i + 1].start \in Nat
          /\ entries[cached + 1].start \in Nat
          /\ slots[2].start \in Nat
      BY <3>1, <3>3, <1>1, <1>5, ListFacts DEF InputOK
    <3>. QED BY <3>2, <3>4, <3>5, <3>6
  <2>4. CASE j = idx /\ i \in cached + 1 .. cached + evIdx
    BY <2>4, <1>3 DEF IInv, Compared, TypeOK
  <2>5. CASE j = idx /\ i >= Here
    <3>1. entries[i].start >= SlotEnd(idx)
      BY <2>5, <1>6
    <3>2. entries[i].start \in Nat
      BY <1>1, ListFacts DEF InputOK
    <3>. QED BY <2>1, <2>5, <3>1, <3>2, <1>5 DEF Overlap
  <2>. QED BY <2>2, <2>3, <2>4, <2>5, <1>3 DEF Here, TypeOK
<1>. QED
  BY <1>1, <1>4, <1>7, <1>8, <1>9, <1>10 DEF IInv, AllSlotsSeen, RejectedForCause

\* Every iteration of the two loops keeps the invariant.
LEMMA InvNext == IInv /\ [Next]_vars => IInv'
<1>. SUFFICES ASSUME IInv, [Next]_vars PROVE IInv'
  OBVIOUS
<1>1. CASE NextSlot
  BY <1>1, NextSlotKeeps
<1>2. CASE Accept
  BY <1>2, AcceptKeeps
<1>3. CASE CheckEntry
  BY <1>3, CheckEntryKeeps
<1>4. CASE Reject
  BY <1>4, RejectKeeps
<1>5. CASE EndSlot
  BY <1>5, EndSlotKeeps
<1>6. CASE UNCHANGED vars
  BY <1>6
  DEF vars, IInv, InputOK, WellFormed, Increasing, TypeOK, CarryReaches,
      CarryExact, Compared, SlotsKept, AllSlotsSeen, RejectedForCause, Over,
      Overlap, TooMuch, SlotEnd, EntryEnd
<1>. QED BY <1>1, <1>2, <1>3, <1>4, <1>5, <1>6 DEF Next, Done

-----------------------------------------------------------------------------
(***************************************************************************)
(* The theorems.                                                           *)
(***************************************************************************)

\* The two loops of the check keep the inductive invariant.
THEOREM ProfileInvariant == Spec => []IInv
BY InitInv, InvNext, PTL DEF Spec

\* The suffix of the profile is never empty and no index of the walk leaves its
\* list: `ev_profile_entries[ev_profile_idx + 1]` never raises IndexError.
THEOREM ProfileTypeOK == Spec => []TypeOK
<1>1. IInv => TypeOK
  BY DEF IInv
<1>. QED BY <1>1, ProfileInvariant, PTL

\* `return False` is reached only for an entry with more power than a slot that
\* it overlaps, or for the last entry.
THEOREM ProfileRejectedForCause == Spec => []RejectedForCause
<1>1. IInv => RejectedForCause
  BY DEF IInv
<1>. QED BY <1>1, ProfileInvariant, PTL

\* `return True` vouches for the first two slots of the schedule, for schedules
\* and profiles of any length.
THEOREM ProfileAcceptedFitsTwoSlots == Spec => []AcceptedFitsTwoSlots
<1>1. IInv => AcceptedFitsTwoSlots
  <2>1. SUFFICES ASSUME IInv, verdict = "accepted",
                        NEW i \in 1 .. Len(entries), NEW j \in 1 .. Len(slots),
                        j <= 2, Overlap(i, j)
                 PROVE  ~TooMuch(i, j)
    BY DEF AcceptedFitsTwoSlots
  <2>2. Over(j)
    BY <2>1 DEF IInv, AllSlotsSeen, Over
  <2>. QED BY <2>1, <2>2 DEF IInv, SlotsKept
<1>. QED BY <1>1, ProfileInvariant, PTL
=============================================================================
