--------------------------- MODULE ChargingProfile ---------------------------
(***************************************************************************)
(* PowerDelivery._is_charging_profile_valid of the ISO 15118-2 SECC        *)
(* (iso15118/secc/states/iso15118_2_states.py): the check of the charging  *)
(* profile of an EV against the schedule it selected, [V2G2-225].          *)
(*                                                                         *)
(* The function walks two lists at once: an outer loop over the slots of   *)
(* the schedule and an inner one over a suffix of the EV's entries, whose  *)
(* beginning it carries from one slot to the next in two variables.  One   *)
(* step of the specification is one iteration of a loop.  Powers are       *)
(* compared after value * 10**multiplier, so a power is a number here.     *)
(* The first schedule with the selected id is the one examined: the caller *)
(* has checked that the id was offered.                                    *)
(***************************************************************************)
EXTENDS Integers, Sequences, SequencesExt

CONSTANTS
    Horizon,     \* the schedules and the profiles live in 0 .. Horizon
    Powers,      \* the powers that entries may have
    MaxSlots,    \* the longest schedule
    MaxEntries   \* the longest profile

ASSUME ProfileConstants ==
    /\ Horizon \in Nat \ {0}
    /\ Powers \subseteq Nat
    /\ {MaxSlots, MaxEntries} \subseteq Nat \ {0}

VARIABLES
    slots,     \* schedule.p_max_schedule.schedule_entries
    duration,  \* time_interval.duration of the last slot
    entries,   \* power_delivery_req.charging_profile.profile_entries
    idx,       \* the slot of the outer loop, from 1
    cached,    \* cached_start_idx_ev, from 0 as in the code
    last,      \* last_ev_running_idx
    evIdx,     \* ev_profile_idx of the next inner iteration, from 0
    verdict    \* "slot" or "entry": which loop is next; else the result

vars == <<slots, duration, entries, idx, cached, last, evIdx, verdict>>
input == <<slots, duration, entries>>

(***************************************************************************)
(* The lists of both sides: the starts increase from 0.                    *)
(***************************************************************************)
Entry == [start : 0 .. Horizon, power : Powers]
Increasing(list) ==
    /\ list[1].start = 0
    /\ \A i, j \in 1 .. Len(list) : i < j => list[i].start < list[j].start
Lists(n) == {list \in BoundedSeq(Entry, n) \ {<<>>} : Increasing(list)}

Init ==
    /\ slots \in Lists(MaxSlots)
    /\ duration \in 1 .. Horizon
    /\ Last(slots).start + duration <= Horizon
    /\ entries \in Lists(MaxEntries)
    /\ idx = 0 /\ cached = 0 /\ last = 0 /\ evIdx = 0
    /\ verdict = "slot"

\* sa_profile_entry_end: the next slot's start, or start plus duration.
SlotEnd(j) ==
    IF j < Len(slots) THEN slots[j + 1].start ELSE slots[j].start + duration

\* Slip: the carried index is one too far.
NextSlotTooFar ==
    /\ verdict = "slot" /\ idx < Len(slots)
    /\ idx' = idx + 1
    /\ cached' = cached + last + 1
    /\ last' = 0
    /\ evIdx' = 0
    /\ verdict' = "entry"
    /\ UNCHANGED input

\* The head of an outer iteration, up to the reset of last_ev_running_idx.
NextSlot ==
    /\ verdict = "slot" /\ idx < Len(slots)
    /\ idx' = idx + 1
    /\ cached' = cached + last
    /\ last' = 0
    /\ evIdx' = 0
    /\ verdict' = "entry"
    /\ UNCHANGED input

\* The outer loop is over: return True.
Accept ==
    /\ verdict = "slot" /\ idx = Len(slots)
    /\ verdict' = "accepted"
    /\ UNCHANGED <<input, idx, cached, last, evIdx>>

\* The entry of the inner loop, ev_profile_entries[cached_start_idx_ev:][evIdx].
Here == cached + evIdx + 1
IsLastEvProfile == entries[Here].start = Last(entries).start

\* Slip: no break at the end of the slot.
InSlotAlways == TRUE

InSlot == entries[Here].start < SlotEnd(idx) \/ IsLastEvProfile

\* The end of the entry as the code computes it: ev_profile_idx counts from
\* cached_start_idx_ev, and is used as an index of the whole list.
EvProfileEntryEnd == entries[(evIdx + 1) + 1].start

\* Slip: the comparison of the ends is the wrong way round.
CheckEntrySwapped ==
    /\ verdict = "entry" /\ Here <= Len(entries)
    /\ InSlot
    /\ entries[Here].power <= slots[idx].power
    /\ last' = IF ~IsLastEvProfile /\ EvProfileEntryEnd >= SlotEnd(idx)
                 THEN evIdx + 1 ELSE last
    /\ evIdx' = evIdx + 1
    /\ UNCHANGED <<input, idx, cached, verdict>>

\* One inner iteration that finds the entry within the power of the slot.
CheckEntry ==
    /\ verdict = "entry" /\ Here <= Len(entries)
    /\ InSlot
    /\ entries[Here].power <= slots[idx].power
    /\ last' = IF ~IsLastEvProfile /\ EvProfileEntryEnd <= SlotEnd(idx)
                 THEN evIdx + 1 ELSE last
    /\ evIdx' = evIdx + 1
    /\ UNCHANGED <<input, idx, cached, verdict>>

\* One inner iteration that finds too much power: return False.
Reject ==
    /\ verdict = "entry" /\ Here <= Len(entries)
    /\ InSlot
    /\ entries[Here].power > slots[idx].power
    /\ verdict' = "rejected"
    /\ UNCHANGED <<input, idx, cached, last, evIdx>>

\* The inner loop ends, or breaks at the first entry after the slot.
EndSlot ==
    /\ verdict = "entry"
    /\ ~(Here <= Len(entries) /\ InSlot)
    /\ verdict' = "slot"
    /\ UNCHANGED <<input, idx, cached, last, evIdx>>

Done == verdict \in {"accepted", "rejected"} /\ UNCHANGED vars

Next == NextSlot \/ Accept \/ CheckEntry \/ Reject \/ EndSlot \/ Done

Spec == Init /\ [][Next]_vars

-----------------------------------------------------------------------------
(***************************************************************************)
(* The reference: entry i lasts until the next one starts, the last one    *)
(* for ever.                                                               *)
(***************************************************************************)
EntryEnd(i) == IF i < Len(entries) THEN entries[i + 1].start ELSE Horizon + 1

Overlap(i, j) ==
    /\ entries[i].start < SlotEnd(j)
    /\ slots[j].start < EntryEnd(i)

TooMuch(i, j) == entries[i].power > slots[j].power

\* The state of both loops stays in range: in particular the suffix is never
\* empty and `ev_profile_entries[ev_profile_idx + 1]` never raises IndexError.
TypeOK ==
    /\ idx \in 0 .. Len(slots)
    /\ cached \in 0 .. Len(entries) - 1
    /\ last \in 0 .. Len(entries) - 1 - cached
    /\ evIdx \in 0 .. Len(entries) - cached
    /\ verdict \in {"slot", "entry", "accepted", "rejected"}

\* A profile is rejected only for an entry that wants more than a slot allows,
\* and that slot is one the entry overlaps, unless it is the last entry (which
\* the function compares with slots that end before it starts).
RejectedForCause ==
    verdict = "rejected" =>
        \E i \in 1 .. Len(entries), j \in 1 .. Len(slots) :
            TooMuch(i, j) /\ (Overlap(i, j) \/ i = Len(entries))

\* An accepted profile keeps within the first two slots of the schedule,
\* however long both lists are: the carried index is right as long as it was
\* carried over once.
AcceptedFitsTwoSlots ==
    verdict = "accepted" =>
        \A i \in 1 .. Len(entries), j \in 1 .. Len(slots) :
            (j <= 2 /\ Overlap(i, j)) => ~TooMuch(i, j)

\* What the caller takes the answer for, [V2G2-225]: the EV stays within
\* the power of the selected schedule at every time.
AcceptedFits ==
    verdict = "accepted" =>
        \A i \in 1 .. Len(entries), j \in 1 .. Len(slots) :
            Overlap(i, j) => ~TooMuch(i, j)
=============================================================================
