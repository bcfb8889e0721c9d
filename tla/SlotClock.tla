------------------------------ MODULE SlotClock -----------------------------
(***************************************************************************)
(* The slot clock (observer/slot_clock.rs): a table that tells for a slot  *)
(* counter, which wraps every four minutes, when a gateway last showed it. *)
(*                                                                         *)
(* Times are counted in nominal slots of 5 ms.  A slot counter is its      *)
(* epoch and its slot number, which is invalid from EpochSlots on.         *)
(***************************************************************************)
EXTENDS Integers

CONSTANTS
  Epochs,        \* 4 in the code
  EpochSlots,    \* slots in an epoch: 12000 in the code
  SlotsPerIndex  \* slots to an entry of the table: 1000 in the code

ASSUME SlotConstants ==
  /\ Epochs \in Nat \ {0}
  /\ SlotsPerIndex \in Nat \ {0}
  /\ EpochSlots \in Nat \ {0}
  /\ EpochSlots % SlotsPerIndex = 0

Wrap == Epochs * EpochSlots
Indexes == Wrap \div SlotsPerIndex
Index == 0..Indexes - 1

\* Mutant: one slot number too many.
IsValidAtEnd(c) == c.number <= EpochSlots

IsValid(c) == c.number < EpochSlots

AbsoluteSlot(c) == c.epoch * EpochSlots + c.number
IndexOf(c) == AbsoluteSlot(c) \div SlotsPerIndex
OffsetOf(c) == AbsoluteSlot(c) % SlotsPerIndex

\* How many steps it takes to walk backwards from index i to index j.
StepsBack(i, j) == (i + Indexes - j) % Indexes

\* SlotClock::new
NewClock(c, time) ==
  [times |-> [i \in Index |->
                time - OffsetOf(c) - StepsBack(IndexOf(c), i) * SlotsPerIndex],
   last_index |-> IndexOf(c),
   last_time |-> time]

\* Mutant: only the entry of the counter itself is updated.
UpdatedAtIndex(k, c, time) ==
  [k.times EXCEPT ![IndexOf(c)] = time - OffsetOf(c)]

\* The entries after the one set last, up to the one of c, are set as if new.
Updated(k, c, time) ==
  [i \in Index |->
     IF StepsBack(IndexOf(c), i) < StepsBack(IndexOf(c), k.last_index)
       THEN NewClock(c, time).times[i] ELSE k.times[i]]

\* Mutant: a clock that went backwards goes unnoticed.
SetForward(k, c, time) ==
  [times |-> Updated(k, c, time), last_index |-> IndexOf(c), last_time |-> time]

\* SlotClock::set.  Within the index set last no entry is updated.
Set(k, c, time) ==
  IF k.last_time > time
    THEN NewClock(c, time)
    ELSE [times |-> Updated(k, c, time), last_index |-> IndexOf(c), last_time |-> time]

\* SlotClock::get
Get(k, c) == k.times[IndexOf(c)] + OffsetOf(c)
=============================================================================
