----------------------------- MODULE SlotCounter ----------------------------
(***************************************************************************)
(* A slot counter as it is sent (pv/link/slot_counter.rs): 16 bits, the    *)
(* upper two an epoch and the others the number of a slot in it.  The      *)
(* numbers of 12000 and more are no slots.                                 *)
(***************************************************************************)
EXTENDS Naturals

CONSTANTS InvalidSlotNumber

Slots == 12000   \* of an epoch
AllSlots == 4 * Slots

NewCounter(epoch, number) == 16384 * epoch + number

Epoch(counter) == counter \div 16384

\* SlotNumber::try_from(u16): the last slot is number 11999.
SlotNumber(counter) ==
  LET number == counter % 16384
  IN  IF number <= Slots - 1 THEN number ELSE InvalidSlotNumber

AbsSlots(counter) == Epoch(counter) * Slots + SlotNumber(counter)

\* Mutant: a counter that wrapped is taken for one that did not.
SlotsAhead(self, past) ==
  IF AbsSlots(self) >= AbsSlots(past) THEN AbsSlots(self) - AbsSlots(past)
  ELSE AbsSlots(past) - AbsSlots(self)

Difference(self, past) ==
  IF AbsSlots(self) > AbsSlots(past) THEN AbsSlots(self) - AbsSlots(past)
  ELSE AllSlots - AbsSlots(past) + AbsSlots(self)

SlotsSince(self, past) ==
  IF InvalidSlotNumber \in {SlotNumber(self), SlotNumber(past)} THEN InvalidSlotNumber
  ELSE Difference(self, past)
=============================================================================
