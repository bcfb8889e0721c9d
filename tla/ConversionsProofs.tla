-------------------------- MODULE ConversionsProofs -------------------------
(***************************************************************************)
(* The conversions, for buffers of any length, and the timestamps of power *)
(* reports, which slot counters are converted to, for a slot counter and a *)
(* slot clock of any size and any number of polls, faults, clock steps and *)
(* restarts.                                                               *)
(***************************************************************************)
EXTENDS Conversions, ReportTimes, SequenceProofs

-----------------------------------------------------------------------------
LEMMA OctetIs ==
  \A n : n \in Octet <=> n \in Int /\ 0 <= n /\ n <= 255
BY DEF Octet

LEMMA BytesAreOctets ==
  ASSUME NEW s \in Seq(Byte)
  PROVE  s \in Seq(Octet) /\ \A i \in 1..Len(s) : s[i] \in Octet
<1>1. Byte \subseteq Octet
  BY ConversionsConstants
<1> QED
  BY <1>1

LEMMA BufferIsOfBytes == ConversionsSpec => [](buffer \in Seq(Byte))
<1>1. ConversionsInit => buffer \in Seq(Byte)
  BY DEF ConversionsInit
<1>2. buffer \in Seq(Byte) /\ [Extend]_buffer => (buffer \in Seq(Byte))'
  BY DEF Extend
<1> QED
  BY <1>1, <1>2, PTL DEF ConversionsSpec
-----------------------------------------------------------------------------
(***************************************************************************)
(* Slot counters.                                                          *)
(***************************************************************************)
IsCounter(counter) == counter \in Int /\ 0 <= counter /\ counter <= 65535

LEMMA CounterOfSlot ==
  ASSUME NEW counter, IsCounter(counter)
  PROVE  /\ Epoch(counter) \in Int /\ 0 <= Epoch(counter) /\ Epoch(counter) <= 3
         /\ SlotNumber(counter) \in Nat \cup {InvalidSlotNumber}
         /\ IsSlot(counter) =>
              /\ SlotNumber(counter) \in Int
              /\ 0 <= SlotNumber(counter) /\ SlotNumber(counter) <= 11999
              /\ counter = 16384 * Epoch(counter) + SlotNumber(counter)
              /\ AbsSlots(counter) = 12000 * Epoch(counter) + SlotNumber(counter)
BY ErrorsAreErrors DEF IsCounter, Epoch, IsSlot, SlotNumber, AbsSlots, Slots

LEMMA SlotOfCounter ==
  ASSUME NEW epoch \in Int, 0 <= epoch, epoch <= 3,
         NEW number \in Int, 0 <= number, number <= 11999
  PROVE  LET counter == NewCounter(epoch, number)
         IN  /\ IsCounter(counter) /\ IsSlot(counter)
             /\ Epoch(counter) = epoch /\ SlotNumber(counter) = number
             /\ AbsSlots(counter) = 12000 * epoch + number
<1> DEFINE counter == NewCounter(epoch, number)
<1>1. counter = 16384 * epoch + number
  BY DEF NewCounter
<1>2. /\ counter \in Int /\ 0 <= counter /\ counter <= 65535
      /\ counter \div 16384 = epoch /\ counter % 16384 = number
  BY <1>1
<1> HIDE DEF counter
<1>3. Epoch(counter) = epoch /\ SlotNumber(counter) = number
  BY <1>2 DEF Epoch, SlotNumber, Slots
<1>4. IsSlot(counter) /\ AbsSlots(counter) = 12000 * epoch + number
  BY <1>3, ErrorsAreErrors DEF IsSlot, AbsSlots, Slots
<1> QED
  BY <1>2, <1>3, <1>4 DEF counter, IsCounter

LEMMA FollowingSlot ==
  ASSUME NEW counter, IsCounter(counter), IsSlot(counter)
  PROVE  /\ IsCounter(Following(counter)) /\ IsSlot(Following(counter))
         /\ AbsSlots(Following(counter)) =
              IF AbsSlots(counter) = 47999 THEN 0 ELSE AbsSlots(counter) + 1
<1> DEFINE epoch == Epoch(counter)
           number == SlotNumber(counter)
<1>1. /\ epoch \in Int /\ 0 <= epoch /\ epoch <= 3
      /\ number \in Int /\ 0 <= number /\ number <= 11999
      /\ counter = 16384 * epoch + number
      /\ AbsSlots(counter) = 12000 * epoch + number
  BY CounterOfSlot
<1>2. Following(counter) = IF number < 11999 THEN counter + 1 ELSE NewCounter((epoch + 1) % 4, 0)
  BY DEF Following, Slots
<1> HIDE DEF epoch, number
<1>3. CASE number < 11999
  <2>1. Following(counter) = NewCounter(epoch, number + 1)
    BY <1>1, <1>2, <1>3 DEF NewCounter
  <2>2. number + 1 \in Int /\ 0 <= number + 1 /\ number + 1 <= 11999
    BY <1>1, <1>3
  <2>3. /\ IsCounter(Following(counter)) /\ IsSlot(Following(counter))
        /\ AbsSlots(Following(counter)) = 12000 * epoch + (number + 1)
    BY <1>1, <2>1, <2>2, SlotOfCounter
  <2> QED
    BY <1>1, <1>3, <2>3
<1>4. CASE number = 11999
  <2> DEFINE next == (epoch + 1) % 4
  <2>1. /\ next \in Int /\ 0 <= next /\ next <= 3
        /\ next = IF epoch = 3 THEN 0 ELSE epoch + 1
    BY <1>1
  <2>2. Following(counter) = NewCounter(next, 0)
    BY <1>2, <1>4
  <2> HIDE DEF next
  <2>3. /\ IsCounter(Following(counter)) /\ IsSlot(Following(counter))
        /\ AbsSlots(Following(counter)) = 12000 * next + 0
    BY <2>1, <2>2, SlotOfCounter
  <2> QED
    BY <1>1, <1>4, <2>1, <2>3
<1> QED
  BY <1>1, <1>3, <1>4

LEMMA SlotsBetween ==
  ASSUME NEW present, IsCounter(present), NEW past, IsCounter(past)
  PROVE  /\ IsSlot(present) /\ IsSlot(past) =>
              /\ SlotsSince(present, past) \in Nat
              /\ SlotsSince(present, past) =
                   IF AbsSlots(present) > AbsSlots(past) THEN AbsSlots(present) - AbsSlots(past)
                   ELSE 48000 - AbsSlots(past) + AbsSlots(present)
         /\ ~(IsSlot(present) /\ IsSlot(past)) => SlotsSince(present, past) = InvalidSlotNumber
<1>1. CASE IsSlot(present) /\ IsSlot(past)
  <2>1. /\ AbsSlots(present) \in Int /\ 0 <= AbsSlots(present) /\ AbsSlots(present) <= 47999
        /\ AbsSlots(past) \in Int /\ 0 <= AbsSlots(past) /\ AbsSlots(past) <= 47999
    BY <1>1, CounterOfSlot
  <2>2. SlotsSince(present, past) = Difference(present, past)
    BY <1>1 DEF SlotsSince, IsSlot
  <2> QED
    BY <1>1, <2>1, <2>2 DEF Difference, AllSlots, Slots
<1>2. CASE ~(IsSlot(present) /\ IsSlot(past))
  BY <1>2 DEF SlotsSince, IsSlot
<1> QED
  BY <1>1, <1>2

LEMMA SlotsAddUp ==
  ASSUME NEW present, IsCounter(present), NEW past, IsCounter(past), IsSlot(present), IsSlot(past)
  PROVE  /\ SlotsSince(Following(past), past) = 1
         /\ SlotsSince(past, past) = AllSlots
         /\ past # present =>
              /\ SlotsSince(Following(present), past) = SlotsSince(present, past) + 1
              /\ SlotsSince(present, past) + SlotsSince(past, present) = AllSlots
<1> DEFINE before == AbsSlots(past)
           after == AbsSlots(present)
           Gap(a, b) == IF a > b THEN a - b ELSE 48000 - b + a
<1>1. /\ before \in Int /\ 0 <= before /\ before <= 47999
      /\ after \in Int /\ 0 <= after /\ after <= 47999
      /\ before = after => past = present
  BY CounterOfSlot
<1>2. /\ IsCounter(Following(present)) /\ IsSlot(Following(present))
      /\ IsCounter(Following(past)) /\ IsSlot(Following(past))
  BY FollowingSlot
<1>3. /\ AbsSlots(Following(present)) = IF after = 47999 THEN 0 ELSE after + 1
      /\ AbsSlots(Following(past)) = IF before = 47999 THEN 0 ELSE before + 1
  BY FollowingSlot
<1>4. /\ SlotsSince(Following(past), past) = Gap(AbsSlots(Following(past)), before)
      /\ SlotsSince(past, past) = Gap(before, before)
      /\ SlotsSince(Following(present), past) = Gap(AbsSlots(Following(present)), before)
      /\ SlotsSince(present, past) = Gap(after, before)
      /\ SlotsSince(past, present) = Gap(before, after)
  BY <1>2, SlotsBetween
<1> HIDE DEF before, after
<1>5. AllSlots = 48000
  BY DEF AllSlots, Slots
<1> QED
  BY <1>1, <1>3, <1>4, <1>5

LEMMA CounterOfBytes ==
  ASSUME NEW high \in Octet, NEW low \in Octet
  PROVE  IsCounter(256 * high + low)
BY OctetIs DEF IsCounter

(***************************************************************************)
(* For every two slot counters, the slots between them are counted one by  *)
(* one (slot_counter.rs:52), over the gap between epochs and the wrap.     *)
(***************************************************************************)
THEOREM SlotsSinceCorrect == ConversionsSpec => []SlotsSinceAddUp
<1>1. ASSUME NEW present, IsCounter(present), NEW past, IsCounter(past)
      PROVE  /\ (SlotsSince(present, past) = InvalidSlotNumber) = ~(IsSlot(present) /\ IsSlot(past))
             /\ IsSlot(present) /\ IsSlot(past) =>
                  /\ SlotsSince(Following(past), past) = 1
                  /\ SlotsSince(past, past) = AllSlots
                  /\ past # present =>
                       /\ SlotsSince(Following(present), past) = SlotsSince(present, past) + 1
                       /\ SlotsSince(present, past) + SlotsSince(past, present) = AllSlots
  <2>1. (SlotsSince(present, past) = InvalidSlotNumber) = ~(IsSlot(present) /\ IsSlot(past))
    BY <1>1, SlotsBetween, ErrorsAreErrors
  <2>2. IsSlot(present) /\ IsSlot(past) =>
          /\ SlotsSince(Following(past), past) = 1
          /\ SlotsSince(past, past) = AllSlots
          /\ past # present =>
               /\ SlotsSince(Following(present), past) = SlotsSince(present, past) + 1
               /\ SlotsSince(present, past) + SlotsSince(past, present) = AllSlots
    BY <1>1, SlotsAddUp
  <2> QED
    BY <2>1, <2>2
<1>2. ASSUME buffer \in Seq(Byte), Len(buffer) = 2
      PROVE  \A counter \in Counters \cup {256 * buffer[1] + buffer[2]} : IsCounter(counter)
  <2>1. buffer[1] \in Octet /\ buffer[2] \in Octet
    <3>1. 1 \in 1..Len(buffer) /\ 2 \in 1..Len(buffer)
      BY <1>2
    <3> QED
      BY <1>2, <3>1, BytesAreOctets
  <2>2. IsCounter(256 * buffer[1] + buffer[2])
    BY <2>1, CounterOfBytes
  <2>3. \A counter \in Counters : IsCounter(counter)
    BY ConversionsConstants DEF IsCounter
  <2> QED
    BY <2>2, <2>3
<1>3. buffer \in Seq(Byte) => SlotsSinceAddUp
  BY <1>1, <1>2, Zenon DEF SlotsSinceAddUp
<1> QED
  BY <1>3, BufferIsOfBytes, PTL
-----------------------------------------------------------------------------
(***************************************************************************)
(* The status of a receive response.                                       *)
(***************************************************************************)
LEMMA BitIs ==
  ASSUME NEW n \in Nat, NEW m \in Nat \ {0}
  PROVE  Bit(n, m) \in {0, 1}
<1> DEFINE q == n \div m
<1>1. q \in Nat
  OBVIOUS
<1> HIDE DEF q
<1>2. q % 2 \in {0, 1}
  BY <1>1
<1> QED
  BY <1>2 DEF q, Bit

LEMMA TypeOfMask ==
  ASSUME NEW mask \in Masks
  PROVE  /\ IsKnownType(224 + mask)
         /\ \A i \in 1..5 : /\ Bit(mask, Flags[i]) \in {0, 1}
                            /\ Bit(224 + mask, Flags[i]) = Bit(mask, Flags[i])
<1>1. IsKnownType(224 + mask)
  BY DEF IsKnownType, Masks
<1>2. ASSUME NEW i \in 1..5
      PROVE  Flags[i] \in {1, 2, 4, 8, 16}
  BY DEF Flags
<1>3. \A m \in {1, 2, 4, 8, 16} : Bit(mask, m) \in {0, 1}
  <2>1. mask \in Nat
    BY DEF Masks
  <2>2. \A m \in Nat \ {0} : Bit(mask, m) \in {0, 1}
    BY <2>1, BitIs
  <2>3. \A m \in {1, 2, 4, 8, 16} : m \in Nat \ {0}
    OBVIOUS
  <2> QED
    BY <2>2, <2>3, Zenon
<1>4. (224 + mask) \div 1 = 224 + mask \div 1 /\ (224 + mask) \div 2 = 112 + mask \div 2
  BY DEF Masks
<1>5. (224 + mask) \div 4 = 56 + mask \div 4 /\ (224 + mask) \div 8 = 28 + mask \div 8
  BY DEF Masks
<1>6. (224 + mask) \div 16 = 14 + mask \div 16
  BY DEF Masks
<1>7. \A m \in {1, 2, 4, 8, 16} : Bit(224 + mask, m) = Bit(mask, m)
  <2>1. \A q \in Int : /\ (224 + q) % 2 = q % 2 /\ (112 + q) % 2 = q % 2 /\ (56 + q) % 2 = q % 2
                       /\ (28 + q) % 2 = q % 2 /\ (14 + q) % 2 = q % 2
    OBVIOUS
  <2>2. \A m \in {1, 2, 4, 8, 16} : mask \div m \in Int
    BY DEF Masks
  <2>3. Bit(224 + mask, 1) = Bit(mask, 1) /\ Bit(224 + mask, 2) = Bit(mask, 2)
    BY <1>4, <2>1, <2>2 DEF Bit
  <2>4. Bit(224 + mask, 4) = Bit(mask, 4) /\ Bit(224 + mask, 8) = Bit(mask, 8)
    BY <1>5, <2>1, <2>2 DEF Bit
  <2>5. Bit(224 + mask, 16) = Bit(mask, 16)
    BY <1>6, <2>1, <2>2 DEF Bit
  <2> QED
    BY <2>3, <2>4, <2>5
<1> QED
  BY <1>1, <1>2, <1>3, <1>7

LEMMA EndsAre ==
  ASSUME NEW type, \A i \in 1..6 : Widths(type)[i] \in Nat
  PROVE  /\ Ends(type)[0] = 0
         /\ \A i \in 1..6 : Ends(type)[i] = Ends(type)[i - 1] + Widths(type)[i]
<1> DEFINE width(i) == Widths(type)[i]
           Once(f) == [i \in 0..6 |-> IF i = 0 THEN 0 ELSE f[i - 1] + width(i)]
           next == [i \in 1..6 |-> [end \in Nat |-> end + width(i)]]
           ends == CHOOSE end : end = Once(end)
<1>1. next \in [1..6 -> [Nat -> Nat]]
  OBVIOUS
<1>2. PICK f : IsLoop(f, 6, Nat, 0, next)
  <2> HIDE DEF next
  <2> QED
    BY <1>1, LoopExists
<1>3. f \in [0..6 -> Nat] /\ f[0] = 0 /\ \A i \in 1..6 : f[i] = next[i][f[i - 1]]
  BY <1>2 DEF IsLoop
<1>4. \A i \in 1..6 : next[i][f[i - 1]] = f[i - 1] + width(i)
  BY <1>3
<1>5. f = Once(f)
  <2> HIDE DEF next, width
  <2> QED
    BY <1>3, <1>4
<1>6. ends = Once(ends)
  <2> HIDE DEF Once
  <2> QED
    BY <1>5
<1>7. Ends(type) = ends
  BY DEF Ends
<1>8. ends[0] = 0 /\ \A i \in 1..6 : ends[i] = ends[i - 1] + width(i)
  <2> HIDE DEF ends, width
  <2> QED
    BY <1>6
<1> QED
  BY <1>7, <1>8

LEMMA AnnouncedWidths ==
  ASSUME NEW mask \in Masks, NEW i \in 1..6
  PROVE  /\ Announced(mask)[i] \in Seq(Octet)
         /\ Widths(224 + mask)[i] \in Nat
         /\ Len(Announced(mask)[i]) = Widths(224 + mask)[i]
<1> DEFINE field == Fields[i]
           width == Widths(224 + mask)[i]
<1>1. field \in Seq(Octet) /\ Len(field) = IF i <= 2 THEN 1 ELSE 2
  BY FieldsAreStatus
<1>2. \A k \in 1..5 : /\ Bit(mask, Flags[k]) \in {0, 1}
                      /\ Bit(224 + mask, Flags[k]) = Bit(mask, Flags[k])
  BY TypeOfMask
<1>3. Tail(field) \in Seq(Octet) /\ Len(Tail(field)) = Len(field) - 1
  <2>1. field # <<>>
    BY <1>1
  <2> HIDE DEF field
  <2> QED
    BY <1>1, <2>1, HeadTailProperties
<1>4. Announced(mask)[i] = IF i = 6 THEN field
                           ELSE IF Bit(mask, Flags[i]) = 0 THEN field
                           ELSE IF i = 5 THEN Tail(field) ELSE <<>>
  BY DEF Announced
<1>5. i # 6 => width = IF i <= 2 THEN 1 - Bit(224 + mask, Flags[i])
                       ELSE IF i <= 4 THEN 2 - 2 * Bit(224 + mask, Flags[i])
                       ELSE 2 - Bit(224 + mask, Flags[i])
  BY DEF Widths, Flags
<1>6. i = 6 => width = 2
  BY DEF Widths
<1>7. <<>> \in Seq(Octet) /\ Len(<<>>) = 0
  OBVIOUS
<1> HIDE DEF field, width
<1>8. CASE i = 6
  BY <1>1, <1>4, <1>6, <1>8 DEF width
<1>9. CASE i # 6
  <2> DEFINE bit == Bit(mask, Flags[i])
  <2>1. bit \in {0, 1}
    BY <1>2, <1>9
  <2>2. width = IF i <= 2 THEN 1 - bit ELSE IF i <= 4 THEN 2 - 2 * bit ELSE 2 - bit
    BY <1>2, <1>5, <1>9
  <2>3. Announced(mask)[i] = IF bit = 0 THEN field ELSE IF i = 5 THEN Tail(field) ELSE <<>>
    BY <1>4, <1>9
  <2> HIDE DEF bit
  <2> DEFINE announced == Announced(mask)[i]
  <2> HIDE DEF announced
  <2>4. announced \in Seq(Octet) /\ width \in Nat /\ Len(announced) = width
    <3>1. CASE bit = 0
      BY <1>1, <2>2, <2>3, <3>1 DEF announced
    <3>2. CASE bit = 1
      <4>1. CASE i = 5
        BY <1>1, <1>3, <2>2, <2>3, <3>2, <4>1 DEF announced
      <4>2. CASE i # 5
        <5>1. announced = <<>> /\ width = 0
          BY <1>9, <2>2, <2>3, <3>2, <4>2 DEF announced
        <5> QED
          BY <1>7, <5>1
      <4> QED
        BY <4>1, <4>2
    <3> QED
      BY <2>1, <3>1, <3>2
  <2> QED
    BY <2>4 DEF announced, width
<1> QED
  BY <1>8, <1>9

(***************************************************************************)
(* What is read of bytes that begin with the status type of a mask.        *)
(***************************************************************************)
LEMMA ReadOfStatus ==
  ASSUME NEW mask \in Masks, NEW bytes \in Seq(Octet), Len(bytes) >= 2,
         bytes[1] = 0, bytes[2] = 224 + mask
  PROVE  LET type == 224 + mask
             rest == SubSeq(bytes, 3, Len(bytes))
         IN  ReadFromBytes(bytes) =
               IF Len(rest) < Ends(type)[6] THEN TooShort
               ELSE [fields |-> FieldsOf(type, rest),
                     packets |-> SubSeq(rest, Ends(type)[6] + 1, Len(rest))]
<1> DEFINE type == 224 + mask
<1>1. 256 * bytes[1] + bytes[2] = type /\ ~(Len(bytes) < 2)
  <2>1. type \in Nat
    BY DEF Masks
  <2> HIDE DEF type
  <2>2. bytes[2] = type
    BY DEF type
  <2> QED
    BY <2>1, <2>2
<1>2. IsKnownType(type)
  BY TypeOfMask
<1> HIDE DEF type
<1>3. ReadFromBytes(bytes) =
        IF Len(SubSeq(bytes, 3, Len(bytes))) < Ends(type)[6] THEN TooShort
        ELSE [fields |-> FieldsOf(type, SubSeq(bytes, 3, Len(bytes))),
              packets |-> SubSeq(SubSeq(bytes, 3, Len(bytes)), Ends(type)[6] + 1,
                                 Len(SubSeq(bytes, 3, Len(bytes))))]
  BY <1>1, <1>2, Zenon DEF ReadFromBytes, ExpectedLength
<1> QED
  BY <1>3 DEF type

LEMMA StatusParts ==
  ASSUME NEW mask \in Masks
  PROVE  \E parts : /\ FlattenSeq(Announced(mask)) = parts[6]
                    /\ AreParts(parts, Announced(mask), 6)
                    /\ \A i \in 1..6 : /\ parts[i] \in Seq(Octet) /\ Begins(parts[6], parts[i])
                                       /\ Len(parts[i]) = Ends(224 + mask)[i]
<1> DEFINE fields == Announced(mask)
           type == 224 + mask
<1>1. /\ \A i \in 1..6 : /\ fields[i] \in Seq(Octet)
                         /\ Widths(type)[i] \in Nat /\ Len(fields[i]) = Widths(type)[i]
  BY AnnouncedWidths
<1>2. Len(fields) = 6
  BY DEF Announced
<1> HIDE DEF fields, type
<1>3. PICK parts : FlattenSeq(fields) = parts[6] /\ AreParts(parts, fields, 6)
  <2> DEFINE n == 6
  <2>1. n \in Nat \ {0} /\ Len(fields) = n
    BY <1>2
  <2> HIDE DEF n
  <2>2. \E parts : FlattenSeq(fields) = parts[n] /\ AreParts(parts, fields, n)
    BY <2>1, FlattenSteps
  <2> QED
    BY <2>2 DEF n
<1>4. \A i \in 1..6 : parts[i] \in Seq(Octet) /\ Begins(parts[6], parts[i])
  <2> DEFINE n == 6
  <2>1. n \in Nat \ {0} /\ (\A i \in 1..n : fields[i] \in Seq(Octet)) /\ AreParts(parts, fields, n)
    BY <1>1, <1>3
  <2> HIDE DEF n
  <2>2. \A i \in 1..n : parts[i] \in Seq(Octet) /\ Begins(parts[n], parts[i])
    BY <2>1, PartsInPlace
  <2> QED
    BY <2>2 DEF n
<1>5. Ends(type)[0] = 0 /\ \A i \in 1..6 : Ends(type)[i] = Ends(type)[i - 1] + Widths(type)[i]
  BY <1>1, EndsAre
<1> DEFINE S == {k \in 1..6 : Len(parts[k]) = Ends(type)[k]}
<1>6. 1 \in S
  <2>1. parts[1] = fields[1]
    BY <1>3 DEF AreParts
  <2>2. Ends(type)[1] = Ends(type)[0] + Widths(type)[1]
    BY <1>5
  <2> QED
    BY <1>1, <1>5, <2>1, <2>2
<1>7. ASSUME NEW k \in S, k + 1 \in 1..6
      PROVE  k + 1 \in S
  <2>1. k + 1 \in 2..6 /\ (k + 1) - 1 = k /\ k \in 1..6 /\ Len(parts[k]) = Ends(type)[k]
    BY <1>7
  <2>2. parts[k + 1] = parts[k] \o fields[k + 1]
    BY <1>3, <2>1 DEF AreParts
  <2>3. Len(parts[k + 1]) = Len(parts[k]) + Len(fields[k + 1])
    <3>1. parts[k] \in Seq(Octet) /\ fields[k + 1] \in Seq(Octet)
      BY <1>1, <1>4, <1>7, <2>1
    <3> QED
      BY <2>2, <3>1, ConcatProperties
  <2>4. Ends(type)[k + 1] = Ends(type)[k] + Widths(type)[k + 1]
    BY <1>5, <1>7, <2>1
  <2> QED
    BY <1>1, <1>7, <2>1, <2>3, <2>4
<1>8. S = 1..6
  <2>1. S \in SUBSET (1..6)
    OBVIOUS
  <2> HIDE DEF S
  <2> QED
    BY <1>6, <1>7, <2>1, CountingUp
<1>9. \A i \in 1..6 : Len(parts[i]) = Ends(type)[i]
  BY <1>8
<1> QED
  BY <1>3, <1>4, <1>9 DEF fields, type

LEMMA StatusBegins ==
  ASSUME NEW mask \in Masks, NEW rest \in Seq(Octet)
  PROVE  LET start == <<0, 224 + mask>>
         IN  /\ start \in Seq(Octet) /\ Len(start) = 2
             /\ start[1] = 0 /\ start[2] = 224 + mask
             /\ start \o rest \in Seq(Octet) /\ Len(start \o rest) = Len(rest) + 2
             /\ (start \o rest)[1] = 0 /\ (start \o rest)[2] = 224 + mask
             /\ SubSeq(start \o rest, 3, Len(start \o rest)) = rest
<1> DEFINE low == 224 + mask
           start == <<0, low>>
           all == start \o rest
<1>1. 0 \in Octet /\ low \in Octet
  BY OctetIs DEF Masks
<1> HIDE DEF low
<1>2. start \in Seq(Octet) /\ Len(start) = 2 /\ start[1] = 0 /\ start[2] = low
  BY <1>1
<1> HIDE DEF start
<1>3. /\ all \in Seq(Octet) /\ Len(all) = 2 + Len(rest) /\ Len(rest) \in Nat
      /\ \A i \in 1..2 + Len(rest) : all[i] = IF i <= 2 THEN start[i] ELSE rest[i - 2]
  <2>1. Len(all) = Len(start) + Len(rest) /\ Len(rest) \in Nat /\ all \in Seq(Octet)
    BY <1>2, ConcatProperties, LenProperties
  <2>2. \A i \in 1..Len(start) + Len(rest) :
          all[i] = IF i <= Len(start) THEN start[i] ELSE rest[i - Len(start)]
    BY <1>2, ConcatProperties
  <2> QED
    BY <1>2, <2>1, <2>2
<1>4. all[1] = 0 /\ all[2] = low
  BY <1>2, <1>3
<1>5. SubSeq(all, 3, Len(all)) = rest
  <2>1. Begins(all, start \o rest)
    BY <1>3 DEF Begins
  <2> HIDE DEF all
  <2>2. SubSeq(all, Len(start) + 1, Len(start \o rest)) = rest
    BY <1>2, <1>3, <2>1, FoundInPlace
  <2> QED
    BY <1>2, <2>2 DEF all
<1> QED
  BY <1>2, <1>3, <1>4, <1>5 DEF start, low

(***************************************************************************)
(* For every status and whatever follows it: the fields that are there are *)
(* found where they are, and a status that is cut off is refused           *)
(* (transport.rs:105).                                                     *)
(***************************************************************************)
THEOREM StatusCorrect == ConversionsSpec => []StatusIsReadBack
<1>1. ASSUME NEW packets \in Seq(Octet), NEW mask \in Masks
      PROVE  LET status == <<0, 224 + mask>> \o FlattenSeq(Announced(mask))
             IN  /\ ReadFromBytes(status \o packets) = [fields |-> Announced(mask), packets |-> packets]
                 /\ \A n \in 0..(Len(status) - 1) : ReadFromBytes(SubSeq(status, 1, n)) = TooShort
  <2> DEFINE type == 224 + mask
             start == <<0, type>>
             fields == Announced(mask)
  <2>1. PICK parts : /\ FlattenSeq(fields) = parts[6] /\ AreParts(parts, fields, 6)
                     /\ \A i \in 1..6 : /\ parts[i] \in Seq(Octet) /\ Begins(parts[6], parts[i])
                                        /\ Len(parts[i]) = Ends(type)[i]
    BY StatusParts
  <2> DEFINE body == parts[6]
             status == start \o body
             rest == body \o packets
             bytes == status \o packets
  <2>2. body \in Seq(Octet) /\ Len(body) = Ends(type)[6]
    BY <2>1
  <2>3. rest \in Seq(Octet) /\ Begins(rest, body)
    BY <2>2, BeginsAppended DEF Begins
  <2>4. /\ \A i \in 1..6 : fields[i] \in Seq(Octet) /\ Widths(type)[i] \in Nat
        /\ fields = [i \in 1..6 |-> fields[i]]
    BY AnnouncedWidths DEF Announced
  <2>5. Ends(type)[0] = 0 /\ \A i \in 1..6 : Ends(type)[i] = Ends(type)[i - 1] + Widths(type)[i]
    BY <2>4, EndsAre
  <2>6. /\ start \in Seq(Octet) /\ Len(start) = 2
        /\ \A r \in Seq(Octet) : /\ start \o r \in Seq(Octet) /\ Len(start \o r) = Len(r) + 2
                                 /\ (start \o r)[1] = 0 /\ (start \o r)[2] = type
                                 /\ SubSeq(start \o r, 3, Len(start \o r)) = r
    BY StatusBegins
  <2>7. \A b \in Seq(Octet) :
          Len(b) >= 2 /\ b[1] = 0 /\ b[2] = type =>
            ReadFromBytes(b) =
              LET r == SubSeq(b, 3, Len(b))
              IN  IF Len(r) < Ends(type)[6] THEN TooShort
                  ELSE [fields |-> FieldsOf(type, r), packets |-> SubSeq(r, Ends(type)[6] + 1, Len(r))]
    BY ReadOfStatus
  <2> HIDE DEF type, start, fields
  <2>8. \A i \in 1..6 : SubSeq(rest, Ends(type)[i - 1] + 1, Ends(type)[i]) = fields[i]
    <3> HIDE DEF body, rest
    <3>1. ASSUME NEW i \in 1..6
          PROVE  SubSeq(rest, Ends(type)[i - 1] + 1, Ends(type)[i]) = fields[i]
      <4>1. parts[i] \in Seq(Octet) /\ Begins(rest, parts[i]) /\ Len(parts[i]) = Ends(type)[i]
        <5>1. parts[i] \in Seq(Octet) /\ Begins(body, parts[i]) /\ Len(parts[i]) = Ends(type)[i]
          BY <2>1 DEF body
        <5> QED
          BY <2>2, <2>3, <5>1, BeginsTransitive
      <4>2. CASE i = 1
        <5>1. parts[1] = fields[1]
          BY <2>1 DEF AreParts
        <5> DEFINE none == <<>>
                   field == fields[1]
        <5>2. none \in Seq(Octet) /\ Len(none) = 0 /\ field \in Seq(Octet)
          BY <2>4
        <5> HIDE DEF none, field
        <5>3. none \o field = field
          BY <5>2, ConcatEmptySeq DEF none
        <5>4. Begins(rest, none \o field)
          BY <4>1, <4>2, <5>1, <5>3 DEF field
        <5>5. SubSeq(rest, Len(none) + 1, Len(none \o field)) = field
          BY <2>3, <5>2, <5>4, FoundInPlace
        <5> QED
          BY <2>5, <4>1, <4>2, <5>1, <5>2, <5>3, <5>5 DEF field
      <4>3. CASE i # 1
        <5>1. i \in 2..6 /\ i - 1 \in 1..6
          BY <4>3
        <5>2. parts[i] = parts[i - 1] \o fields[i]
          BY <2>1, <5>1 DEF AreParts
        <5>3. parts[i - 1] \in Seq(Octet) /\ Len(parts[i - 1]) = Ends(type)[i - 1] /\ fields[i] \in Seq(Octet)
          BY <2>1, <2>4, <5>1
        <5>4. SubSeq(rest, Len(parts[i - 1]) + 1, Len(parts[i - 1] \o fields[i])) = fields[i]
          BY <2>3, <4>1, <5>2, <5>3, FoundInPlace
        <5> QED
          BY <4>1, <5>2, <5>3, <5>4
      <4> QED
        BY <4>2, <4>3
    <3> QED
      BY <3>1
  <2>9. FieldsOf(type, rest) = fields
    <3> HIDE DEF rest
    <3> QED
      BY <2>4, <2>8 DEF FieldsOf
  <2>10. SubSeq(rest, Ends(type)[6] + 1, Len(rest)) = packets
    <3> HIDE DEF body
    <3>1. Begins(rest, body \o packets)
      BY DEF Begins
    <3>2. SubSeq(rest, Len(body) + 1, Len(body \o packets)) = packets
      <4> HIDE DEF rest
      <4> QED
        BY <2>2, <2>3, <3>1, FoundInPlace
    <3> QED
      BY <2>2, <3>2
  <2>11. bytes = start \o rest
    <3>1. start \in Seq(Octet)
      BY <2>6
    <3> HIDE DEF body
    <3>2. start \in Seq(Octet) /\ body \in Seq(Octet) /\ packets \in Seq(Octet)
      BY <2>2, <3>1
    <3> HIDE DEF start
    <3>3. (start \o body) \o packets = start \o (body \o packets)
      BY <3>2, ConcatAssociative
    <3> QED
      BY <2>2, <3>3 DEF start
  <2>12. ReadFromBytes(bytes) = [fields |-> fields, packets |-> packets]
    <3>1. /\ bytes \in Seq(Octet) /\ Len(bytes) = Len(rest) + 2
          /\ bytes[1] = 0 /\ bytes[2] = type /\ SubSeq(bytes, 3, Len(bytes)) = rest
      <4> HIDE DEF bytes, rest
      <4> QED
        BY <2>3, <2>6, <2>11
    <3>2. ~(Len(rest) < Ends(type)[6]) /\ Len(rest) \in Nat
      BY <2>2, <2>3, LenProperties DEF Begins
    <3> HIDE DEF bytes, rest
    <3>3. Len(bytes) >= 2
      BY <3>1, <3>2
    <3> QED
      BY <2>7, <2>9, <2>10, <3>1, <3>2, <3>3
  <2>13. ASSUME NEW n \in 0..(Len(status) - 1)
         PROVE  ReadFromBytes(SubSeq(status, 1, n)) = TooShort
    <3> HIDE DEF body
    <3>1. /\ status \in Seq(Octet) /\ Len(status) = Len(body) + 2 /\ Len(body) \in Nat
          /\ status[1] = 0 /\ status[2] = type
      BY <2>2, <2>6, LenProperties
    <3> HIDE DEF status
    <3> DEFINE cut == SubSeq(status, 1, n)
    <3>2. /\ n \in Nat /\ n < Len(status)
          /\ cut \in Seq(Octet) /\ Len(cut) = n
          /\ \A i \in 1..n : cut[i] = status[i]
      <4>1. n \in Int /\ 1 \in Int /\ \A i \in 1..n : status[i] \in Octet
        BY <3>1, ElementOf
      <4>2. /\ cut \in Seq(Octet) /\ Len(cut) = IF 1 <= n THEN n - 1 + 1 ELSE 0
            /\ \A i \in 1..n - 1 + 1 : cut[i] = status[1 + i - 1]
        BY <4>1, SubSeqProperties
      <4> QED
        BY <3>1, <4>2
    <3> HIDE DEF cut
    <3>3. CASE n < 2
      BY <3>2, <3>3 DEF ReadFromBytes, cut
    <3>4. CASE n >= 2
      <4>1. Len(cut) >= 2 /\ cut[1] = 0 /\ cut[2] = type
        BY <3>1, <3>2, <3>4
      <4>2. Len(SubSeq(cut, 3, Len(cut))) = n - 2
        <5>1. \A i \in 3..n : cut[i] \in Octet
          BY <3>2, ElementOf
        <5> QED
          BY <3>2, <3>4, <5>1, SubSeqProperties
      <4>3. Len(SubSeq(cut, 3, Len(cut))) < Ends(type)[6]
        BY <2>2, <3>1, <3>2, <4>2
      <4> QED
        BY <2>7, <3>2, <4>1, <4>3 DEF cut
    <3> QED
      BY <3>2, <3>3, <3>4
  <2> HIDE DEF body
  <2>14. FlattenSeq(fields) = body
    BY <2>1 DEF body
  <2> QED
    BY <2>12, <2>13, <2>14 DEF type, start, fields
<1>2. buffer \in Seq(Byte) => StatusIsReadBack
  <2>1. buffer \in Seq(Byte) => buffer \in Seq(Octet)
    BY BytesAreOctets
  <2> QED
    BY <1>1, <2>1, Zenon DEF StatusIsReadBack
<1> QED
  BY <1>2, BufferIsOfBytes, PTL
-----------------------------------------------------------------------------
(***************************************************************************)
(* The packets of a receive response.                                      *)
(***************************************************************************)
AreWhole(given) ==
  /\ given \in Seq(Seq(Octet))
  /\ \A i \in 1..Len(given) : Len(given[i]) = HeaderSize + given[i][HeaderSize]

PacketStates == [given : Seq(Seq(Octet) \cup {PacketTooShortError}), left : Seq(Octet)]

\* The iterator goes on after n calls, or it has given the error.
GoesOn(bytes, n, p) ==
  /\ AreWhole(p.given)
  /\ bytes = FlattenSeq(p.given) \o p.left
  /\ p.left = <<>> \/ Len(p.left) + n <= Len(bytes)

IsCutOff(bytes, given, w, r) ==
  /\ AreWhole(w) /\ r \in Seq(Octet)
  /\ given = Append(w, PacketTooShortError)
  /\ bytes = FlattenSeq(w) \o r
  /\ r # <<>> /\ ~IsWhole(r)

HasFailed(bytes, p) == p.left = <<>> /\ \E w, r : IsCutOff(bytes, p.given, w, r)

LEMMA WholePacket ==
  ASSUME NEW bytes \in Seq(Octet), IsWhole(bytes)
  PROVE  LET end == HeaderSize + DataLength(bytes)
             packet == SubSeq(bytes, 1, end)
             left == SubSeq(bytes, end + 1, Len(bytes))
         IN  /\ end \in Nat \ {0}
             /\ packet \in Seq(Octet) /\ Len(packet) = HeaderSize + packet[HeaderSize]
             /\ left \in Seq(Octet) /\ Len(left) = Len(bytes) - end
             /\ bytes = packet \o left
<1> DEFINE end == HeaderSize + DataLength(bytes)
           packet == SubSeq(bytes, 1, end)
           left == SubSeq(bytes, end + 1, Len(bytes))
<1>1. HeaderSize \in Nat /\ HeaderSize >= 1 /\ Len(bytes) \in Nat /\ HeaderSize <= Len(bytes)
  BY PacketConstants DEF IsWhole
<1>2. DataLength(bytes) \in Nat
  <2>1. HeaderSize \in 1..Len(bytes)
    BY <1>1
  <2>2. bytes[HeaderSize] \in Octet
    BY <2>1, ElementOf
  <2> QED
    BY <2>2, OctetIs DEF DataLength
<1>3. end \in Nat /\ HeaderSize <= end /\ end <= Len(bytes)
  BY <1>1, <1>2 DEF IsWhole
<1>4. DataLength(bytes) = bytes[HeaderSize] /\ end = HeaderSize + bytes[HeaderSize]
  BY DEF DataLength
<1>5. \A i \in 1..Len(bytes) : bytes[i] \in Octet
  BY ElementOf
<1> HIDE DEF end
<1>6. /\ packet \in Seq(Octet) /\ Len(packet) = end
      /\ \A i \in 1..end : packet[i] = bytes[i]
  <2>1. /\ packet \in Seq(Octet) /\ Len(packet) = IF 1 <= end THEN end - 1 + 1 ELSE 0
        /\ \A i \in 1..end - 1 + 1 : packet[i] = bytes[1 + i - 1]
    <3>1. 1 \in Int /\ end \in Int /\ \A i \in 1..end : bytes[i] \in Octet
      BY <1>1, <1>3, <1>5
    <3> QED
      BY <3>1, SubSeqProperties
  <2> QED
    BY <1>1, <1>3, <2>1
<1>7. left \in Seq(Octet) /\ Len(left) = Len(bytes) - end
  <2>1. end + 1 \in Int /\ Len(bytes) \in Int /\ \A i \in end + 1..Len(bytes) : bytes[i] \in Octet
    BY <1>1, <1>3, <1>5
  <2>2. left \in Seq(Octet) /\ Len(left) = IF end + 1 <= Len(bytes) THEN Len(bytes) - (end + 1) + 1 ELSE 0
    BY <2>1, SubSeqProperties
  <2> QED
    BY <1>1, <1>3, <2>2
<1>8. bytes = packet \o left
  <2>1. 1 \in 1..Len(bytes) + 1 /\ end \in 1 - 1..Len(bytes) /\ Len(bytes) \in end..Len(bytes)
    BY <1>1, <1>3
  <2>2. packet \o left = SubSeq(bytes, 1, Len(bytes))
    BY <2>1, ConcatAdjacentSubSeq
  <2> QED
    BY <2>2, SubSeqFull
<1>9. packet[HeaderSize] = bytes[HeaderSize]
  BY <1>1, <1>3, <1>6
<1> HIDE DEF packet, left
<1>10. end \in Nat \ {0}
  BY <1>1, <1>3
<1>11. Len(packet) = HeaderSize + packet[HeaderSize]
  BY <1>4, <1>6, <1>9
<1> QED
  BY <1>6, <1>7, <1>8, <1>10, <1>11 DEF end, packet, left

LEMMA NextPacketStays ==
  ASSUME NEW p \in PacketStates
  PROVE  NextPacket(p) \in PacketStates
<1> DEFINE Items == Seq(Octet) \cup {PacketTooShortError}
<1>1. p.given \in Seq(Items) /\ p.left \in Seq(Octet)
  BY DEF PacketStates
<1>2. \A item \in Items : Append(p.given, item) \in Seq(Items)
  <2> HIDE DEF Items
  <2> QED
    BY <1>1, AppendProperties
<1>3. CASE p.left = <<>>
  BY <1>3 DEF NextPacket
<1>4. CASE p.left # <<>> /\ ~IsWhole(p.left)
  <2>1. NextPacket(p) = [given |-> Append(p.given, PacketTooShortError), left |-> <<>>]
    BY <1>4 DEF NextPacket
  <2>2. Append(p.given, PacketTooShortError) \in Seq(Items) /\ <<>> \in Seq(Octet)
    BY <1>2
  <2> QED
    BY <2>1, <2>2 DEF PacketStates
<1>5. CASE p.left # <<>> /\ IsWhole(p.left)
  <2> DEFINE end == HeaderSize + DataLength(p.left)
             packet == SubSeq(p.left, 1, end)
             left == SubSeq(p.left, end + 1, Len(p.left))
  <2>1. NextPacket(p) = [given |-> Append(p.given, packet), left |-> left]
    BY <1>5 DEF NextPacket
  <2>2. packet \in Seq(Octet) /\ left \in Seq(Octet)
    BY <1>1, <1>5, WholePacket
  <2> HIDE DEF packet, left
  <2>3. Append(p.given, packet) \in Seq(Items)
    BY <1>2, <2>2
  <2> QED
    BY <2>1, <2>2, <2>3 DEF PacketStates
<1> QED
  BY <1>3, <1>4, <1>5

LEMMA PacketsLoop ==
  ASSUME NEW bytes \in Seq(Octet)
  PROVE  \E after : /\ Packets(bytes) = after[Len(bytes)].given
                    /\ after[0] = [given |-> <<>>, left |-> bytes]
                    /\ \A n \in 1..Len(bytes) : after[n] = NextPacket(after[n - 1])
<1> DEFINE first == [given |-> <<>>, left |-> bytes]
           Turns(f) == [n \in 0..Len(bytes) |-> IF n = 0 THEN first ELSE NextPacket(f[n - 1])]
           next == [n \in 1..Len(bytes) |-> [p \in PacketStates |-> NextPacket(p)]]
           after == CHOOSE f : f = Turns(f)
<1>1. first \in PacketStates
  BY DEF PacketStates
<1>2. next \in [1..Len(bytes) -> [PacketStates -> PacketStates]]
  BY NextPacketStays
<1>3. Len(bytes) \in Nat
  OBVIOUS
<1>4. PICK f : IsLoop(f, Len(bytes), PacketStates, first, next)
  <2> HIDE DEF first, next
  <2> QED
    BY <1>1, <1>2, <1>3, LoopExists
<1>5. /\ f \in [0..Len(bytes) -> PacketStates] /\ f[0] = first
      /\ \A n \in 1..Len(bytes) : f[n] = next[n][f[n - 1]]
  BY <1>4 DEF IsLoop
<1>6. \A n \in 1..Len(bytes) : f[n] = NextPacket(f[n - 1])
  BY <1>3, <1>5
<1>7. f = Turns(f)
  <2> HIDE DEF first, next
  <2> QED
    BY <1>3, <1>5, <1>6
<1>8. after = Turns(after)
  <2> HIDE DEF Turns
  <2> QED
    BY <1>7
<1>9. Packets(bytes) = after[Len(bytes)].given
  BY DEF Packets
<1>10. after[0] = first /\ \A n \in 1..Len(bytes) : after[n] = NextPacket(after[n - 1])
  <2> HIDE DEF after, first
  <2> QED
    BY <1>3, <1>8
<1> QED
  BY <1>9, <1>10

(***************************************************************************)
(* Each call takes a whole packet off what is left, or ends it.            *)
(***************************************************************************)
LEMMA NextPacketGoesOn ==
  ASSUME NEW bytes \in Seq(Octet), NEW n \in Nat, NEW p \in PacketStates,
         GoesOn(bytes, n, p) \/ HasFailed(bytes, p)
  PROVE  GoesOn(bytes, n + 1, NextPacket(p)) \/ HasFailed(bytes, NextPacket(p))
<1>1. p.left \in Seq(Octet) /\ Len(bytes) \in Nat
  BY DEF PacketStates
<1>2. CASE p.left = <<>>
  <2>1. NextPacket(p) = p
    BY <1>2 DEF NextPacket
  <2>2. GoesOn(bytes, n, p) => GoesOn(bytes, n + 1, p)
    BY <1>2 DEF GoesOn
  <2> QED
    BY <2>1, <2>2
<1>3. CASE p.left # <<>> /\ ~IsWhole(p.left)
  <2>1. NextPacket(p) = [given |-> Append(p.given, PacketTooShortError), left |-> <<>>]
    BY <1>3 DEF NextPacket
  <2>2. GoesOn(bytes, n, p)
    BY <1>3 DEF HasFailed
  <2>3. IsCutOff(bytes, NextPacket(p).given, p.given, p.left)
    BY <1>1, <1>3, <2>1, <2>2 DEF GoesOn, IsCutOff
  <2>4. HasFailed(bytes, NextPacket(p))
    BY <2>1, <2>3 DEF HasFailed
  <2> QED
    BY <2>4
<1>4. CASE p.left # <<>> /\ IsWhole(p.left)
  <2> DEFINE end == HeaderSize + DataLength(p.left)
             packet == SubSeq(p.left, 1, end)
             left == SubSeq(p.left, end + 1, Len(p.left))
             given == Append(p.given, packet)
  <2>1. NextPacket(p) = [given |-> given, left |-> left]
    BY <1>4 DEF NextPacket
  <2>2. /\ AreWhole(p.given) /\ bytes = FlattenSeq(p.given) \o p.left
        /\ Len(p.left) + n <= Len(bytes)
    BY <1>4 DEF GoesOn, HasFailed
  <2>3. /\ end \in Nat \ {0}
        /\ packet \in Seq(Octet) /\ Len(packet) = HeaderSize + packet[HeaderSize]
        /\ left \in Seq(Octet) /\ Len(left) = Len(p.left) - end
        /\ p.left = packet \o left
    BY <1>1, <1>4, WholePacket
  <2> HIDE DEF end, packet, left
  <2>4. p.given \in Seq(Seq(Octet))
    BY <2>2 DEF AreWhole
  <2>5. AreWhole(given)
    <3>1. /\ given \in Seq(Seq(Octet)) /\ Len(given) = Len(p.given) + 1
          /\ given[Len(p.given) + 1] = packet
          /\ \A i \in 1..Len(p.given) : given[i] = p.given[i]
      <4> DEFINE V == Seq(Octet)
      <4>1. p.given \in Seq(V) /\ packet \in V
        BY <2>3, <2>4
      <4> HIDE DEF V
      <4>2. /\ given \in Seq(V) /\ Len(given) = Len(p.given) + 1
            /\ given[Len(p.given) + 1] = packet
            /\ \A i \in 1..Len(p.given) : given[i] = p.given[i]
        BY <4>1, AppendProperties
      <4> QED
        BY <4>2 DEF V
    <3>2. Len(p.given) \in Nat
      BY <2>4
    <3>3. \A i \in 1..Len(p.given) + 1 : i = Len(p.given) + 1 \/ i \in 1..Len(p.given)
      BY <3>2
    <3>4. \A i \in 1..Len(p.given) : Len(p.given[i]) = HeaderSize + p.given[i][HeaderSize]
      BY <2>2 DEF AreWhole
    <3> HIDE DEF given
    <3>5. ASSUME NEW i \in 1..Len(given)
          PROVE  Len(given[i]) = HeaderSize + given[i][HeaderSize]
      <4>1. CASE i = Len(p.given) + 1
        BY <2>3, <3>1, <4>1
      <4>2. CASE i \in 1..Len(p.given)
        BY <3>1, <3>4, <4>2
      <4> QED
        BY <3>1, <3>3, <4>1, <4>2
    <3> QED
      BY <3>1, <3>5 DEF AreWhole
  <2>6. bytes = FlattenSeq(given) \o left
    <3>1. FlattenSeq(p.given) \in Seq(Octet) /\ FlattenSeq(given) = FlattenSeq(p.given) \o packet
      BY <2>3, <2>4, FlattenAppend
    <3> DEFINE before == FlattenSeq(p.given)
    <3> HIDE DEF given, before
    <3>2. before \o (packet \o left) = (before \o packet) \o left
      <4>1. before \in Seq(Octet) /\ packet \in Seq(Octet) /\ left \in Seq(Octet)
        BY <2>3, <3>1 DEF before
      <4>2. (before \o packet) \o left = before \o (packet \o left)
        BY <4>1, ConcatAssociative
      <4> QED
        BY <4>2
    <3> QED
      BY <2>2, <2>3, <3>1, <3>2 DEF before
  <2>7. Len(left) + (n + 1) <= Len(bytes)
    <3>1. Len(p.left) \in Nat
      BY <1>1
    <3> QED
      BY <1>1, <2>2, <2>3, <3>1
  <2> HIDE DEF given
  <2>8. GoesOn(bytes, n + 1, NextPacket(p))
    BY <2>1, <2>5, <2>6, <2>7 DEF GoesOn
  <2> QED
    BY <2>8
<1> QED
  BY <1>2, <1>3, <1>4

LEMMA PacketsAreThere ==
  ASSUME NEW bytes \in Seq(Octet)
  PROVE  \/ AreWhole(Packets(bytes)) /\ bytes = FlattenSeq(Packets(bytes))
         \/ \E w, r : IsCutOff(bytes, Packets(bytes), w, r)
<1> DEFINE size == Len(bytes)
           Good(n, p) == p \in PacketStates /\ (GoesOn(bytes, n, p) \/ HasFailed(bytes, p))
           U == [n \in 0..size |-> {p \in PacketStates : Good(n, p)}]
<1>1. PICK after : /\ Packets(bytes) = after[size].given
                   /\ after[0] = [given |-> <<>>, left |-> bytes]
                   /\ \A n \in 1..size : after[n] = NextPacket(after[n - 1])
  BY PacketsLoop
<1>2. size \in Nat
  OBVIOUS
<1>3. after[0] \in U[0]
  <2>1. after[0] \in PacketStates
    BY <1>1 DEF PacketStates
  <2>2. FlattenSeq(<<>>) = <<>> /\ <<>> \o bytes = bytes
    BY FlattenNone, ConcatEmptySeq
  <2>3. AreWhole(<<>>)
    BY DEF AreWhole
  <2>4. Len(bytes) + 0 <= Len(bytes)
    BY <1>2
  <2>5. GoesOn(bytes, 0, after[0])
    BY <1>1, <2>2, <2>3, <2>4 DEF GoesOn
  <2> QED
    BY <1>2, <2>1, <2>5
<1>4. ASSUME NEW n \in 1..size, after[n - 1] \in U[n - 1]
      PROVE  after[n] \in U[n]
  <2>1. n - 1 \in Nat /\ n - 1 \in 0..size /\ n \in 0..size /\ (n - 1) + 1 = n
    BY <1>2
  <2>2. Good(n - 1, after[n - 1])
    BY <1>4, <2>1
  <2>3. after[n] = NextPacket(after[n - 1])
    BY <1>1
  <2>4. NextPacket(after[n - 1]) \in PacketStates
    BY <2>2, NextPacketStays
  <2>5. GoesOn(bytes, n, NextPacket(after[n - 1])) \/ HasFailed(bytes, NextPacket(after[n - 1]))
    <3> DEFINE m == n - 1
    <3>1. m \in Nat /\ m + 1 = n
      BY <2>1
    <3> HIDE DEF m
    <3>2. GoesOn(bytes, m + 1, NextPacket(after[m])) \/ HasFailed(bytes, NextPacket(after[m]))
      BY <2>2, <3>1, NextPacketGoesOn DEF m
    <3> QED
      BY <3>1, <3>2 DEF m
  <2>6. Good(n, after[n])
    BY <2>3, <2>4, <2>5
  <2> QED
    BY <2>1, <2>6
<1>5. \A n \in 0..size : after[n] \in U[n]
  <2> HIDE DEF U, size
  <2> QED
    BY <1>2, <1>3, <1>4, LoopStays
<1>6. Good(size, after[size])
  BY <1>2, <1>5
<1> DEFINE p == after[size]
<1>7. p.left \in Seq(Octet)
  BY <1>6 DEF PacketStates
<1>8. CASE GoesOn(bytes, size, p)
  <2>1. p.left = <<>>
    <3>1. p.left = <<>> \/ Len(p.left) + size <= size
      BY <1>8 DEF GoesOn
    <3>2. Len(p.left) \in Nat
      BY <1>7
    <3> QED
      BY <1>2, <1>7, <3>1, <3>2
  <2>2. AreWhole(p.given) /\ bytes = FlattenSeq(p.given) \o <<>>
    BY <1>8, <2>1 DEF GoesOn
  <2>3. FlattenSeq(p.given) \in Seq(Octet)
    <3>1. p.given \in Seq(Seq(Octet)) /\ <<>> \in Seq(Octet)
      BY <2>2 DEF AreWhole
    <3> QED
      BY <3>1, FlattenAppend
  <2> HIDE DEF p
  <2>4. bytes = FlattenSeq(p.given)
    BY <2>2, <2>3, ConcatEmptySeq
  <2> QED
    BY <1>1, <2>2, <2>4 DEF p
<1>9. CASE HasFailed(bytes, p)
  BY <1>1, <1>9 DEF HasFailed
<1> QED
  BY <1>6, <1>8, <1>9

LEMMA NoPacketIsError ==
  ASSUME NEW given, AreWhole(given)
  PROVE  \A i \in 1..Len(given) : given[i] # PacketTooShortError
<1>1. \A i \in 1..Len(given) : given[i] \in Seq(Octet)
  BY DEF AreWhole
<1> QED
  BY <1>1, ErrorsAreErrors

(***************************************************************************)
(* For every receive response, whatever its packets say of their lengths,  *)
(* the iterator gives all of it (network.rs:157).                          *)
(***************************************************************************)
THEOREM PacketsCorrect == ConversionsSpec => []PacketsAreAllThereIs
<1> DEFINE Complete(bytes, packets) ==
             LET isCutOff == packets # <<>> /\ Last(packets) = PacketTooShortError
                 whole == IF isCutOff THEN Front(packets) ELSE packets
                 taken == FlattenSeq(whole)
                 left == SubSeq(bytes, Len(taken) + 1, Len(bytes))
             IN  /\ \A i \in 1..Len(whole) :
                      whole[i] # PacketTooShortError /\ Len(whole[i]) = HeaderSize + whole[i][HeaderSize]
                 /\ bytes = taken \o left
                 /\ isCutOff <=> left # <<>>
                 /\ Len(left) >= HeaderSize => Len(left) < HeaderSize + left[HeaderSize]
<1>1. ASSUME NEW bytes \in Seq(Octet), NEW w, AreWhole(w), NEW r \in Seq(Octet),
             bytes = FlattenSeq(w) \o r
      PROVE  /\ \A i \in 1..Len(w) :
                  w[i] # PacketTooShortError /\ Len(w[i]) = HeaderSize + w[i][HeaderSize]
             /\ SubSeq(bytes, Len(FlattenSeq(w)) + 1, Len(bytes)) = r
  <2>1. FlattenSeq(w) \in Seq(Octet)
    <3>1. w \in Seq(Seq(Octet)) /\ <<>> \in Seq(Octet)
      BY <1>1 DEF AreWhole
    <3> QED
      BY <3>1, FlattenAppend
  <2>2. Begins(bytes, FlattenSeq(w) \o r)
    BY <1>1 DEF Begins
  <2> QED
    BY <1>1, <2>1, <2>2, FoundInPlace, NoPacketIsError DEF AreWhole
<1>2. ASSUME NEW bytes \in Seq(Octet)
      PROVE  Complete(bytes, Packets(bytes))
  <2> DEFINE packets == Packets(bytes)
             isCutOff == packets # <<>> /\ Last(packets) = PacketTooShortError
  <2>1. CASE AreWhole(packets) /\ bytes = FlattenSeq(packets)
    <3> DEFINE none == <<>>
    <3>1. none \in Seq(Octet) /\ bytes = FlattenSeq(packets) \o none
      BY <2>1, ConcatEmptySeq
    <3>2. ~isCutOff
      <4>1. packets \in Seq(Seq(Octet))
        BY <2>1 DEF AreWhole
      <4>2. packets # <<>> => Len(packets) \in 1..Len(packets)
        BY <4>1
      <4> QED
        BY <2>1, <4>2, NoPacketIsError DEF Last
    <3> HIDE DEF packets
    <3>3. /\ \A i \in 1..Len(packets) : /\ packets[i] # PacketTooShortError
                                        /\ Len(packets[i]) = HeaderSize + packets[i][HeaderSize]
          /\ SubSeq(bytes, Len(FlattenSeq(packets)) + 1, Len(bytes)) = none
      <4> HIDE DEF none
      <4> QED
        BY <1>1, <2>1, <3>1
    <3>4. Len(none) = 0 /\ ~(Len(none) >= HeaderSize)
      BY PacketConstants
    <3> QED
      BY <3>1, <3>2, <3>3, <3>4 DEF packets
  <2>2. CASE \E w, r : IsCutOff(bytes, packets, w, r)
    <3>1. PICK w, r : IsCutOff(bytes, packets, w, r)
      BY <2>2
    <3>2. /\ AreWhole(w) /\ r \in Seq(Octet) /\ packets = Append(w, PacketTooShortError)
          /\ bytes = FlattenSeq(w) \o r /\ r # <<>> /\ ~IsWhole(r)
      BY <3>1 DEF IsCutOff
    <3>3. packets # <<>> /\ Last(packets) = PacketTooShortError /\ Front(packets) = w
      <4>1. w \in Seq(Seq(Octet))
        BY <3>2 DEF AreWhole
      <4> HIDE DEF packets
      <4> QED
        BY <3>2, <4>1, WithoutLast
    <3> HIDE DEF packets
    <3>4. /\ \A i \in 1..Len(w) :
               w[i] # PacketTooShortError /\ Len(w[i]) = HeaderSize + w[i][HeaderSize]
          /\ SubSeq(bytes, Len(FlattenSeq(w)) + 1, Len(bytes)) = r
      BY <1>1, <3>2
    <3>5. Len(r) >= HeaderSize => Len(r) < HeaderSize + r[HeaderSize]
      <4> SUFFICES ASSUME Len(r) >= HeaderSize PROVE Len(r) < HeaderSize + r[HeaderSize]
        OBVIOUS
      <4>1. ~(Len(r) - HeaderSize >= r[HeaderSize])
        BY <3>2 DEF IsWhole, DataLength
      <4>2. Len(r) \in Nat /\ HeaderSize \in Nat /\ HeaderSize \in 1..Len(r)
        BY <3>2, PacketConstants
      <4>3. r[HeaderSize] \in Int
        BY <3>2, <4>2, ElementOf, OctetIs
      <4> QED
        BY <4>1, <4>2, <4>3
    <3> QED
      BY <3>2, <3>3, <3>4, <3>5 DEF packets
  <2> HIDE DEF Complete
  <2> QED
    BY <2>1, <2>2, PacketsAreThere
<1>3. buffer \in Seq(Byte) => PacketsAreAllThereIs
  <2>1. buffer \in Seq(Byte) => buffer \in Seq(Octet)
    BY BytesAreOctets
  <2>2. buffer \in Seq(Octet) => Complete(buffer, Packets(buffer))
    BY <1>2
  <2> QED
    BY <2>1, <2>2 DEF PacketsAreAllThereIs
<1> QED
  BY <1>3, BufferIsOfBytes, PTL
-----------------------------------------------------------------------------
(***************************************************************************)
(* Exclusive or, at every width: it stays in its width, and what is        *)
(* combined with it comes back when it is combined once more.              *)
(***************************************************************************)
Fits(a, n) == a \in Int /\ 0 <= a /\ a < n

LEMMA HalvesFit ==
  ASSUME NEW a
  PROVE  /\ Fits(a, 4) => Fits(a \div 2, 2) /\ Fits(a % 2, 2) /\ a = 2 * (a \div 2) + (a % 2)
         /\ Fits(a, 16) => Fits(a \div 4, 4) /\ Fits(a % 4, 4) /\ a = 4 * (a \div 4) + (a % 4)
         /\ Fits(a, 256) => Fits(a \div 16, 16) /\ Fits(a % 16, 16) /\ a = 16 * (a \div 16) + (a % 16)
         /\ Fits(a, 65536) => Fits(a \div 256, 256) /\ Fits(a % 256, 256) /\ a = 256 * (a \div 256) + (a % 256)
<1>1. Fits(a, 4) => Fits(a \div 2, 2) /\ Fits(a % 2, 2) /\ a = 2 * (a \div 2) + (a % 2)
  BY DEF Fits
<1>2. Fits(a, 16) => Fits(a \div 4, 4) /\ Fits(a % 4, 4) /\ a = 4 * (a \div 4) + (a % 4)
  BY DEF Fits
<1>3. Fits(a, 256) => Fits(a \div 16, 16) /\ Fits(a % 16, 16) /\ a = 16 * (a \div 16) + (a % 16)
  BY DEF Fits
<1>4. Fits(a, 65536) => Fits(a \div 256, 256) /\ Fits(a % 256, 256) /\ a = 256 * (a \div 256) + (a % 256)
  BY DEF Fits
<1> QED
  BY <1>1, <1>2, <1>3, <1>4

LEMMA FromHalves ==
  ASSUME NEW x, NEW y
  PROVE  /\ Fits(x, 2) /\ Fits(y, 2) =>
              Fits(2 * x + y, 4) /\ (2 * x + y) \div 2 = x /\ (2 * x + y) % 2 = y
         /\ Fits(x, 4) /\ Fits(y, 4) =>
              Fits(4 * x + y, 16) /\ (4 * x + y) \div 4 = x /\ (4 * x + y) % 4 = y
         /\ Fits(x, 16) /\ Fits(y, 16) =>
              Fits(16 * x + y, 256) /\ (16 * x + y) \div 16 = x /\ (16 * x + y) % 16 = y
         /\ Fits(x, 256) /\ Fits(y, 256) =>
              Fits(256 * x + y, 65536) /\ (256 * x + y) \div 256 = x /\ (256 * x + y) % 256 = y
<1>1. Fits(x, 2) /\ Fits(y, 2) =>
        Fits(2 * x + y, 4) /\ (2 * x + y) \div 2 = x /\ (2 * x + y) % 2 = y
  BY DEF Fits
<1>2. Fits(x, 4) /\ Fits(y, 4) =>
        Fits(4 * x + y, 16) /\ (4 * x + y) \div 4 = x /\ (4 * x + y) % 4 = y
  BY DEF Fits
<1>3. Fits(x, 16) /\ Fits(y, 16) =>
        Fits(16 * x + y, 256) /\ (16 * x + y) \div 16 = x /\ (16 * x + y) % 16 = y
  BY DEF Fits
<1>4. Fits(x, 256) /\ Fits(y, 256) =>
        Fits(256 * x + y, 65536) /\ (256 * x + y) \div 256 = x /\ (256 * x + y) % 256 = y
  BY DEF Fits
<1> QED
  BY <1>1, <1>2, <1>3, <1>4

LEMMA Xor1Cancels ==
  ASSUME NEW a, Fits(a, 2), NEW b, Fits(b, 2)
  PROVE  /\ Fits(Xor1(a, b), 2) /\ Xor1(Xor1(a, b), b) = a
         /\ Xor1(a, b) = Xor1(b, a) /\ Xor1(a, 0) = a
BY DEF Fits, Xor1

LEMMA Xor2Cancels ==
  ASSUME NEW a, Fits(a, 4), NEW b, Fits(b, 4)
  PROVE  /\ Fits(Xor2(a, b), 4) /\ Xor2(Xor2(a, b), b) = a
         /\ Xor2(a, b) = Xor2(b, a) /\ Xor2(a, 0) = a
<1> DEFINE x == Xor1(a \div 2, b \div 2)
           y == Xor1(a % 2, b % 2)
<1>1. /\ Fits(a \div 2, 2) /\ Fits(a % 2, 2) /\ a = 2 * (a \div 2) + (a % 2)
      /\ Fits(b \div 2, 2) /\ Fits(b % 2, 2)
  BY HalvesFit
<1>2. /\ Fits(x, 2) /\ Xor1(x, b \div 2) = a \div 2 /\ x = Xor1(b \div 2, a \div 2)
      /\ Fits(y, 2) /\ Xor1(y, b % 2) = a % 2 /\ y = Xor1(b % 2, a % 2)
      /\ Xor1(a \div 2, 0) = a \div 2 /\ Xor1(a % 2, 0) = a % 2
  BY <1>1, Xor1Cancels
<1>3. Xor2(a, b) = 2 * x + y /\ Xor2(a, 0) = 2 * Xor1(a \div 2, 0) + Xor1(a % 2, 0)
  BY DEF Xor2
<1>4. Xor2(b, a) = 2 * x + y
  BY <1>2 DEF Xor2
<1> HIDE DEF x, y
<1>5. Fits(2 * x + y, 4) /\ (2 * x + y) \div 2 = x /\ (2 * x + y) % 2 = y
  BY <1>2, FromHalves
<1>6. Xor2(2 * x + y, b) = a
  BY <1>1, <1>2, <1>5 DEF Xor2
<1> QED
  BY <1>1, <1>2, <1>3, <1>4, <1>5, <1>6

LEMMA Xor4Cancels ==
  ASSUME NEW a, Fits(a, 16), NEW b, Fits(b, 16)
  PROVE  /\ Fits(Xor4(a, b), 16) /\ Xor4(Xor4(a, b), b) = a
         /\ Xor4(a, b) = Xor4(b, a) /\ Xor4(a, 0) = a
<1> DEFINE x == Xor2(a \div 4, b \div 4)
           y == Xor2(a % 4, b % 4)
<1>1. /\ Fits(a \div 4, 4) /\ Fits(a % 4, 4) /\ a = 4 * (a \div 4) + (a % 4)
      /\ Fits(b \div 4, 4) /\ Fits(b % 4, 4)
  BY HalvesFit
<1>2. /\ Fits(x, 4) /\ Xor2(x, b \div 4) = a \div 4 /\ x = Xor2(b \div 4, a \div 4)
      /\ Fits(y, 4) /\ Xor2(y, b % 4) = a % 4 /\ y = Xor2(b % 4, a % 4)
      /\ Xor2(a \div 4, 0) = a \div 4 /\ Xor2(a % 4, 0) = a % 4
  BY <1>1, Xor2Cancels
<1>3. Xor4(a, b) = 4 * x + y /\ Xor4(a, 0) = 4 * Xor2(a \div 4, 0) + Xor2(a % 4, 0)
  BY DEF Xor4
<1>4. Xor4(b, a) = 4 * x + y
  BY <1>2 DEF Xor4
<1> HIDE DEF x, y
<1>5. Fits(4 * x + y, 16) /\ (4 * x + y) \div 4 = x /\ (4 * x + y) % 4 = y
  BY <1>2, FromHalves
<1>6. Xor4(4 * x + y, b) = a
  BY <1>1, <1>2, <1>5 DEF Xor4
<1> QED
  BY <1>1, <1>2, <1>3, <1>4, <1>5, <1>6

LEMMA Xor8Cancels ==
  ASSUME NEW a, Fits(a, 256), NEW b, Fits(b, 256)
  PROVE  /\ Fits(Xor8(a, b), 256) /\ Xor8(Xor8(a, b), b) = a
         /\ Xor8(a, b) = Xor8(b, a) /\ Xor8(a, 0) = a
<1> DEFINE x == Xor4(a \div 16, b \div 16)
           y == Xor4(a % 16, b % 16)
<1>1. /\ Fits(a \div 16, 16) /\ Fits(a % 16, 16) /\ a = 16 * (a \div 16) + (a % 16)
      /\ Fits(b \div 16, 16) /\ Fits(b % 16, 16)
  BY HalvesFit
<1>2. /\ Fits(x, 16) /\ Xor4(x, b \div 16) = a \div 16 /\ x = Xor4(b \div 16, a \div 16)
      /\ Fits(y, 16) /\ Xor4(y, b % 16) = a % 16 /\ y = Xor4(b % 16, a % 16)
      /\ Xor4(a \div 16, 0) = a \div 16 /\ Xor4(a % 16, 0) = a % 16
  BY <1>1, Xor4Cancels
<1>3. Xor8(a, b) = 16 * x + y /\ Xor8(a, 0) = 16 * Xor4(a \div 16, 0) + Xor4(a % 16, 0)
  BY DEF Xor8
<1>4. Xor8(b, a) = 16 * x + y
  BY <1>2 DEF Xor8
<1> HIDE DEF x, y
<1>5. Fits(16 * x + y, 256) /\ (16 * x + y) \div 16 = x /\ (16 * x + y) % 16 = y
  BY <1>2, FromHalves
<1>6. Xor8(16 * x + y, b) = a
  BY <1>1, <1>2, <1>5 DEF Xor8
<1> QED
  BY <1>1, <1>2, <1>3, <1>4, <1>5, <1>6

LEMMA Xor16Cancels ==
  ASSUME NEW a, Fits(a, 65536), NEW b, Fits(b, 65536)
  PROVE  /\ Fits(Xor16(a, b), 65536) /\ Xor16(Xor16(a, b), b) = a
         /\ Xor16(a, b) = Xor16(b, a) /\ Xor16(a, 0) = a
<1> DEFINE x == Xor8(a \div 256, b \div 256)
           y == Xor8(a % 256, b % 256)
<1>1. /\ Fits(a \div 256, 256) /\ Fits(a % 256, 256) /\ a = 256 * (a \div 256) + (a % 256)
      /\ Fits(b \div 256, 256) /\ Fits(b % 256, 256)
  BY HalvesFit
<1>2. /\ Fits(x, 256) /\ Xor8(x, b \div 256) = a \div 256 /\ x = Xor8(b \div 256, a \div 256)
      /\ Fits(y, 256) /\ Xor8(y, b % 256) = a % 256 /\ y = Xor8(b % 256, a % 256)
      /\ Xor8(a \div 256, 0) = a \div 256 /\ Xor8(a % 256, 0) = a % 256
  BY <1>1, Xor8Cancels
<1>3. Xor16(a, b) = 256 * x + y /\ Xor16(a, 0) = 256 * Xor8(a \div 256, 0) + Xor8(a % 256, 0)
  BY DEF Xor16
<1>4. Xor16(b, a) = 256 * x + y
  BY <1>2 DEF Xor16
<1> HIDE DEF x, y
<1>5. Fits(256 * x + y, 65536) /\ (256 * x + y) \div 256 = x /\ (256 * x + y) % 256 = y
  BY <1>2, FromHalves
<1>6. Xor16(256 * x + y, b) = a
  BY <1>1, <1>2, <1>5 DEF Xor16
<1> QED
  BY <1>1, <1>2, <1>3, <1>4, <1>5, <1>6
-----------------------------------------------------------------------------
(***************************************************************************)
(* The checksum of frames.  Where in the table an entry is shows in its    *)
(* high byte, which the step leaves as it is.                              *)
(***************************************************************************)
PlaceOf ==
  <<1, 18, 35, 52, 69, 86, 103, 120, 137, 154, 171, 188, 205, 222, 239, 256, 17,
    2, 51, 36, 85, 70, 119, 104, 153, 138, 187, 172, 221, 206, 255, 240, 50, 33,
    20, 3, 118, 101, 88, 71, 186, 169, 156, 139, 254, 237, 224, 207, 34, 49, 4,
    19, 102, 117, 72, 87, 170, 185, 140, 155, 238, 253, 208, 223, 99, 116, 65,
    82, 39, 56, 5, 22, 235, 252, 201, 218, 175, 192, 141, 158, 115, 100, 81, 66,
    55, 40, 21, 6, 251, 236, 217, 202, 191, 176, 157, 142, 84, 67, 114, 97, 24,
    7, 54, 37, 220, 203, 250, 233, 160, 143, 190, 173, 68, 83, 98, 113, 8, 23,
    38, 53, 204, 219, 234, 249, 144, 159, 174, 189, 197, 214, 231, 248, 129,
    146, 163, 180, 77, 94, 111, 128, 9, 26, 43, 60, 213, 198, 247, 232, 145,
    130, 179, 164, 93, 78, 127, 112, 25, 10, 59, 44, 246, 229, 216, 199, 178,
    161, 148, 131, 126, 109, 96, 79, 58, 41, 28, 11, 230, 245, 200, 215, 162,
    177, 132, 147, 110, 125, 80, 95, 42, 57, 12, 27, 167, 184, 133, 150, 227,
    244, 193, 210, 47, 64, 13, 30, 107, 124, 73, 90, 183, 168, 149, 134, 243,
    228, 209, 194, 63, 48, 29, 14, 123, 108, 89, 74, 152, 135, 182, 165, 212,
    195, 242, 225, 32, 15, 62, 45, 92, 75, 122, 105, 136, 151, 166, 181, 196,
    211, 226, 241, 16, 31, 46, 61, 76, 91, 106, 121>>

Crcs == {crc \in Nat : crc < 65536}

LEMMA CrcsFit ==
  \A crc : crc \in Crcs <=> Fits(crc, 65536)
BY DEF Crcs, Fits

LEMMA OctetsFit ==
  \A n : n \in Octet <=> Fits(n, 256)
BY OctetIs DEF Fits

LEMMA TableEntries ==
  ASSUME NEW i \in Int, 1 <= i, i <= 256
  PROVE  /\ Fits(Table[i], 65536)
         /\ PlaceOf[(Table[i] \div 256) + 1] = i
<1>1. Table[i] \in Int /\ 0 <= Table[i] /\ Table[i] < 65536
  BY SMTT(120) DEF Table
<1>2. PlaceOf[(Table[i] \div 256) + 1] = i
  BY SMTT(120) DEF Table, PlaceOf
<1> QED
  BY <1>1, <1>2 DEF Fits

LEMMA StepIs ==
  ASSUME NEW crc, Fits(crc, 65536), NEW byte, Fits(byte, 256)
  PROVE  LET index == Xor8(crc % 256, byte)
         IN  /\ Fits(index, 256) /\ index = PlaceOf[(Step(crc, byte) \div 256) + 1] - 1
             /\ Xor8(index, byte) = crc % 256 /\ Xor8(index, crc % 256) = byte
             /\ Fits(Step(crc, byte), 65536)
             /\ crc \div 256 = Xor16(Step(crc, byte), Table[index + 1])
<1> DEFINE low == crc % 256
           high == crc \div 256
           index == Xor8(low, byte)
           entry == Table[index + 1]
           next == Step(crc, byte)
<1>1. Fits(low, 256) /\ Fits(high, 256)
  BY HalvesFit
<1> HIDE DEF low, high
<1>2. /\ Fits(index, 256) /\ Xor8(index, byte) = low
      /\ index = Xor8(byte, low) /\ Xor8(Xor8(byte, low), low) = byte
  BY <1>1, Xor8Cancels
<1>3. next = Xor16(entry, high)
  BY DEF Step, low, high
<1> HIDE DEF index, next
<1>4. index + 1 \in Int /\ 1 <= index + 1 /\ index + 1 <= 256
  BY <1>2 DEF Fits
<1>5. Fits(entry, 65536) /\ PlaceOf[(entry \div 256) + 1] = index + 1
  BY <1>4, TableEntries
<1> HIDE DEF entry
<1>6. Fits(high, 65536)
  BY <1>1 DEF Fits
<1>7. /\ Fits(next, 65536) /\ Xor16(next, high) = entry /\ next = Xor16(high, entry)
      /\ Xor16(Xor16(high, entry), entry) = high
  BY <1>3, <1>5, <1>6, Xor16Cancels
<1>8. next \div 256 = entry \div 256
  <2> DEFINE x == Xor8(entry \div 256, 0)
             y == Xor8(entry % 256, high)
  <2>1. high \div 256 = 0 /\ high % 256 = high
    BY <1>1 DEF Fits
  <2>2. next = 256 * x + y
    BY <1>3, <2>1 DEF Xor16
  <2>3. Fits(entry \div 256, 256) /\ Fits(entry % 256, 256)
    BY <1>5, HalvesFit
  <2>4. x = entry \div 256
    <3>1. Fits(0, 256)
      BY DEF Fits
    <3> QED
      BY <2>3, <3>1, Xor8Cancels
  <2>5. Fits(y, 256)
    BY <1>1, <2>3, Xor8Cancels
  <2> HIDE DEF x, y
  <2>6. (256 * x + y) \div 256 = x
    BY <2>3, <2>4, <2>5, FromHalves
  <2> QED
    BY <2>2, <2>4, <2>6
<1>9. index = PlaceOf[(next \div 256) + 1] - 1
  <2>1. PlaceOf[(next \div 256) + 1] = index + 1 /\ index \in Int
    BY <1>2, <1>5, <1>8 DEF Fits
  <2> QED
    BY <2>1
<1> QED
  BY <1>2, <1>7, <1>9 DEF index, entry, low, high, next

(***************************************************************************)
(* A checksum remembers the one before it, and shows the byte in between.  *)
(***************************************************************************)
LEMMA StepRemembers ==
  ASSUME NEW a, Fits(a, 65536), NEW b, Fits(b, 65536), NEW x, Fits(x, 256), NEW y, Fits(y, 256),
         Step(a, x) = Step(b, y), a = b \/ x = y
  PROVE  a = b /\ x = y
<1>1. Xor8(a % 256, x) = Xor8(b % 256, y) /\ a \div 256 = b \div 256
  <2>1. Xor8(a % 256, x) = Xor8(b % 256, y)
    BY StepIs
  <2> QED
    BY <2>1, StepIs
<1>2. a = 256 * (a \div 256) + (a % 256) /\ b = 256 * (b \div 256) + (b % 256)
  BY HalvesFit
<1>3. CASE x = y
  <2>1. a % 256 = b % 256
    <3>1. /\ Xor8(Xor8(a % 256, x), x) = a % 256
          /\ Xor8(Xor8(b % 256, y), y) = b % 256
      BY StepIs
    <3> QED
      BY <1>1, <1>3, <3>1
  <2> QED
    BY <1>1, <1>2, <1>3, <2>1
<1>4. CASE a = b
  <2>1. /\ Xor8(Xor8(a % 256, x), a % 256) = x
        /\ Xor8(Xor8(b % 256, y), b % 256) = y
    BY StepIs
  <2> QED
    BY <1>1, <1>4, <2>1
<1> QED
  BY <1>3, <1>4

LEMMA CrcLoop ==
  ASSUME NEW bytes \in Seq(Octet)
  PROVE  \E crc : /\ FrameCrc(bytes) = crc[Len(bytes)]
                  /\ crc[0] = Initial
                  /\ \A i \in 1..Len(bytes) : crc[i] = Step(crc[i - 1], bytes[i])
                  /\ \A i \in 0..Len(bytes) : Fits(crc[i], 65536)
<1> DEFINE n == Len(bytes)
           Turns(f) == [i \in 0..n |-> IF i = 0 THEN Initial ELSE Step(f[i - 1], bytes[i])]
           next == [i \in 1..n |-> [crc \in Crcs |-> Step(crc, bytes[i])]]
           crc == CHOOSE f : f = Turns(f)
<1>1. Initial \in Crcs
  BY DEF Initial, Crcs
<1>2. next \in [1..n -> [Crcs -> Crcs]]
  <2>1. \A i \in 1..n : \A c \in Crcs : Step(c, bytes[i]) \in Crcs
    BY ElementOf, OctetsFit, CrcsFit, StepIs
  <2> QED
    BY <2>1
<1>3. n \in Nat
  OBVIOUS
<1>4. PICK f : IsLoop(f, n, Crcs, Initial, next)
  <2> HIDE DEF n, next
  <2> QED
    BY <1>1, <1>2, <1>3, LoopExists
<1>5. /\ f \in [0..n -> Crcs] /\ f[0] = Initial
      /\ \A i \in 1..n : f[i] = next[i][f[i - 1]]
  BY <1>4 DEF IsLoop
<1>6. \A i \in 1..n : f[i] = Step(f[i - 1], bytes[i])
  <2>1. \A i \in 1..n : i - 1 \in 0..n
    BY <1>3
  <2>2. \A i \in 1..n : f[i - 1] \in Crcs
    BY <1>5, <2>1
  <2>3. \A i \in 1..n : \A c \in Crcs : next[i][c] = Step(c, bytes[i])
    OBVIOUS
  <2> HIDE DEF next
  <2> QED
    BY <1>5, <2>2, <2>3
<1>7. f = Turns(f)
  <2> HIDE DEF n, next
  <2> QED
    BY <1>3, <1>5, <1>6
<1>8. crc = Turns(crc)
  <2> HIDE DEF Turns
  <2> QED
    BY <1>7
<1>9. FrameCrc(bytes) = crc[n]
  BY DEF FrameCrc
<1>10. crc[0] = Initial /\ \A i \in 1..n : crc[i] = Step(crc[i - 1], bytes[i])
  <2> HIDE DEF crc, n
  <2> QED
    BY <1>3, <1>8
<1>11. \A i \in 0..n : crc[i] \in Crcs
  <2> DEFINE U == [i \in 0..n |-> Crcs]
  <2>1. crc[0] \in U[0]
    BY <1>1, <1>3, <1>10
  <2>2. ASSUME NEW i \in 1..n, crc[i - 1] \in U[i - 1]
        PROVE  crc[i] \in U[i]
    <3>1. i - 1 \in 0..n /\ i \in 0..n
      BY <1>3
    <3>2. crc[i - 1] \in Crcs
      BY <2>2, <3>1
    <3>3. Step(crc[i - 1], bytes[i]) \in Crcs
      <4> HIDE DEF crc
      <4> QED
        BY <3>2, ElementOf, OctetsFit, CrcsFit, StepIs
    <3> QED
      BY <1>10, <3>1, <3>3
  <2>3. \A i \in 0..n : crc[i] \in U[i]
    <3> HIDE DEF U, n, crc
    <3> QED
      BY <1>3, <2>1, <2>2, LoopStays
  <2> HIDE DEF crc, n
  <2> QED
    BY <2>3
<1> HIDE DEF crc
<1> QED
  BY <1>9, <1>10, <1>11, CrcsFit

(***************************************************************************)
(* For every frame, one byte of it altered in any way alters its checksum  *)
(* (crc.rs:34).                                                            *)
(***************************************************************************)
THEOREM AlteredByteCorrect == ConversionsSpec => []AlteredByteIsNoticed
<1>1. ASSUME NEW bytes \in Seq(Octet), NEW at \in 1..Len(bytes), NEW byte \in Octet, byte # bytes[at]
      PROVE  FrameCrc([bytes EXCEPT ![at] = byte]) # FrameCrc(bytes)
  <2> DEFINE n == Len(bytes)
             altered == [bytes EXCEPT ![at] = byte]
  <2>1. /\ altered \in Seq(Octet) /\ Len(altered) = n
        /\ \A i \in 1..n : altered[i] = IF i = at THEN byte ELSE bytes[i]
    BY <1>1, ExceptSeq
  <2> HIDE DEF altered
  <2>2. PICK crc : /\ FrameCrc(bytes) = crc[n] /\ crc[0] = Initial
                   /\ \A i \in 1..n : crc[i] = Step(crc[i - 1], bytes[i])
                   /\ \A i \in 0..n : Fits(crc[i], 65536)
    BY CrcLoop
  <2>3. PICK other : /\ FrameCrc(altered) = other[n] /\ other[0] = Initial
                     /\ \A i \in 1..n : other[i] = Step(other[i - 1], altered[i])
                     /\ \A i \in 0..n : Fits(other[i], 65536)
    <3>1. \E other : /\ FrameCrc(altered) = other[Len(altered)] /\ other[0] = Initial
                     /\ \A i \in 1..Len(altered) : other[i] = Step(other[i - 1], altered[i])
                     /\ \A i \in 0..Len(altered) : Fits(other[i], 65536)
      BY <2>1, CrcLoop
    <3> QED
      BY <2>1, <3>1
  <2> DEFINE U == [i \in 0..n |-> {d \in BOOLEAN : d = (i >= at)}]
             differ == [i \in 0..n |-> crc[i] # other[i]]
  <2>4. n \in Nat /\ at \in Nat /\ 1 <= at /\ at <= n
    OBVIOUS
  <2> HIDE DEF n
  <2>5. differ[0] \in U[0]
    BY <2>2, <2>3, <2>4
  <2>6. ASSUME NEW i \in 1..n, differ[i - 1] \in U[i - 1]
        PROVE  differ[i] \in U[i]
    <3>1. i - 1 \in 0..n /\ i \in 0..n /\ i \in Int
      BY <2>4
    <3>2. (crc[i - 1] # other[i - 1]) = (i - 1 >= at)
      BY <2>6, <3>1
    <3>3. crc[i] = Step(crc[i - 1], bytes[i]) /\ other[i] = Step(other[i - 1], altered[i])
      BY <2>2, <2>3
    <3>4. Fits(crc[i - 1], 65536) /\ Fits(other[i - 1], 65536)
      BY <2>2, <2>3, <3>1
    <3>5. Fits(bytes[i], 256) /\ Fits(altered[i], 256)
      BY <2>1, ElementOf, OctetsFit DEF n
    <3>6. CASE i < at
      <4>1. crc[i - 1] = other[i - 1] /\ bytes[i] = altered[i]
        BY <2>1, <2>4, <3>1, <3>2, <3>6
      <4> QED
        BY <2>4, <3>1, <3>3, <3>6, <4>1
    <3>7. CASE i = at
      <4>1. crc[i - 1] = other[i - 1] /\ bytes[i] # altered[i]
        BY <1>1, <2>1, <2>4, <3>1, <3>2, <3>7
      <4>2. crc[i] # other[i]
        BY <3>3, <3>4, <3>5, <4>1, StepRemembers
      <4> QED
        BY <2>4, <3>1, <3>7, <4>2
    <3>8. CASE i > at
      <4>1. crc[i - 1] # other[i - 1] /\ bytes[i] = altered[i]
        BY <2>1, <2>4, <3>1, <3>2, <3>8
      <4>2. crc[i] # other[i]
        BY <3>3, <3>4, <3>5, <4>1, StepRemembers
      <4> QED
        BY <2>4, <3>1, <3>8, <4>2
    <3> QED
      BY <2>4, <3>1, <3>6, <3>7, <3>8
  <2>7. \A i \in 0..n : differ[i] \in U[i]
    <3> HIDE DEF U, differ
    <3> QED
      BY <2>4, <2>5, <2>6, LoopStays
  <2>8. crc[n] # other[n]
    <3>1. n \in 0..n
      BY <2>4
    <3>2. differ[n] \in U[n]
      BY <2>7, <3>1
    <3> QED
      BY <2>4, <3>1, <3>2
  <2> QED
    BY <2>2, <2>3, <2>8 DEF altered
<1>2. buffer \in Seq(Byte) => AlteredByteIsNoticed
  <2>1. buffer \in Seq(Byte) => buffer \in Seq(Octet)
    BY BytesAreOctets
  <2>2. Alteration \subseteq Octet
    BY ConversionsConstants
  <2> QED
    BY <1>1, <2>1, <2>2 DEF AlteredByteIsNoticed
<1> QED
  BY <1>2, BufferIsOfBytes, PTL
-----------------------------------------------------------------------------
(***************************************************************************)
(* Barcodes.  With one of its three nibbles unknown, a step of the CRC     *)
(* gives it away.                                                          *)
(***************************************************************************)
\* The high nibble of an index into the table, by the low one and the entry, and
\* the low nibble by the high one and the entry.
HighOf ==
  <<0, 11, 5, 14, 10, 1, 15, 4, 7, 12, 2, 9, 13, 6, 8, 3, 14, 5, 11, 0, 4, 15,
    1, 10, 9, 2, 12, 7, 3, 8, 6, 13, 15, 4, 10, 1, 5, 14, 0, 11, 8, 3, 13, 6, 2,
    9, 7, 12, 1, 10, 4, 15, 11, 0, 14, 5, 6, 13, 3, 8, 12, 7, 9, 2, 13, 6, 8, 3,
    7, 12, 2, 9, 10, 1, 15, 4, 0, 11, 5, 14, 3, 8, 6, 13, 9, 2, 12, 7, 4, 15, 1,
    10, 14, 5, 11, 0, 2, 9, 7, 12, 8, 3, 13, 6, 5, 14, 0, 11, 15, 4, 10, 1, 12,
    7, 9, 2, 6, 13, 3, 8, 11, 0, 14, 5, 1, 10, 4, 15, 9, 2, 12, 7, 3, 8, 6, 13,
    14, 5, 11, 0, 4, 15, 1, 10, 7, 12, 2, 9, 13, 6, 8, 3, 0, 11, 5, 14, 10, 1,
    15, 4, 6, 13, 3, 8, 12, 7, 9, 2, 1, 10, 4, 15, 11, 0, 14, 5, 8, 3, 13, 6, 2,
    9, 7, 12, 15, 4, 10, 1, 5, 14, 0, 11, 4, 15, 1, 10, 14, 5, 11, 0, 3, 8, 6,
    13, 9, 2, 12, 7, 10, 1, 15, 4, 0, 11, 5, 14, 13, 6, 8, 3, 7, 12, 2, 9, 11,
    0, 14, 5, 1, 10, 4, 15, 12, 7, 9, 2, 6, 13, 3, 8, 5, 14, 0, 11, 15, 4, 10,
    1, 2, 9, 7, 12, 8, 3, 13, 6>>

LowOf ==
  <<0, 14, 15, 1, 13, 3, 2, 12, 9, 7, 6, 8, 4, 10, 11, 5, 3, 13, 12, 2, 14, 0,
    1, 15, 10, 4, 5, 11, 7, 9, 8, 6, 6, 8, 9, 7, 11, 5, 4, 10, 15, 1, 0, 14, 2,
    12, 13, 3, 5, 11, 10, 4, 8, 6, 7, 9, 12, 2, 3, 13, 1, 15, 14, 0, 12, 2, 3,
    13, 1, 15, 14, 0, 5, 11, 10, 4, 8, 6, 7, 9, 15, 1, 0, 14, 2, 12, 13, 3, 6,
    8, 9, 7, 11, 5, 4, 10, 10, 4, 5, 11, 7, 9, 8, 6, 3, 13, 12, 2, 14, 0, 1, 15,
    9, 7, 6, 8, 4, 10, 11, 5, 0, 14, 15, 1, 13, 3, 2, 12, 11, 5, 4, 10, 6, 8, 9,
    7, 2, 12, 13, 3, 15, 1, 0, 14, 8, 6, 7, 9, 5, 11, 10, 4, 1, 15, 14, 0, 12,
    2, 3, 13, 13, 3, 2, 12, 0, 14, 15, 1, 4, 10, 11, 5, 9, 7, 6, 8, 14, 0, 1,
    15, 3, 13, 12, 2, 7, 9, 8, 6, 10, 4, 5, 11, 7, 9, 8, 6, 10, 4, 5, 11, 14, 0,
    1, 15, 3, 13, 12, 2, 4, 10, 11, 5, 9, 7, 6, 8, 13, 3, 2, 12, 0, 14, 15, 1,
    1, 15, 14, 0, 12, 2, 3, 13, 8, 6, 7, 9, 5, 11, 10, 4, 2, 12, 13, 3, 15, 1,
    0, 14, 11, 5, 4, 10, 6, 8, 9, 7>>

LEMMA BarcodeEntries ==
  ASSUME NEW high, Fits(high, 16), NEW low, Fits(low, 16)
  PROVE  LET entry == BarcodeTable[16 * high + low + 1]
         IN  /\ Fits(entry, 16)
             /\ HighOf[16 * low + entry + 1] = high
             /\ LowOf[16 * high + entry + 1] = low
<1>1. \A i \in Int : 1 <= i /\ i <= 256 =>
        BarcodeTable[i] \in Int /\ 0 <= BarcodeTable[i] /\ BarcodeTable[i] < 16
  BY SMTT(120) DEF BarcodeTable
<1>2. \A i \in Int : 1 <= i /\ i <= 256 =>
        HighOf[16 * ((i - 1) % 16) + BarcodeTable[i] + 1] = (i - 1) \div 16
  BY SMTT(120) DEF BarcodeTable, HighOf
<1>3. \A i \in Int : 1 <= i /\ i <= 256 =>
        LowOf[16 * ((i - 1) \div 16) + BarcodeTable[i] + 1] = (i - 1) % 16
  BY SMTT(120) DEF BarcodeTable, LowOf
<1> DEFINE i == 16 * high + low + 1
<1>4. i \in Int /\ 1 <= i /\ i <= 256 /\ (i - 1) \div 16 = high /\ (i - 1) % 16 = low
  BY DEF Fits
<1> HIDE DEF i
<1> QED
  BY <1>1, <1>2, <1>3, <1>4 DEF i, Fits

LEMMA CrcStepIs ==
  ASSUME NEW crc, Fits(crc, 16), NEW high, Fits(high, 16), NEW low, Fits(low, 16)
  PROVE  /\ CrcStep(crc, 16 * high + low) = BarcodeTable[16 * Xor4(high, crc) + low + 1]
         /\ Fits(Xor4(high, crc), 16)
         /\ Fits(CrcStep(crc, 16 * high + low), 16)
<1> DEFINE byte == 16 * high + low
<1>1. byte \div 16 = high /\ byte % 16 = low
  BY FromHalves
<1>2. (crc * 16) \div 16 = crc /\ (crc * 16) % 16 = 0
  BY DEF Fits
<1>3. Fits(0, 16)
  BY DEF Fits
<1> HIDE DEF byte
<1>4. Xor8(byte, crc * 16) = 16 * Xor4(high, crc) + Xor4(low, 0)
  BY <1>1, <1>2 DEF Xor8
<1>5. Fits(Xor4(high, crc), 16) /\ Xor4(low, 0) = low
  BY <1>3, Xor4Cancels
<1>6. CrcStep(crc, byte) = BarcodeTable[16 * Xor4(high, crc) + low + 1]
  BY <1>4, <1>5 DEF CrcStep
<1>7. Fits(BarcodeTable[16 * Xor4(high, crc) + low + 1], 16)
  BY <1>5, BarcodeEntries
<1> QED
  BY <1>5, <1>6, <1>7 DEF byte

LEMMA CrcStepRemembers ==
  ASSUME NEW c, Fits(c, 16), NEW d, Fits(d, 16),
         NEW h, Fits(h, 16), NEW g, Fits(g, 16), NEW l, Fits(l, 16), NEW m, Fits(m, 16),
         CrcStep(c, 16 * h + l) = CrcStep(d, 16 * g + m),
         \/ c = d /\ h = g
         \/ c = d /\ l = m
         \/ h = g /\ l = m
  PROVE  c = d /\ h = g /\ l = m
<1> DEFINE x == Xor4(h, c)
           y == Xor4(g, d)
           entry == BarcodeTable[16 * x + l + 1]
           other == BarcodeTable[16 * y + m + 1]
<1>1. /\ Fits(x, 16) /\ Fits(y, 16)
      /\ Xor4(x, c) = h /\ Xor4(y, d) = g
      /\ x = Xor4(c, h) /\ y = Xor4(d, g)
      /\ Xor4(Xor4(c, h), h) = c /\ Xor4(Xor4(d, g), g) = d
  BY Xor4Cancels
<1>2. entry = other
  BY CrcStepIs
<1> HIDE DEF x, y
<1>3. /\ HighOf[16 * l + entry + 1] = x /\ LowOf[16 * x + entry + 1] = l
      /\ HighOf[16 * m + entry + 1] = y /\ LowOf[16 * y + entry + 1] = m
  <2>1. HighOf[16 * l + entry + 1] = x /\ LowOf[16 * x + entry + 1] = l
    BY <1>1, BarcodeEntries
  <2>2. HighOf[16 * m + other + 1] = y /\ LowOf[16 * y + other + 1] = m
    BY <1>1, BarcodeEntries
  <2> HIDE DEF entry, other
  <2> QED
    BY <1>2, <2>1, <2>2
<1> HIDE DEF entry, other
<1>4. CASE c = d /\ h = g
  BY <1>3, <1>4 DEF x, y
<1>5. CASE l = m
  <2>1. x = y
    BY <1>3, <1>5
  <2> QED
    BY <1>1, <1>5, <2>1
<1> QED
  BY <1>4, <1>5

Nibbles == {n \in Nat : n < 16}
Addresses == [1..16 -> Nibbles]

LEMMA NibblesFit ==
  \A n : n \in Nibbles <=> Fits(n, 16)
BY DEF Nibbles, Fits

ByteOf(address, i) == 16 * address[2 * i - 1] + address[2 * i]

LEMMA BarcodeCrcLoop ==
  ASSUME NEW address \in Addresses
  PROVE  \E crc : /\ BarcodeCrc(address) = crc[8]
                  /\ crc[0] = 2
                  /\ \A i \in 1..8 : crc[i] = CrcStep(crc[i - 1], ByteOf(address, i))
                  /\ \A i \in 0..8 : Fits(crc[i], 16)
<1> DEFINE Turns(f) == [i \in 0..8 |-> IF i = 0 THEN 2 ELSE CrcStep(f[i - 1], ByteOf(address, i))]
           next == [i \in 1..8 |-> [c \in Nibbles |-> CrcStep(c, ByteOf(address, i))]]
           crc == CHOOSE f : f = Turns(f)
<1>1. 2 \in Nibbles
  BY DEF Nibbles
<1>2. \A i \in 1..8 : \A c \in Nibbles : CrcStep(c, ByteOf(address, i)) \in Nibbles
  <2>1. ASSUME NEW i \in 1..8, NEW c \in Nibbles
        PROVE  CrcStep(c, ByteOf(address, i)) \in Nibbles
    <3>1. 2 * i - 1 \in 1..16 /\ 2 * i \in 1..16
      OBVIOUS
    <3>2. Fits(address[2 * i - 1], 16) /\ Fits(address[2 * i], 16) /\ Fits(c, 16)
      BY <3>1, NibblesFit DEF Addresses
    <3>3. Fits(CrcStep(c, ByteOf(address, i)), 16)
      BY <3>2, CrcStepIs DEF ByteOf
    <3> QED
      BY <3>3, NibblesFit
  <2> QED
    BY <2>1
<1>3. next \in [1..8 -> [Nibbles -> Nibbles]]
  BY <1>2
<1>4. PICK f : IsLoop(f, 8, Nibbles, 2, next)
  <2> HIDE DEF next
  <2> QED
    BY <1>1, <1>3, LoopExists
<1>5. /\ f \in [0..8 -> Nibbles] /\ f[0] = 2
      /\ \A i \in 1..8 : f[i] = next[i][f[i - 1]]
  BY <1>4 DEF IsLoop
<1>6. \A i \in 1..8 : f[i] = CrcStep(f[i - 1], ByteOf(address, i))
  <2>1. \A i \in 1..8 : i - 1 \in 0..8
    OBVIOUS
  <2>2. \A i \in 1..8 : f[i - 1] \in Nibbles
    BY <1>5, <2>1
  <2>3. \A i \in 1..8 : \A c \in Nibbles : next[i][c] = CrcStep(c, ByteOf(address, i))
    OBVIOUS
  <2> HIDE DEF next
  <2> QED
    BY <1>5, <2>2, <2>3
<1>7. f = Turns(f)
  <2> HIDE DEF next
  <2> QED
    BY <1>5, <1>6
<1>8. crc = Turns(crc)
  <2> HIDE DEF Turns
  <2> QED
    BY <1>7
<1>9. BarcodeCrc(address) = crc[8]
  BY DEF BarcodeCrc, ByteOf
<1>10. crc[0] = 2 /\ \A i \in 1..8 : crc[i] = CrcStep(crc[i - 1], ByteOf(address, i))
  <2> HIDE DEF crc
  <2> QED
    BY <1>8
<1>11. \A i \in 0..8 : crc[i] \in Nibbles
  <2> DEFINE U == [i \in 0..8 |-> Nibbles]
  <2>1. crc[0] \in U[0]
    BY <1>1, <1>10
  <2>2. ASSUME NEW i \in 1..8, crc[i - 1] \in U[i - 1]
        PROVE  crc[i] \in U[i]
    <3>1. i - 1 \in 0..8 /\ i \in 0..8
      OBVIOUS
    <3>2. crc[i - 1] \in Nibbles
      BY <2>2, <3>1
    <3> HIDE DEF crc
    <3> QED
      BY <1>2, <1>10, <3>1, <3>2
  <2>3. \A i \in 0..8 : crc[i] \in U[i]
    <3> HIDE DEF U, crc
    <3> QED
      BY <2>1, <2>2, LoopStays
  <2> HIDE DEF crc
  <2> QED
    BY <2>3
<1> HIDE DEF crc
<1> QED
  BY <1>9, <1>10, <1>11, NibblesFit

(***************************************************************************)
(* One nibble of an address altered alters its checksum.                   *)
(***************************************************************************)
LEMMA AlteredNibble ==
  ASSUME NEW address \in Addresses, NEW at \in 1..16, NEW nibble \in Nibbles, nibble # address[at]
  PROVE  BarcodeCrc([address EXCEPT ![at] = nibble]) # BarcodeCrc(address)
<1> DEFINE altered == [address EXCEPT ![at] = nibble]
           place == IF at % 2 = 1 THEN (at + 1) \div 2 ELSE at \div 2
<1>1. altered \in Addresses /\ \A i \in 1..16 : altered[i] = IF i = at THEN nibble ELSE address[i]
  BY DEF Addresses
<1>2. /\ place \in 1..8
      /\ \A i \in 1..8 : (2 * i - 1 = at \/ 2 * i = at) <=> i = place
  OBVIOUS
<1> HIDE DEF altered, place
<1>3. PICK crc : /\ BarcodeCrc(address) = crc[8] /\ crc[0] = 2
                 /\ \A i \in 1..8 : crc[i] = CrcStep(crc[i - 1], ByteOf(address, i))
                 /\ \A i \in 0..8 : Fits(crc[i], 16)
  BY BarcodeCrcLoop
<1>4. PICK other : /\ BarcodeCrc(altered) = other[8] /\ other[0] = 2
                   /\ \A i \in 1..8 : other[i] = CrcStep(other[i - 1], ByteOf(altered, i))
                   /\ \A i \in 0..8 : Fits(other[i], 16)
  BY <1>1, BarcodeCrcLoop
<1> DEFINE U == [i \in 0..8 |-> {d \in BOOLEAN : d = (i >= place)}]
           differ == [i \in 0..8 |-> crc[i] # other[i]]
<1>5. differ[0] \in U[0]
  BY <1>2, <1>3, <1>4
<1>6. ASSUME NEW i \in 1..8, differ[i - 1] \in U[i - 1]
      PROVE  differ[i] \in U[i]
  <2> DEFINE h == address[2 * i - 1]
             l == address[2 * i]
             g == altered[2 * i - 1]
             m == altered[2 * i]
             c == crc[i - 1]
             d == other[i - 1]
  <2>1. i - 1 \in 0..8 /\ i \in 0..8 /\ i \in Int /\ 2 * i - 1 \in 1..16 /\ 2 * i \in 1..16
    OBVIOUS
  <2>2. (c # d) = (i - 1 >= place)
    BY <1>6, <2>1
  <2>3. crc[i] = CrcStep(c, 16 * h + l) /\ other[i] = CrcStep(d, 16 * g + m)
    BY <1>3, <1>4 DEF ByteOf
  <2>4. Fits(c, 16) /\ Fits(d, 16)
    BY <1>3, <1>4, <2>1
  <2>5. Fits(h, 16) /\ Fits(l, 16) /\ Fits(g, 16) /\ Fits(m, 16)
    BY <1>1, <2>1, NibblesFit DEF Addresses
  <2>6. /\ i # place => h = g /\ l = m
        /\ i = place => (h = g \/ l = m) /\ ~(h = g /\ l = m)
    <3>1. g = (IF 2 * i - 1 = at THEN nibble ELSE h) /\ m = (IF 2 * i = at THEN nibble ELSE l)
      BY <1>1, <2>1
    <3>2. (2 * i - 1 = at \/ 2 * i = at) <=> i = place
      BY <1>2
    <3>3. ~(2 * i - 1 = at /\ 2 * i = at)
      BY <2>1
    <3> QED
      BY <3>1, <3>2, <3>3
  <2> HIDE DEF c, d, h, g, l, m
  <2>7. place \in Int
    BY <1>2
  <2>8. CASE i # place
    <3>1. (crc[i] # other[i]) = (c # d)
      BY <2>3, <2>4, <2>5, <2>6, <2>8, CrcStepRemembers
    <3>2. (i >= place) = (i - 1 >= place)
      BY <2>1, <2>7, <2>8
    <3> QED
      BY <2>1, <2>2, <3>1, <3>2
  <2>9. CASE i = place
    <3>1. c = d
      BY <2>1, <2>2, <2>7, <2>9
    <3>2. crc[i] # other[i]
      BY <2>3, <2>4, <2>5, <2>6, <2>9, <3>1, CrcStepRemembers
    <3>3. i >= place
      BY <2>1, <2>9
    <3>4. (crc[i] # other[i]) = (i >= place)
      BY <3>2, <3>3
    <3> QED
      BY <2>1, <3>4
  <2> QED
    BY <2>8, <2>9
<1>7. \A i \in 0..8 : differ[i] \in U[i]
  <2> HIDE DEF U, differ
  <2> QED
    BY <1>5, <1>6, LoopStays
<1>8. crc[8] # other[8]
  BY <1>2, <1>7
<1> QED
  BY <1>3, <1>4, <1>8 DEF altered

LEMMA BufferAddressIs ==
  ASSUME NEW bytes \in Seq(Octet), buffer = bytes
  PROVE  BufferAddress \in Addresses /\ \A i \in 1..6 : BufferAddress[i] = Prefix[i]
<1> DEFINE zeros == Zeros(5)
           padded == zeros \o bytes
           byte == [i \in 1..5 |-> padded[Len(bytes) + i]]
           address == [i \in 1..16 |->
                         IF i <= 6 THEN Prefix[i]
                         ELSE IF i % 2 = 1 THEN byte[(i - 5) \div 2] \div 16
                         ELSE byte[(i - 5) \div 2] % 16]
<1>1. BufferAddress = address
  BY DEF BufferAddress
<1>2. padded \in Seq(Octet) /\ Len(padded) = 5 + Len(bytes) /\ Len(bytes) \in Nat
  <2>1. zeros \in Seq(Octet) /\ Len(zeros) = 5
    <3>1. 0 \in Octet
      BY OctetIs
    <3> QED
      BY <3>1 DEF Zeros
  <2> HIDE DEF zeros
  <2>2. padded \in Seq(Octet) /\ Len(padded) = Len(zeros) + Len(bytes)
    BY <2>1, ConcatProperties
  <2> HIDE DEF padded
  <2> QED
    BY <2>1, <2>2
<1> HIDE DEF zeros, padded
<1>3. \A i \in 1..5 : Fits(byte[i], 256)
  <2>1. \A i \in 1..5 : Len(bytes) + i \in 1..Len(padded)
    BY <1>2
  <2>2. \A i \in 1..5 : padded[Len(bytes) + i] \in Octet
    BY <1>2, <2>1, ElementOf
  <2> QED
    BY <2>2, OctetsFit
<1> HIDE DEF byte
<1>4. \A i \in 1..6 : Prefix[i] \in Nibbles
  BY DEF Prefix, Nibbles
<1>5. ASSUME NEW i \in 1..16, ~(i <= 6)
      PROVE  byte[(i - 5) \div 2] \div 16 \in Nibbles /\ byte[(i - 5) \div 2] % 16 \in Nibbles
  <2>1. (i - 5) \div 2 \in 1..5
    BY <1>5
  <2> QED
    BY <1>3, <2>1, HalvesFit, NibblesFit
<1>6. \A i \in 1..16 : address[i] \in Nibbles
  <2>1. \A i \in 1..16 : i <= 6 => i \in 1..6
    OBVIOUS
  <2> QED
    BY <1>4, <1>5, <2>1
<1>7. address \in Addresses
  BY <1>6 DEF Addresses
<1> QED
  BY <1>1, <1>7

LEMMA FirstOf ==
  ASSUME NEW n \in Nat, NEW I \in SUBSET (1..n), I # {}
  PROVE  Min(I) \in I /\ \A i \in I : Min(I) <= i
<1> DEFINE S == {k \in 1..n : \A i \in 1..k : i \notin I}
<1>1. SUFFICES ASSUME ~ \E i \in I : \A j \in I : i <= j
               PROVE  FALSE
  BY DEF Min
<1>2. n >= 1 => 1 \in S
  BY <1>1
<1>3. ASSUME NEW k \in S, k + 1 \in 1..n
      PROVE  k + 1 \in S
  <2>1. k + 1 \notin I
    BY <1>1, <1>3
  <2>2. \A i \in 1..k + 1 : i = k + 1 \/ i \in 1..k
    BY <1>3
  <2> QED
    BY <1>3, <2>1, <2>2
<1>4. S = 1..n
  <2>1. S \in SUBSET (1..n)
    OBVIOUS
  <2> HIDE DEF S
  <2> QED
    BY <1>2, <1>3, <2>1, CountingUp
<1>5. \A i \in 1..n : i \in S /\ i \in 1..i
  BY <1>4
<1>6. I = {}
  BY <1>5
<1> QED
  BY <1>6

(***************************************************************************)
(* What Display leaves out of an address are zeros.                        *)
(***************************************************************************)
LEMMA FormatIs ==
  ASSUME NEW address \in Addresses
  PROVE  LET barcode == Format(address)
             digits == barcode.digits
         IN  /\ barcode = [leading |-> address[7], digits |-> digits, check |-> BarcodeCrc(address)]
             /\ digits \in Seq(Nibbles) /\ Len(digits) \in 0..9
             /\ \A i \in 8..16 : address[i] = IF i <= 16 - Len(digits) THEN 0
                                              ELSE digits[i - (16 - Len(digits))]
<1> DEFINE rest == SubSeq(address, 8, 16)
           I == {i \in 1..Len(rest) : rest[i] # 0}
           first == IF I # {} THEN Min(I) ELSE 0
           digits == IF first = 0 THEN <<>> ELSE SubSeq(rest, first, 9)
<1>1. Format(address) = [leading |-> address[7], digits |-> digits, check |-> BarcodeCrc(address)]
  BY DEF Format, SelectInSeq
<1>2. rest \in Seq(Nibbles) /\ Len(rest) = 9 /\ \A i \in 1..9 : rest[i] = address[i + 7]
  <2>1. \A i \in 8..16 : address[i] \in Nibbles
    BY DEF Addresses
  <2>2. /\ rest \in Seq(Nibbles) /\ Len(rest) = IF 8 <= 16 THEN 16 - 8 + 1 ELSE 0
        /\ \A i \in 1..16 - 8 + 1 : rest[i] = address[8 + i - 1]
    BY <2>1, SubSeqProperties
  <2> HIDE DEF rest
  <2>3. 16 - 8 + 1 = 9
    OBVIOUS
  <2> QED
    BY <2>2, <2>3
<1> HIDE DEF rest
<1>3. \A i \in 8..16 : i - 7 \in 1..9 /\ address[i] = rest[i - 7]
  BY <1>2
<1>4. CASE I = {}
  <2>1. digits = <<>> /\ \A i \in 1..9 : rest[i] = 0
    BY <1>2, <1>4
  <2> HIDE DEF digits
  <2>2. digits \in Seq(Nibbles) /\ Len(digits) = 0
    BY <2>1
  <2>3. \A i \in 8..16 : address[i] = 0 /\ i <= 16 - Len(digits)
    BY <1>3, <2>1, <2>2
  <2> QED
    BY <1>1, <2>2, <2>3
<1>5. CASE I # {}
  <2>1. I \in SUBSET (1..9) /\ \A i \in 1..9 : rest[i] # 0 => i \in I
    BY <1>2
  <2> HIDE DEF I
  <2>2. first \in I /\ \A i \in I : first <= i
    BY <1>5, <2>1, FirstOf
  <2> HIDE DEF first
  <2>3. first \in 1..9 /\ \A i \in 1..9 : i < first => rest[i] = 0
    BY <2>1, <2>2
  <2>4. digits = SubSeq(rest, first, 9)
    BY <2>3
  <2> HIDE DEF digits
  <2>5. /\ digits \in Seq(Nibbles) /\ Len(digits) = 10 - first
        /\ \A i \in 1..10 - first : digits[i] = rest[first + i - 1]
    <3>1. \A i \in first..9 : rest[i] \in Nibbles
      <4>1. \A i \in first..9 : i \in 1..9
        BY <2>3
      <4>2. \A i \in 1..9 : rest[i] \in Nibbles
        BY <1>2, ElementOf
      <4> QED
        BY <4>1, <4>2
    <3>2. /\ digits \in Seq(Nibbles) /\ Len(digits) = IF first <= 9 THEN 9 - first + 1 ELSE 0
          /\ \A i \in 1..9 - first + 1 : digits[i] = rest[first + i - 1]
      BY <2>3, <2>4, <3>1, SubSeqProperties
    <3>3. first <= 9 /\ 9 - first + 1 = 10 - first
      BY <2>3
    <3> QED
      BY <3>2, <3>3
  <2>6. ASSUME NEW i \in 8..16
        PROVE  address[i] = IF i <= 16 - Len(digits) THEN 0 ELSE digits[i - (16 - Len(digits))]
    <3>1. 16 - Len(digits) = first + 6 /\ i \in Int /\ first \in Int
      BY <2>3, <2>5
    <3>2. CASE i <= first + 6
      <4>1. i - 7 < first
        BY <3>1, <3>2
      <4> QED
        BY <1>3, <2>3, <3>1, <3>2, <4>1
    <3>3. CASE ~(i <= first + 6)
      <4>1. i - (first + 6) \in 1..10 - first /\ first + (i - (first + 6)) - 1 = i - 7
        BY <2>3, <3>1, <3>3
      <4> QED
        BY <1>3, <2>5, <3>1, <3>3, <4>1
    <3> QED
      BY <3>2, <3>3
  <2>7. Len(digits) \in 0..9
    BY <2>3, <2>5
  <2>8. Format(address).digits = digits
    BY <1>1
  <2> QED
    BY <1>1, <2>5, <2>6, <2>7, <2>8
<1> QED
  BY <1>4, <1>5

LEMMA Or4Zero ==
  ASSUME NEW n \in Nibbles
  PROVE  Or4(n, 0) = n /\ Or4(0, n) = n
<1>1. \A a : Fits(a, 2) => Or1(a, 0) = a /\ Or1(0, a) = a
  BY DEF Fits, Or1
<1>2. 0 \div 4 = 0 /\ 0 % 4 = 0 /\ 0 \div 2 = 0 /\ 0 % 2 = 0
  OBVIOUS
<1>3. \A a : Fits(a, 4) => Or2(a, 0) = a /\ Or2(0, a) = a
  <2>1. ASSUME NEW a, Fits(a, 4)
        PROVE  Or2(a, 0) = a /\ Or2(0, a) = a
    <3>1. /\ Fits(a \div 2, 2) /\ Fits(a % 2, 2) /\ a = 2 * (a \div 2) + (a % 2)
      BY <2>1, HalvesFit
    <3> QED
      BY <1>1, <1>2, <3>1 DEF Or2
  <2> QED
    BY <2>1
<1>4. Fits(n \div 4, 4) /\ Fits(n % 4, 4) /\ n = 4 * (n \div 4) + (n % 4)
  BY NibblesFit, HalvesFit
<1> QED
  BY <1>2, <1>3, <1>4 DEF Or4

(***************************************************************************)
(* FromStr aligns the digits to the right.                                 *)
(***************************************************************************)
LEMMA AssembledIs ==
  ASSUME NEW barcode, barcode.leading \in Nibbles,
         barcode.digits \in Seq(Nibbles), Len(barcode.digits) \in 0..9
  PROVE  Assembled(barcode) =
           [i \in 1..16 |-> IF i <= 6 THEN Prefix[i] ELSE IF i = 7 THEN barcode.leading
                            ELSE IF i <= 16 - Len(barcode.digits) THEN 0
                            ELSE barcode.digits[i - (16 - Len(barcode.digits))]]
<1> DEFINE digits == barcode.digits
           skip == 16 - Len(digits)
           leading == <<barcode.leading>>
           start == Prefix \o leading
           high == start \o Zeros(9)
           rest == Zeros(skip) \o digits
<1>1. 0 \in Nibbles /\ skip \in 7..16 /\ Len(digits) = 16 - skip
  <2>1. Len(digits) \in 0..9
    OBVIOUS
  <2>2. 0 \in Nibbles
    BY DEF Nibbles
  <2>3. \A length \in 0..9 : 16 - length \in 7..16 /\ length = 16 - (16 - length)
    OBVIOUS
  <2> HIDE DEF digits
  <2>4. 16 - Len(digits) \in 7..16 /\ Len(digits) = 16 - (16 - Len(digits))
    BY <2>1, <2>3
  <2> QED
    BY <2>2, <2>4
<1>2. \A n \in Nat : Zeros(n) \in Seq(Nibbles) /\ Len(Zeros(n)) = n /\ \A i \in 1..n : Zeros(n)[i] = 0
  BY <1>1 DEF Zeros
<1>3. Assembled(barcode) = [i \in 1..16 |-> Or4(high[i], rest[i])]
  BY DEF Assembled
<1>4. leading \in Seq(Nibbles) /\ Len(leading) = 1 /\ leading[1] = barcode.leading
  OBVIOUS
<1>5. Prefix \in Seq(Nibbles) /\ Len(Prefix) = 6
  BY DEF Prefix, Nibbles
<1> HIDE DEF leading, skip, digits
<1>6. \A i \in 1..16 : high[i] = IF i <= 6 THEN Prefix[i] ELSE IF i = 7 THEN barcode.leading ELSE 0
  <2>1. /\ start \in Seq(Nibbles) /\ Len(start) = Len(Prefix) + Len(leading)
        /\ \A i \in 1..Len(Prefix) + Len(leading) :
             start[i] = IF i <= Len(Prefix) THEN Prefix[i] ELSE leading[i - Len(Prefix)]
    BY <1>4, <1>5, ConcatProperties
  <2> HIDE DEF start
  <2>2. Len(start) = 7 /\ \A i \in 1..7 : start[i] = IF i <= 6 THEN Prefix[i] ELSE barcode.leading
    BY <1>4, <1>5, <2>1
  <2> DEFINE zeros == Zeros(9)
  <2>3. zeros \in Seq(Nibbles) /\ Len(zeros) = 9 /\ \A i \in 1..9 : zeros[i] = 0
    BY <1>2
  <2> HIDE DEF zeros
  <2>4. \A i \in 1..16 : (start \o zeros)[i] = IF i <= 7 THEN start[i] ELSE zeros[i - 7]
    <3>1. start \in Seq(Nibbles) /\ zeros \in Seq(Nibbles)
      BY <2>1, <2>3
    <3>2. \A i \in 1..Len(start) + Len(zeros) :
            (start \o zeros)[i] = IF i <= Len(start) THEN start[i] ELSE zeros[i - Len(start)]
      BY <3>1, ConcatProperties
    <3>3. Len(start) = 7 /\ Len(zeros) = 9
      BY <2>2, <2>3
    <3>4. Len(start) + Len(zeros) = 16
      BY <3>3
    <3> DEFINE whole == start \o zeros
    <3> HIDE DEF whole
    <3>5. \A i \in 1..Len(start) + Len(zeros) :
            whole[i] = IF i <= Len(start) THEN start[i] ELSE zeros[i - Len(start)]
      BY <3>2 DEF whole
    <3>6. \A i \in 1..16 : whole[i] = IF i <= 7 THEN start[i] ELSE zeros[i - 7]
      BY <3>3, <3>4, <3>5
    <3> QED
      BY <3>6 DEF whole
  <2>5. high = start \o zeros
    BY DEF zeros
  <2> HIDE DEF high
  <2>6. ASSUME NEW i \in 1..16
        PROVE  high[i] = IF i <= 6 THEN Prefix[i] ELSE IF i = 7 THEN barcode.leading ELSE 0
    <3>1. high[i] = IF i <= 7 THEN start[i] ELSE zeros[i - 7]
      BY <2>4, <2>5
    <3>2. CASE i <= 7
      <4>1. i \in 1..7
        BY <3>2
      <4> QED
        BY <2>2, <3>1, <3>2, <4>1
    <3>3. CASE ~(i <= 7)
      <4>1. i - 7 \in 1..9
        BY <3>3
      <4> QED
        BY <2>3, <3>1, <3>3, <4>1
    <3> QED
      BY <3>2, <3>3
  <2> QED
    BY <2>6
<1>7. \A i \in 1..16 : rest[i] = IF i <= skip THEN 0 ELSE digits[i - skip]
  <2> DEFINE zeros == Zeros(skip)
  <2>1. zeros \in Seq(Nibbles) /\ Len(zeros) = skip /\ \A i \in 1..skip : zeros[i] = 0
    <3>1. skip \in Nat
      BY <1>1
    <3> QED
      BY <1>2, <3>1
  <2>2. digits \in Seq(Nibbles)
    BY DEF digits
  <2> HIDE DEF zeros
  <2>3. \A i \in 1..Len(zeros) + Len(digits) :
          (zeros \o digits)[i] = IF i <= Len(zeros) THEN zeros[i] ELSE digits[i - Len(zeros)]
    BY <2>1, <2>2, ConcatProperties
  <2>4. rest = zeros \o digits
    BY DEF zeros
  <2>5. skip + (16 - skip) = 16
    BY <1>1
  <2> HIDE DEF rest
  <2>6. ASSUME NEW i \in 1..16
        PROVE  rest[i] = IF i <= skip THEN 0 ELSE digits[i - skip]
    <3>1. rest[i] = IF i <= skip THEN zeros[i] ELSE digits[i - skip]
      BY <1>1, <2>1, <2>3, <2>4, <2>5
    <3>2. i <= skip => i \in 1..skip
      BY <1>1
    <3> QED
      BY <2>1, <3>1, <3>2
  <2> QED
    BY <2>6
<1> HIDE DEF high, rest
<1>8. ASSUME NEW i \in 1..16
      PROVE  Or4(high[i], rest[i]) =
               IF i <= 6 THEN Prefix[i] ELSE IF i = 7 THEN barcode.leading
               ELSE IF i <= skip THEN 0 ELSE digits[i - skip]
  <2>1. CASE i <= 7
    <3>1. high[i] = (IF i <= 6 THEN Prefix[i] ELSE barcode.leading) /\ rest[i] = 0
      <4>1. ~(i <= 6) => i = 7
        BY <2>1
      <4>2. i <= skip
        BY <1>1, <2>1
      <4>3. rest[i] = 0
        BY <1>7, <4>2
      <4> QED
        BY <1>6, <4>1, <4>3
    <3>2. high[i] \in Nibbles
      <4>1. i <= 6 => i \in 1..Len(Prefix)
        BY <1>5
      <4> QED
        BY <1>5, <2>1, <3>1, <4>1, ElementOf
    <3>3. Or4(high[i], rest[i]) = high[i]
      BY <3>1, <3>2, Or4Zero
    <3>4. ~(i <= 6) => i = 7
      BY <2>1
    <3> QED
      BY <3>1, <3>3, <3>4
  <2>2. CASE ~(i <= 7)
    <3>1. high[i] = 0 /\ rest[i] = IF i <= skip THEN 0 ELSE digits[i - skip]
      BY <1>6, <1>7, <2>2
    <3>2. rest[i] \in Nibbles
      <4>1. ~(i <= skip) => i - skip \in 1..Len(digits)
        BY <1>1 DEF digits
      <4>2. digits \in Seq(Nibbles)
        BY DEF digits
      <4> QED
        BY <1>1, <3>1, <4>1, <4>2, ElementOf
    <3>3. Or4(high[i], rest[i]) = rest[i]
      BY <3>1, <3>2, Or4Zero
    <3> QED
      BY <2>2, <3>1, <3>3
  <2> QED
    BY <2>1, <2>2
<1> QED
  BY <1>3, <1>8 DEF skip, digits

\* A barcode of an address gives the address back.
LEMMA AssembledAgain ==
  ASSUME NEW address \in Addresses, \A i \in 1..6 : address[i] = Prefix[i]
  PROVE  Assembled(Format(address)) = address
<1> DEFINE barcode == Format(address)
           digits == barcode.digits
           skip == 16 - Len(digits)
<1>1. /\ barcode = [leading |-> address[7], digits |-> digits, check |-> BarcodeCrc(address)]
      /\ digits \in Seq(Nibbles) /\ Len(digits) \in 0..9
      /\ \A i \in 8..16 : address[i] = IF i <= skip THEN 0 ELSE digits[i - skip]
  BY FormatIs
<1> HIDE DEF barcode
<1>2. address[7] \in Nibbles
  BY DEF Addresses
<1>3. barcode.leading = address[7]
  BY <1>1
<1>4. Assembled(barcode) =
        [i \in 1..16 |-> IF i <= 6 THEN Prefix[i] ELSE IF i = 7 THEN barcode.leading
                         ELSE IF i <= skip THEN 0 ELSE digits[i - skip]]
  BY <1>1, <1>2, <1>3, AssembledIs
<1> HIDE DEF digits, skip
<1>5. \A i \in 1..16 : i \in 1..6 \/ i = 7 \/ i \in 8..16
  OBVIOUS
<1>6. ASSUME NEW i \in 1..16
      PROVE  address[i] = IF i <= 6 THEN Prefix[i] ELSE IF i = 7 THEN barcode.leading
                          ELSE IF i <= skip THEN 0 ELSE digits[i - skip]
  <2>1. CASE i \in 1..6
    BY <2>1
  <2>2. CASE i = 7
    BY <1>3, <2>2
  <2>3. CASE i \in 8..16
    BY <1>1, <2>3
  <2> QED
    BY <1>5, <2>1, <2>2, <2>3
<1>7. address = [i \in 1..16 |-> address[i]]
  BY DEF Addresses
<1> QED
  BY <1>4, <1>6, <1>7 DEF barcode

\* A digit of the barcode altered is a nibble of the address altered.
LEMMA AssembledMistyped ==
  ASSUME NEW address \in Addresses, \A i \in 1..6 : address[i] = Prefix[i],
         NEW at \in 1..Len(Format(address).digits), NEW n \in Nibbles
  PROVE  LET skip == 16 - Len(Format(address).digits)
         IN  /\ Assembled([Format(address) EXCEPT !.digits[at] = n]) = [address EXCEPT ![at + skip] = n]
             /\ at + skip \in 8..16
             /\ address[at + skip] = Format(address).digits[at]
<1> DEFINE barcode == Format(address)
           digits == barcode.digits
           skip == 16 - Len(digits)
           altered == [digits EXCEPT ![at] = n]
           other == [barcode EXCEPT !.digits[at] = n]
<1>1. /\ barcode = [leading |-> address[7], digits |-> digits, check |-> BarcodeCrc(address)]
      /\ digits \in Seq(Nibbles) /\ Len(digits) \in 0..9
      /\ \A i \in 8..16 : address[i] = IF i <= skip THEN 0 ELSE digits[i - skip]
  BY FormatIs
<1> HIDE DEF barcode
<1>2. /\ other.leading = address[7] /\ other.digits = altered
  BY <1>1
<1>3. address[7] \in Nibbles
  BY DEF Addresses
<1> HIDE DEF digits
<1> HIDE DEF skip
<1>4. digits \in Seq(Nibbles) /\ Len(digits) \in 0..9
  BY <1>1
<1>5. \A i \in 8..16 : address[i] = IF i <= skip THEN 0 ELSE digits[i - skip]
  BY <1>1
<1>6. Len(digits) \in Int /\ 0 <= Len(digits) /\ Len(digits) <= 9
  <2>1. \A length \in 0..9 : length \in Int /\ 0 <= length /\ length <= 9
    OBVIOUS
  <2> QED
    BY <1>4, <2>1
<1>7. /\ altered \in Seq(Nibbles) /\ Len(altered) = Len(digits)
      /\ \A i \in 1..Len(digits) : altered[i] = IF i = at THEN n ELSE digits[i]
  <2>1. at \in 1..Len(digits)
    BY DEF digits, barcode
  <2> DEFINE V == Nibbles
  <2>2. digits \in Seq(V) /\ n \in V
    BY <1>4
  <2> HIDE DEF V
  <2>3. /\ altered \in Seq(V) /\ Len(altered) = Len(digits)
        /\ \A i \in 1..Len(digits) : altered[i] = IF i = at THEN n ELSE digits[i]
    BY <2>1, <2>2, ExceptSeq
  <2> QED
    BY <2>3 DEF V
<1> HIDE DEF altered, other
<1>8. Assembled(other) =
        [i \in 1..16 |-> IF i <= 6 THEN Prefix[i] ELSE IF i = 7 THEN address[7]
                         ELSE IF i <= skip THEN 0 ELSE altered[i - skip]]
  <2>1. other.leading \in Nibbles /\ other.digits \in Seq(Nibbles) /\ Len(other.digits) \in 0..9
    BY <1>2, <1>3, <1>7, <1>4
  <2>2. Assembled(other) =
          [i \in 1..16 |-> IF i <= 6 THEN Prefix[i] ELSE IF i = 7 THEN other.leading
                           ELSE IF i <= 16 - Len(other.digits) THEN 0
                           ELSE other.digits[i - (16 - Len(other.digits))]]
    BY <2>1, AssembledIs
  <2>3. 16 - Len(other.digits) = skip
    BY <1>2, <1>7 DEF skip
  <2> QED
    BY <1>2, <2>2, <2>3
<1>9. at + skip \in 8..16 /\ address[at + skip] = digits[at]
  <2>1. at \in Int /\ 1 <= at /\ at <= Len(digits)
    BY DEF digits, barcode
  <2>2. Len(digits) \in Int /\ Len(digits) <= 9
    BY <1>6
  <2>3. skip = 16 - Len(digits)
    BY DEF skip
  <2>4. skip \in Int /\ at + skip \in 8..16 /\ at + skip > skip /\ (at + skip) - skip = at
    <3>1. \A i, length \in Int : 1 <= i /\ i <= length /\ length <= 9 =>
            /\ 16 - length \in Int /\ i + (16 - length) \in 8..16
            /\ i + (16 - length) > 16 - length /\ (i + (16 - length)) - (16 - length) = i
      OBVIOUS
    <3> QED
      BY <2>1, <2>2, <2>3, <3>1
  <2>5. address[at + skip] = digits[(at + skip) - skip]
    <3>1. ~(at + skip <= skip)
      BY <2>1, <2>4
    <3> QED
      BY <1>5, <2>4, <3>1
  <2> QED
    BY <2>4, <2>5
<1>10. \A i \in 1..16 : i \in 1..6 \/ i = 7 \/ i \in 8..16
  OBVIOUS
<1>11. skip \in Int /\ skip = 16 - Len(digits) /\ Len(digits) \in Int
  BY <1>6 DEF skip
<1>12. at \in Int
  OBVIOUS
<1>13. ASSUME NEW i \in 1..16
       PROVE  [address EXCEPT ![at + skip] = n][i] =
                IF i <= 6 THEN Prefix[i] ELSE IF i = 7 THEN address[7]
                ELSE IF i <= skip THEN 0 ELSE altered[i - skip]
  <2>1. [address EXCEPT ![at + skip] = n][i] = IF i = at + skip THEN n ELSE address[i]
    BY DEF Addresses
  <2>2. CASE i \in 1..6
    BY <1>9, <2>1, <2>2
  <2>3. CASE i = 7
    BY <1>9, <2>1, <2>3
  <2>4. CASE i \in 8..16
    <3>1. address[i] = IF i <= skip THEN 0 ELSE digits[i - skip]
      BY <1>5, <2>4
    <3>2. CASE i <= skip
      <4>1. i # at + skip
        <5>1. at >= 1
          OBVIOUS
        <5> QED
          BY <1>11, <1>12, <3>2, <5>1
      <4> QED
        BY <2>1, <2>4, <3>1, <3>2, <4>1
    <3>3. CASE ~(i <= skip)
      <4>1. i - skip \in 1..Len(digits)
        BY <1>11, <3>3
      <4>2. i - skip = at <=> i = at + skip
        BY <1>11, <1>12
      <4>3. altered[i - skip] = IF i - skip = at THEN n ELSE digits[i - skip]
        BY <1>7, <4>1
      <4> QED
        BY <2>1, <2>4, <3>1, <3>3, <4>2, <4>3
    <3> QED
      BY <3>2, <3>3
  <2> QED
    BY <1>10, <2>2, <2>3, <2>4
<1>14. [address EXCEPT ![at + skip] = n] =
         [i \in 1..16 |-> [address EXCEPT ![at + skip] = n][i]]
  BY DEF Addresses
<1>15. Assembled(other) = [address EXCEPT ![at + skip] = n]
  BY <1>8, <1>13, <1>14
<1> QED
  BY <1>9, <1>15 DEF skip, digits, barcode, other

(***************************************************************************)
(* BarcodeIsReadBack, for every buffer: the digits that Display leaves out *)
(* are the zeros that FromStr puts in front of those it reads, and there   *)
(* are at most nine, fewer than the sixteen it reads.                      *)
(***************************************************************************)
THEOREM BarcodeCorrect == ConversionsSpec => []BarcodeIsReadBack
<1>1. buffer \in Seq(Byte) => BarcodeIsReadBack
  <2> SUFFICES ASSUME buffer \in Seq(Byte)
               PROVE  BarcodeIsReadBack
    OBVIOUS
  <2>1. buffer \in Seq(Octet)
    BY BytesAreOctets
  <2> DEFINE address == BufferAddress
  <2>2. address \in Addresses /\ \A i \in 1..6 : address[i] = Prefix[i]
    BY <2>1, BufferAddressIs
  <2> HIDE DEF address
  <2> DEFINE barcode == Format(address)
  <2>3. barcode.check = BarcodeCrc(address) /\ Len(barcode.digits) \in 0..9
    <3>1. /\ barcode = [leading |-> address[7], digits |-> barcode.digits,
                        check |-> BarcodeCrc(address)]
          /\ Len(barcode.digits) \in 0..9
      BY <2>2, FormatIs
    <3> HIDE DEF barcode
    <3> QED
      BY <3>1
  <2>4. Assembled(barcode) = address
    BY <2>2, AssembledAgain
  <2> HIDE DEF barcode
  <2>5. Len(barcode.digits) \in 2..16 <=> Len(barcode.digits) >= 2
    <3>1. \A length \in 0..9 : length \in 2..16 <=> length >= 2
      OBVIOUS
    <3> QED
      BY <2>3, <3>1
  <2>6. Parse(barcode) = IF Len(barcode.digits) >= 2 THEN address ELSE Invalid
    BY <2>3, <2>4, <2>5 DEF Parse
  <2> QED
    BY <2>6 DEF BarcodeIsReadBack, barcode, address
<1> QED
  BY <1>1, BufferIsOfBytes, PTL

(***************************************************************************)
(* MistypedDigitIsNoticed, for every buffer: the address with a nibble     *)
(* altered has another checksum than the letter says.                      *)
(***************************************************************************)
THEOREM MistypedDigitCorrect == ConversionsSpec => []MistypedDigitIsNoticed
<1>1. ASSUME NEW address \in Addresses, \A i \in 1..6 : address[i] = Prefix[i],
             NEW at \in 1..Len(Format(address).digits),
             NEW n \in Nibbles, n # Format(address).digits[at]
      PROVE  Parse([Format(address) EXCEPT !.digits[at] = n]) = Invalid
  <2> DEFINE barcode == Format(address)
             other == [barcode EXCEPT !.digits[at] = n]
             skip == 16 - Len(barcode.digits)
  <2>1. /\ Assembled(other) = [address EXCEPT ![at + skip] = n]
        /\ at + skip \in 8..16
        /\ address[at + skip] = barcode.digits[at]
    BY <1>1, AssembledMistyped
  <2>2. barcode = [leading |-> address[7], digits |-> barcode.digits, check |-> BarcodeCrc(address)]
    BY FormatIs
  <2>3. n # barcode.digits[at]
    BY <1>1
  <2> HIDE DEF barcode
  <2>4. other.check = BarcodeCrc(address)
    BY <2>2
  <2> HIDE DEF other, skip
  <2>5. at + skip \in 1..16
    BY <2>1
  <2>6. BarcodeCrc([address EXCEPT ![at + skip] = n]) # BarcodeCrc(address)
    BY <2>1, <2>3, <2>5, AlteredNibble
  <2>7. Parse(other) = Invalid
    BY <2>1, <2>4, <2>6 DEF Parse
  <2> QED
    BY <2>7 DEF other, barcode
<1>2. buffer \in Seq(Byte) => MistypedDigitIsNoticed
  <2> SUFFICES ASSUME buffer \in Seq(Byte)
               PROVE  MistypedDigitIsNoticed
    OBVIOUS
  <2>1. buffer \in Seq(Octet)
    BY BytesAreOctets
  <2> DEFINE address == BufferAddress
  <2>2. address \in Addresses /\ \A i \in 1..6 : address[i] = Prefix[i]
    BY <2>1, BufferAddressIs
  <2> HIDE DEF address
  <2>3. 0..15 = Nibbles
    BY DEF Nibbles
  <2>4. \A at \in 1..Len(Format(address).digits) : \A n \in Nibbles \ {Format(address).digits[at]} :
          Parse([Format(address) EXCEPT !.digits[at] = n]) = Invalid
    BY <1>1, <2>2
  <2>5. \A at \in 1..Len(Format(address).digits) : \A n \in 0..15 \ {Format(address).digits[at]} :
          Parse([Format(address) EXCEPT !.digits[at] = n]) = Invalid
    BY <2>3, <2>4
  <2> QED
    BY <2>5 DEF MistypedDigitIsNoticed, address
<1> QED
  BY <1>2, BufferIsOfBytes, PTL
-----------------------------------------------------------------------------
(***************************************************************************)
(* Captures.  What is written is records of bytes, at times in whole       *)
(* milliseconds.                                                           *)
(***************************************************************************)
Stamped == {TimeOf(stamp) : stamp \in Nat}
Written == [data : Seq(Octet), time : Stamped]

RecordOf(r) == Record(r.data, r.time)

LEMMA RecordIs ==
  ASSUME NEW r \in Written
  PROVE  /\ r.data \in Seq(Octet) /\ Len(r.data) \in Nat /\ Stamp(r.time) \in Nat
         /\ TimeOf(Stamp(r.time)) = r.time
         /\ RecordOf(r) \in Seq(Nat) /\ Len(RecordOf(r)) = 2 + Len(r.data)
         /\ RecordOf(r)[1] = Len(r.data) /\ RecordOf(r)[2] = Stamp(r.time)
         /\ \A j \in 1..Len(r.data) : RecordOf(r)[2 + j] = r.data[j]
<1> DEFINE data == r.data
           head == <<Len(data), Stamp(r.time)>>
<1>1. data \in Seq(Octet) /\ r.time \in Stamped
  BY DEF Written
<1>2. Stamp(r.time) \in Nat /\ TimeOf(Stamp(r.time)) = r.time
  <2>1. PICK stamp \in Nat : r.time = TimeOf(stamp)
    BY <1>1 DEF Stamped
  <2>2. Millisecond \in Nat \ {0}
    BY CaptureConstants
  <2>3. (stamp * Millisecond) \div Millisecond = stamp
    BY <2>2
  <2>4. Stamp(r.time) = stamp
    BY <2>1, <2>3 DEF Stamp, TimeOf
  <2> QED
    BY <2>1, <2>4
<1>3. data \in Seq(Nat) /\ Len(data) \in Nat
  <2> DEFINE Numbers == Nat
  <2>1. Octet \subseteq Numbers
    BY DEF Octet
  <2> HIDE DEF data, Numbers
  <2>2. data \in Seq(Numbers)
    BY <1>1, <2>1, SeqMonotonic
  <2>3. Len(data) \in Nat
    BY <2>2, LenProperties
  <2> QED
    BY <2>2, <2>3 DEF Numbers
<1>4. RecordOf(r) = head \o data
  BY DEF RecordOf, Record
<1> HIDE DEF data
<1>5. head \in Seq(Nat) /\ Len(head) = 2 /\ head[1] = Len(data) /\ head[2] = Stamp(r.time)
  BY <1>2, <1>3
<1> HIDE DEF head
<1> DEFINE all == head \o data
<1>6. /\ all \in Seq(Nat) /\ Len(all) = Len(head) + Len(data)
      /\ \A i \in 1..Len(head) + Len(data) :
           all[i] = IF i <= Len(head) THEN head[i] ELSE data[i - Len(head)]
  BY <1>3, <1>5, ConcatProperties
<1> HIDE DEF all
<1>7. Len(all) = 2 + Len(data) /\ \A i \in 1..2 + Len(data) : all[i] = IF i <= 2 THEN head[i] ELSE data[i - 2]
  BY <1>5, <1>6
<1>8. all[1] = head[1] /\ all[2] = head[2]
  <2>1. 1 \in 1..2 + Len(data) /\ 2 \in 1..2 + Len(data)
    BY <1>3
  <2> QED
    BY <1>7, <2>1
<1>9. ASSUME NEW j \in 1..Len(data)
      PROVE  all[2 + j] = data[j]
  <2>1. 2 + j \in 1..2 + Len(data) /\ ~(2 + j <= 2) /\ (2 + j) - 2 = j
    BY <1>3
  <2> QED
    BY <1>7, <2>1
<1> QED
  BY <1>1, <1>2, <1>3, <1>4, <1>5, <1>6, <1>7, <1>8, <1>9 DEF all, data

\* A record more is the capture with the record, and the data with its own, behind.
LEMMA OneMoreRecord ==
  ASSUME NEW w \in Seq(Written), NEW r \in Written
  PROVE  /\ CaptureOf(w) \in Seq(Nat) /\ DataOf(w) \in Seq(Octet)
         /\ CaptureOf(Append(w, r)) = CaptureOf(w) \o RecordOf(r)
         /\ DataOf(Append(w, r)) = DataOf(w) \o r.data
<1> DEFINE n == Len(w)
           more == Append(w, r)
<1>1. /\ more \in Seq(Written) /\ Len(more) = n + 1 /\ n \in Nat
      /\ \A k \in 1..n : more[k] = w[k]
      /\ more[n + 1] = r
  BY AppendProperties
<1>2. \A k \in 1..n : w[k] \in Written
  BY ElementOf
<1> HIDE DEF more, n
<1>3. ASSUME NEW W, NEW f \in [Written -> Seq(W)]
      PROVE  /\ [k \in 1..n |-> f[w[k]]] \in Seq(Seq(W))
             /\ [k \in 1..n + 1 |-> f[more[k]]] = Append([k \in 1..n |-> f[w[k]]], f[r])
             /\ f[r] \in Seq(W)
  <2> DEFINE V == Seq(W)
             s == [k \in 1..n |-> f[w[k]]]
             t == [k \in 1..n + 1 |-> f[more[k]]]
  <2>1. f \in [Written -> V]
    BY <1>3
  <2> HIDE DEF V
  <2>2. s \in Seq(V) /\ Len(s) = n /\ f[r] \in V
    BY <1>1, <1>2, <2>1
  <2>3. t \in Seq(V) /\ Len(t) = n + 1
    <3>1. \A k \in 1..n + 1 : f[more[k]] \in V
      BY <1>1, <2>1, ElementOf
    <3>2. n + 1 \in Nat
      BY <1>1
    <3> QED
      BY <3>1, <3>2
  <2> DEFINE a == Append(s, f[r])
  <2>4. /\ a \in Seq(V) /\ Len(a) = n + 1 /\ a[n + 1] = f[r] /\ \A k \in 1..n : a[k] = s[k]
    <3> HIDE DEF s
    <3> QED
      BY <2>2, AppendProperties
  <2>5. \A k \in 1..n : s[k] = f[w[k]]
    OBVIOUS
  <2>6. \A k \in 1..n + 1 : t[k] = f[more[k]]
    OBVIOUS
  <2> HIDE DEF s, t, a
  <2>7. ASSUME NEW k \in 1..n + 1
        PROVE  t[k] = a[k]
    <3>1. k = n + 1 \/ k \in 1..n
      BY <1>1
    <3>2. CASE k = n + 1
      BY <1>1, <2>4, <2>6, <3>2
    <3>3. CASE k \in 1..n
      BY <1>1, <2>4, <2>5, <2>6, <3>3
    <3> QED
      BY <3>1, <3>2, <3>3
  <2>8. t = a
    BY <2>3, <2>4, <2>7, SeqEqual
  <2> QED
    BY <2>2, <2>8 DEF s, t, a, V
<1> DEFINE f == [x \in Written |-> RecordOf(x)]
           g == [x \in Written |-> x.data]
<1>4. f \in [Written -> Seq(Nat)] /\ g \in [Written -> Seq(Octet)]
  BY RecordIs
<1>5. /\ [k \in 1..n |-> RecordOf(w[k])] = [k \in 1..n |-> f[w[k]]]
      /\ [k \in 1..n |-> w[k].data] = [k \in 1..n |-> g[w[k]]]
  BY <1>2
<1>6. \A k \in 1..n + 1 : more[k] \in Written
  BY <1>1, ElementOf
<1>7. /\ [k \in 1..n + 1 |-> RecordOf(more[k])] = [k \in 1..n + 1 |-> f[more[k]]]
      /\ [k \in 1..n + 1 |-> more[k].data] = [k \in 1..n + 1 |-> g[more[k]]]
  BY <1>6
<1>8. f[r] = RecordOf(r) /\ g[r] = r.data
  OBVIOUS
<1> HIDE DEF f, g
<1> DEFINE s == [k \in 1..n |-> RecordOf(w[k])]
           t == [k \in 1..n |-> w[k].data]
<1>9. /\ s \in Seq(Seq(Nat)) /\ RecordOf(r) \in Seq(Nat)
      /\ [k \in 1..n + 1 |-> RecordOf(more[k])] = Append(s, RecordOf(r))
  <2>1. /\ [k \in 1..n |-> f[w[k]]] \in Seq(Seq(Nat))
        /\ [k \in 1..n + 1 |-> f[more[k]]] = Append([k \in 1..n |-> f[w[k]]], f[r])
        /\ f[r] \in Seq(Nat)
    BY <1>3, <1>4
  <2>2. s = [k \in 1..n |-> f[w[k]]]
    BY <1>5
  <2> HIDE DEF s
  <2> QED
    BY <1>7, <1>8, <2>1, <2>2
<1>10. /\ t \in Seq(Seq(Octet)) /\ r.data \in Seq(Octet)
       /\ [k \in 1..n + 1 |-> more[k].data] = Append(t, r.data)
  <2>1. /\ [k \in 1..n |-> g[w[k]]] \in Seq(Seq(Octet))
        /\ [k \in 1..n + 1 |-> g[more[k]]] = Append([k \in 1..n |-> g[w[k]]], g[r])
        /\ g[r] \in Seq(Octet)
    BY <1>3, <1>4
  <2>2. t = [k \in 1..n |-> g[w[k]]]
    BY <1>5
  <2> HIDE DEF t
  <2> QED
    BY <1>7, <1>8, <2>1, <2>2
<1>11. CaptureOf(w) = FlattenSeq(s) /\ DataOf(w) = FlattenSeq(t)
  BY DEF CaptureOf, DataOf, RecordOf, n
<1>12. /\ CaptureOf(more) = FlattenSeq([k \in 1..n + 1 |-> RecordOf(more[k])])
       /\ DataOf(more) = FlattenSeq([k \in 1..n + 1 |-> more[k].data])
  BY <1>1 DEF CaptureOf, DataOf, RecordOf
<1> HIDE DEF s, t
<1>13. FlattenSeq(s) \in Seq(Nat) /\ FlattenSeq(Append(s, RecordOf(r))) = FlattenSeq(s) \o RecordOf(r)
  BY <1>9, FlattenAppend
<1>14. FlattenSeq(t) \in Seq(Octet) /\ FlattenSeq(Append(t, r.data)) = FlattenSeq(t) \o r.data
  BY <1>10, FlattenAppend
<1> QED
  BY <1>9, <1>10, <1>11, <1>12, <1>13, <1>14 DEF more

LEMMA NoRecords == CaptureOf(<<>>) = <<>> /\ DataOf(<<>>) = <<>>
<1>1. \A f : Len(<<>>) = 0
  OBVIOUS
<1>2. [k \in 1..Len(<<>>) |-> RecordOf((<<>>)[k])] = <<>> /\ [k \in 1..Len(<<>>) |-> (<<>>)[k].data] = <<>>
  OBVIOUS
<1> QED
  BY <1>2, FlattenNone DEF CaptureOf, DataOf, RecordOf

\* The first records of some, one by one.
LEMMA FirstRecords ==
  ASSUME NEW w \in Seq(Written), NEW k \in 0..Len(w)
  PROVE  /\ SubSeq(w, 1, k) \in Seq(Written) /\ Len(SubSeq(w, 1, k)) = k
         /\ \A i \in 1..k : SubSeq(w, 1, k)[i] = w[i]
         /\ k < Len(w) =>
              /\ w[k + 1] \in Written
              /\ SubSeq(w, 1, k + 1) = Append(SubSeq(w, 1, k), w[k + 1])
              /\ CaptureOf(SubSeq(w, 1, k + 1)) = CaptureOf(SubSeq(w, 1, k)) \o RecordOf(w[k + 1])
              /\ Len(CaptureOf(SubSeq(w, 1, k + 1))) =
                   Len(CaptureOf(SubSeq(w, 1, k))) + 2 + Len(w[k + 1].data)
<1> DEFINE n == Len(w)
           some == SubSeq(w, 1, k)
<1>1. n \in Nat /\ k \in Nat /\ k <= n
  OBVIOUS
<1>2. ASSUME NEW m \in 0..n
      PROVE  /\ SubSeq(w, 1, m) \in Seq(Written) /\ Len(SubSeq(w, 1, m)) = m
             /\ \A i \in 1..m : SubSeq(w, 1, m)[i] = w[i]
  <2>1. \A i \in 1..m : w[i] \in Written
    <3>1. \A i \in 1..m : i \in 1..Len(w)
      OBVIOUS
    <3> QED
      BY <3>1, ElementOf
  <2> DEFINE u == SubSeq(w, 1, m)
  <2>2. /\ u \in Seq(Written) /\ Len(u) = IF 1 <= m THEN m - 1 + 1 ELSE 0
        /\ \A i \in 1..m - 1 + 1 : u[i] = w[1 + i - 1]
    BY <2>1, SubSeqProperties
  <2> HIDE DEF u
  <2>3. Len(u) = m /\ \A i \in 1..m : u[i] = w[i]
    BY <2>2
  <2> QED
    BY <2>2, <2>3 DEF u
<1>3. some \in Seq(Written) /\ Len(some) = k /\ \A i \in 1..k : some[i] = w[i]
  BY <1>2
<1>4. ASSUME k < n
      PROVE  /\ w[k + 1] \in Written
             /\ SubSeq(w, 1, k + 1) = Append(some, w[k + 1])
             /\ CaptureOf(SubSeq(w, 1, k + 1)) = CaptureOf(some) \o RecordOf(w[k + 1])
             /\ Len(CaptureOf(SubSeq(w, 1, k + 1))) = Len(CaptureOf(some)) + 2 + Len(w[k + 1].data)
  <2> DEFINE r == w[k + 1]
             u == SubSeq(w, 1, k + 1)
             more == Append(some, r)
  <2>1. k + 1 \in 0..n /\ k + 1 \in 1..Len(w)
    BY <1>1, <1>4
  <2>2. r \in Written
    BY <2>1, ElementOf
  <2>3. u \in Seq(Written) /\ Len(u) = k + 1 /\ \A i \in 1..k + 1 : u[i] = w[i]
    BY <1>2, <2>1
  <2> HIDE DEF some, r
  <2>4. /\ more \in Seq(Written) /\ Len(more) = k + 1 /\ more[k + 1] = r
        /\ \A i \in 1..k : more[i] = some[i]
    BY <1>3, <2>2, AppendProperties
  <2> HIDE DEF u, more
  <2>5. ASSUME NEW i \in 1..k + 1
        PROVE  u[i] = more[i]
    <3>1. i = k + 1 \/ i \in 1..k
      BY <1>1
    <3> QED
      BY <1>3, <2>3, <2>4, <3>1 DEF r
  <2>6. u = more
    BY <2>3, <2>4, <2>5, SeqEqual
  <2>7. CaptureOf(more) = CaptureOf(some) \o RecordOf(r) /\ CaptureOf(some) \in Seq(Nat)
    BY <1>3, <2>2, OneMoreRecord DEF more
  <2>8. RecordOf(r) \in Seq(Nat) /\ Len(RecordOf(r)) = 2 + Len(r.data) /\ Len(r.data) \in Nat
    BY <2>2, RecordIs
  <2>9. Len(CaptureOf(some) \o RecordOf(r)) = Len(CaptureOf(some)) + Len(RecordOf(r))
    BY <2>7, <2>8, ConcatProperties
  <2>10. Len(CaptureOf(some)) \in Nat
    BY <2>7, LenProperties
  <2>11. Len(CaptureOf(u)) = Len(CaptureOf(some)) + 2 + Len(r.data)
    <3>1. Len(CaptureOf(u)) = Len(CaptureOf(some)) + Len(RecordOf(r))
      BY <2>6, <2>7, <2>9
    <3>2. \A a, b \in Nat : a + (2 + b) = a + 2 + b
      OBVIOUS
    <3> QED
      BY <2>8, <2>10, <3>1, <3>2
  <2> QED
    BY <2>2, <2>6, <2>7, <2>11 DEF u, r, more
<1> QED
  BY <1>3, <1>4

\* The capture begins with that of its first records.
LEMMA CaptureBegins ==
  ASSUME NEW w \in Seq(Written), NEW k \in 0..Len(w)
  PROVE  /\ CaptureOf(w) \in Seq(Nat) /\ CaptureOf(SubSeq(w, 1, k)) \in Seq(Nat)
         /\ Begins(CaptureOf(w), CaptureOf(SubSeq(w, 1, k)))
<1> DEFINE n == Len(w)
           part == [i \in 0..n |-> CaptureOf(SubSeq(w, 1, i))]
           all == CaptureOf(w)
<1>1. n \in Nat /\ k \in Nat /\ k <= n
  OBVIOUS
<1>2. \A i \in 0..n : part[i] \in Seq(Nat)
  <2>1. ASSUME NEW i \in 0..n
        PROVE  part[i] \in Seq(Nat)
    <3>1. SubSeq(w, 1, i) \in Seq(Written)
      BY FirstRecords
    <3>2. PICK r : r \in Written
      <4> DEFINE r == [data |-> <<>>, time |-> TimeOf(0)]
      <4>1. <<>> \in Seq(Octet) /\ TimeOf(0) \in Stamped
        BY DEF Stamped
      <4>2. r \in Written
        BY <4>1 DEF Written
      <4> QED
        BY <4>2
    <3>3. CaptureOf(SubSeq(w, 1, i)) \in Seq(Nat)
      BY <3>1, <3>2, OneMoreRecord
    <3> QED
      BY <3>3
  <2> QED
    BY <2>1
<1>3. part[n] = all
  <2>1. SubSeq(w, 1, n) = w
    BY SubSeqFull
  <2>2. n \in 0..n
    BY <1>1
  <2>3. part[n] = CaptureOf(SubSeq(w, 1, n))
    <3> HIDE DEF n
    <3> QED
      BY <2>2
  <2> QED
    BY <2>1, <2>3
<1>4. ASSUME NEW i \in 0..n, i < n
      PROVE  Begins(part[i + 1], part[i])
  <2>1. i + 1 \in 0..n /\ i + 1 \in 1..Len(w)
    BY <1>1, <1>4
  <2>2. part[i + 1] = part[i] \o RecordOf(w[i + 1]) /\ w[i + 1] \in Written
    BY <1>4, <2>1, FirstRecords
  <2>3. RecordOf(w[i + 1]) \in Seq(Nat) /\ part[i] \in Seq(Nat)
    BY <1>2, <2>2, RecordIs
  <2>4. Begins(part[i], part[i])
    BY <2>3 DEF Begins
  <2> HIDE DEF part
  <2> QED
    BY <2>2, <2>3, <2>4, BeginsAppended
<1> HIDE DEF part, all
<1> DEFINE begins == [j \in 0..n |-> Begins(all, part[n - j])]
           U == [j \in 0..n |-> {TRUE}]
<1>5. begins[0] \in U[0]
  <2>1. all \in Seq(Nat)
    BY <1>1, <1>2, <1>3
  <2>2. Begins(all, all)
    BY <2>1 DEF Begins
  <2>3. n - 0 = n /\ 0 \in 0..n
    BY <1>1
  <2> QED
    BY <1>3, <2>2, <2>3
<1>6. ASSUME NEW j \in 1..n, begins[j - 1] \in U[j - 1]
      PROVE  begins[j] \in U[j]
  <2>1. /\ j - 1 \in 0..n /\ j \in 0..n /\ n - j \in 0..n /\ n - j < n
        /\ (n - j) + 1 = n - (j - 1) /\ n - (j - 1) \in 0..n
    BY <1>1
  <2>2. Begins(all, part[n - (j - 1)])
    BY <1>6, <2>1
  <2>3. Begins(part[(n - j) + 1], part[n - j])
    BY <1>4, <2>1
  <2>4. all \in Seq(Nat) /\ part[n - (j - 1)] \in Seq(Nat) /\ part[n - j] \in Seq(Nat)
    BY <1>1, <1>2, <1>3, <2>1
  <2>5. Begins(part[n - (j - 1)], part[n - j])
    BY <2>1, <2>3
  <2>6. Begins(all, part[n - j])
    BY <2>2, <2>4, <2>5, BeginsTransitive
  <2> QED
    BY <2>1, <2>6
<1> HIDE DEF n
<1>7. \A j \in 0..n : begins[j] \in U[j]
  <2> HIDE DEF begins, U
  <2> QED
    BY <1>1, <1>5, <1>6, LoopStays
<1>8. n - k \in 0..n /\ n - (n - k) = k /\ k \in 0..n /\ n \in 0..n
  BY <1>1
<1>9. Begins(all, part[k])
  BY <1>7, <1>8
<1> QED
  BY <1>2, <1>3, <1>8, <1>9 DEF part, all, n

(***************************************************************************)
(* What write makes of the bytes are records like those in front of it.    *)
(***************************************************************************)
IsWritten(r, time) ==
  Len(r.data) <= MaxData /\ r.time <= time /\ time < r.time + Millisecond

\* The records w are those of v and others written at a time.
Adds(w, v, time) ==
  /\ w \in Seq(Written) /\ Len(v) <= Len(w)
  /\ \A k \in 1..Len(v) : w[k] = v[k]
  /\ \A k \in 1..Len(w) : k > Len(v) => IsWritten(w[k], time)

LEMMA OneMoreAdded ==
  ASSUME NEW v \in Seq(Written), NEW time, NEW w, Adds(w, v, time),
         NEW r \in Written, IsWritten(r, time)
  PROVE  Adds(Append(w, r), v, time)
<1> DEFINE more == Append(w, r)
<1>1. /\ w \in Seq(Written) /\ Len(v) <= Len(w)
      /\ \A k \in 1..Len(v) : w[k] = v[k]
      /\ \A k \in 1..Len(w) : k > Len(v) => IsWritten(w[k], time)
  BY DEF Adds
<1>2. /\ more \in Seq(Written) /\ Len(more) = Len(w) + 1 /\ more[Len(w) + 1] = r
      /\ \A k \in 1..Len(w) : more[k] = w[k]
  BY <1>1, AppendProperties
<1>3. Len(w) \in Nat /\ Len(v) \in Nat
  BY <1>1
<1> HIDE DEF more
<1>4. Len(v) <= Len(more) /\ \A k \in 1..Len(v) : more[k] = v[k]
  BY <1>1, <1>2, <1>3
<1>5. ASSUME NEW k \in 1..Len(more), k > Len(v)
      PROVE  IsWritten(more[k], time)
  <2>1. k = Len(w) + 1 \/ k \in 1..Len(w)
    BY <1>2, <1>3
  <2>2. CASE k = Len(w) + 1
    BY <1>2, <2>2
  <2>3. CASE k \in 1..Len(w)
    BY <1>1, <1>2, <1>5, <2>3
  <2> QED
    BY <2>1, <2>2, <2>3
<1> QED
  BY <1>2, <1>4, <1>5 DEF Adds, more

\* Data written at a time are a record of the millisecond it is in.
LEMMA RecordAt ==
  ASSUME NEW data \in Seq(Octet), Len(data) <= MaxData, NEW time \in Nat
  PROVE  \E r \in Written : r.data = data /\ IsWritten(r, time) /\ RecordOf(r) = Record(data, time)
<1> DEFINE stamp == Stamp(time)
           r == [data |-> data, time |-> TimeOf(stamp)]
<1>1. Millisecond \in Nat \ {0}
  BY CaptureConstants
<1>2. stamp \in Nat /\ stamp * Millisecond <= time /\ time < stamp * Millisecond + Millisecond
  BY <1>1 DEF Stamp
<1> HIDE DEF stamp
<1>3. r \in Written /\ IsWritten(r, time)
  <2>1. r.time \in Stamped
    BY <1>2 DEF Stamped
  <2> QED
    BY <1>2, <2>1 DEF Written, IsWritten, TimeOf
<1>4. r.data = data /\ r.time = TimeOf(stamp)
  OBVIOUS
<1> HIDE DEF r
<1>5. (stamp * Millisecond) \div Millisecond = stamp
  BY <1>1, <1>2
<1>6. Stamp(r.time) = Stamp(time)
  BY <1>4, <1>5 DEF Stamp, TimeOf, stamp
<1>7. RecordOf(r) = Record(data, time)
  BY <1>4, <1>6 DEF RecordOf, Record
<1> QED
  BY <1>3, <1>4, <1>7

WritingStates == [capture : Seq(Nat), left : Seq(Octet)]

\* What is cut off the front of the data.
LEMMA Pieces ==
  ASSUME NEW bytes \in Seq(Octet), NEW m \in 0..Len(bytes)
  PROVE  /\ SubSeq(bytes, 1, m) \in Seq(Octet) /\ Len(SubSeq(bytes, 1, m)) = m
         /\ SubSeq(bytes, m + 1, Len(bytes)) \in Seq(Octet)
         /\ Len(SubSeq(bytes, m + 1, Len(bytes))) = Len(bytes) - m
         /\ SubSeq(bytes, 1, m) \o SubSeq(bytes, m + 1, Len(bytes)) = bytes
<1> DEFINE n == Len(bytes)
<1>1. n \in Nat /\ m \in Nat /\ m <= n
  OBVIOUS
<1>2. \A i \in 1..n : bytes[i] \in Octet
  BY ElementOf
<1>3. SubSeq(bytes, 1, n) = bytes
  BY SubSeqFull
<1>4. 1 \in 1..n + 1 /\ m \in 1 - 1..n /\ n \in m..n
  BY <1>1
<1>5. SubSeq(bytes, 1, m) \o SubSeq(bytes, m + 1, n) = SubSeq(bytes, 1, n)
  BY <1>4, ConcatAdjacentSubSeq
<1> HIDE DEF n
<1>6. (\A i \in 1..m : bytes[i] \in Octet) /\ (\A i \in m + 1..n : bytes[i] \in Octet)
  BY <1>1, <1>2
<1>7. /\ SubSeq(bytes, 1, m) \in Seq(Octet)
      /\ Len(SubSeq(bytes, 1, m)) = IF 1 <= m THEN m - 1 + 1 ELSE 0
  BY <1>1, <1>6, SubSeqProperties
<1>8. m + 1 \in Int /\ n \in Int
  BY <1>1
<1>9. /\ SubSeq(bytes, m + 1, n) \in Seq(Octet)
      /\ Len(SubSeq(bytes, m + 1, n)) = IF m + 1 <= n THEN n - (m + 1) + 1 ELSE 0
  BY <1>6, <1>8, SubSeqProperties
<1>10. (IF 1 <= m THEN m - 1 + 1 ELSE 0) = m /\ (IF m + 1 <= n THEN n - (m + 1) + 1 ELSE 0) = n - m
  BY <1>1
<1> QED
  <2>1. Len(SubSeq(bytes, 1, m)) = m
    BY <1>7, <1>10
  <2>2. Len(SubSeq(bytes, m + 1, n)) = n - m
    BY <1>9, <1>10
  <2>3. SubSeq(bytes, 1, m) \o SubSeq(bytes, m + 1, n) = bytes
    BY <1>3, <1>5
  <2> QED
    BY <1>7, <1>9, <2>1, <2>2, <2>3 DEF n

LEMMA SplitStays ==
  ASSUME NEW p \in WritingStates, NEW time \in Nat
  PROVE  Split(p, time) \in WritingStates
<1>1. p.capture \in Seq(Nat) /\ p.left \in Seq(Octet)
  BY DEF WritingStates
<1>2. CASE ~(Len(p.left) > MaxData)
  BY <1>2 DEF Split
<1>3. CASE Len(p.left) > MaxData
  <2> DEFINE data == SubSeq(p.left, 1, MaxData)
             left == SubSeq(p.left, MaxData + 1, Len(p.left))
             capture == p.capture \o Record(data, time)
  <2>1. Split(p, time) = [capture |-> capture, left |-> left]
    BY <1>3 DEF Split
  <2>2. MaxData \in 0..Len(p.left)
    BY <1>1, <1>3, CaptureConstants
  <2>3. data \in Seq(Octet) /\ Len(data) = MaxData /\ left \in Seq(Octet)
    BY <1>1, <2>2, Pieces
  <2> HIDE DEF data, left
  <2>4. PICK r \in Written : RecordOf(r) = Record(data, time)
    <3>1. Len(data) <= MaxData
      BY <2>3, CaptureConstants
    <3> QED
      BY <2>3, <3>1, RecordAt
  <2>5. Record(data, time) \in Seq(Nat)
    BY <2>4, RecordIs
  <2>6. capture \in Seq(Nat)
    BY <1>1, <2>5, ConcatProperties
  <2> QED
    BY <2>1, <2>3, <2>6 DEF WritingStates
<1> QED
  BY <1>2, <1>3

LEMMA WriteLoop ==
  ASSUME NEW bytes \in Seq(Octet), NEW time \in Nat
  PROVE  \E after : /\ Write(bytes, time) = after[Len(bytes)].capture
                                            \o Record(after[Len(bytes)].left, time)
                    /\ after[0] = [capture |-> <<>>, left |-> bytes]
                    /\ \A n \in 1..Len(bytes) : after[n] = Split(after[n - 1], time)
<1> DEFINE first == [capture |-> <<>>, left |-> bytes]
           Turns(f) == [n \in 0..Len(bytes) |-> IF n = 0 THEN first ELSE Split(f[n - 1], time)]
           next == [n \in 1..Len(bytes) |-> [p \in WritingStates |-> Split(p, time)]]
           after == CHOOSE f : f = Turns(f)
<1>1. first \in WritingStates
  BY DEF WritingStates
<1>2. next \in [1..Len(bytes) -> [WritingStates -> WritingStates]]
  BY SplitStays
<1>3. Len(bytes) \in Nat
  OBVIOUS
<1>4. PICK f : IsLoop(f, Len(bytes), WritingStates, first, next)
  <2> HIDE DEF first, next
  <2> QED
    BY <1>1, <1>2, <1>3, LoopExists
<1>5. /\ f \in [0..Len(bytes) -> WritingStates] /\ f[0] = first
      /\ \A n \in 1..Len(bytes) : f[n] = next[n][f[n - 1]]
  BY <1>4 DEF IsLoop
<1>6. ASSUME NEW n \in 1..Len(bytes)
      PROVE  f[n] = Split(f[n - 1], time)
  <2>1. n - 1 \in 0..Len(bytes)
    BY <1>3
  <2>2. f[n - 1] \in WritingStates
    BY <1>5, <2>1
  <2>3. next[n][f[n - 1]] = Split(f[n - 1], time)
    BY <2>2
  <2> QED
    BY <1>5, <2>3
<1>7. f = Turns(f)
  <2> HIDE DEF first, next
  <2> QED
    BY <1>3, <1>5, <1>6
<1>8. after = Turns(after)
  <2> HIDE DEF Turns
  <2> QED
    BY <1>7
<1>9. Write(bytes, time) = after[Len(bytes)].capture \o Record(after[Len(bytes)].left, time)
  BY DEF Write
<1>10. after[0] = first /\ \A n \in 1..Len(bytes) : after[n] = Split(after[n - 1], time)
  <2> HIDE DEF after, first
  <2> QED
    BY <1>3, <1>8
<1> QED
  BY <1>9, <1>10

\* After n turns: a turn takes something off what does not fit into one record.
HasWritten(p, n, v, bytes, time) ==
  /\ p \in WritingStates
  /\ Len(p.left) <= MaxData \/ Len(p.left) + n <= Len(bytes)
  /\ \E w : /\ Adds(w, v, time)
            /\ CaptureOf(w) = CaptureOf(v) \o p.capture
            /\ DataOf(w) \o p.left = DataOf(v) \o bytes

LEMMA ThreeOctets ==
  ASSUME NEW s \in Seq(Octet), NEW t \in Seq(Octet), NEW u \in Seq(Octet)
  PROVE  (s \o t) \o u = s \o (t \o u)
BY ConcatAssociative

LEMMA SplitWrites ==
  ASSUME NEW v \in Seq(Written), NEW bytes \in Seq(Octet), NEW time \in Nat, NEW n \in Nat,
         NEW p, HasWritten(p, n, v, bytes, time)
  PROVE  HasWritten(Split(p, time), n + 1, v, bytes, time)
<1>1. p \in WritingStates /\ p.capture \in Seq(Nat) /\ p.left \in Seq(Octet)
  BY DEF HasWritten, WritingStates
<1>2. MaxData \in Nat \ {0} /\ Len(p.left) \in Nat /\ Len(bytes) \in Nat
  BY <1>1, CaptureConstants
<1>3. CASE ~(Len(p.left) > MaxData)
  <2>1. Split(p, time) = p
    BY <1>3 DEF Split
  <2>2. Len(p.left) <= MaxData
    BY <1>2, <1>3
  <2> QED
    BY <2>1, <2>2 DEF HasWritten
<1>4. CASE Len(p.left) > MaxData
  <2> DEFINE data == SubSeq(p.left, 1, MaxData)
             left == SubSeq(p.left, MaxData + 1, Len(p.left))
             capture == p.capture \o Record(data, time)
  <2>1. Split(p, time) = [capture |-> capture, left |-> left]
    BY <1>4 DEF Split
  <2>2. MaxData \in 0..Len(p.left)
    BY <1>2, <1>4
  <2>3. /\ data \in Seq(Octet) /\ Len(data) = MaxData /\ left \in Seq(Octet)
        /\ Len(left) = Len(p.left) - MaxData
        /\ data \o left = p.left
    BY <1>1, <2>2, Pieces
  <2> HIDE DEF data, left
  <2>4. PICK r \in Written : r.data = data /\ IsWritten(r, time) /\ RecordOf(r) = Record(data, time)
    <3>1. Len(data) <= MaxData
      BY <1>2, <2>3
    <3> QED
      BY <2>3, <3>1, RecordAt
  <2>5. PICK w : /\ Adds(w, v, time)
                 /\ CaptureOf(w) = CaptureOf(v) \o p.capture
                 /\ DataOf(w) \o p.left = DataOf(v) \o bytes
    BY DEF HasWritten
  <2> DEFINE more == Append(w, r)
  <2>6. Adds(more, v, time)
    BY <2>4, <2>5, OneMoreAdded
  <2>7. w \in Seq(Written)
    BY <2>5 DEF Adds
  <2>8. /\ CaptureOf(more) = CaptureOf(w) \o RecordOf(r) /\ DataOf(more) = DataOf(w) \o r.data
        /\ DataOf(w) \in Seq(Octet) /\ CaptureOf(w) \in Seq(Nat)
    BY <2>7, OneMoreRecord
  <2>9. CaptureOf(v) \in Seq(Nat)
    BY <2>4, OneMoreRecord
  <2> DEFINE record == Record(data, time)
  <2>10. record \in Seq(Nat)
    BY <2>4, RecordIs
  <2> HIDE DEF more, record
  <2>11. CaptureOf(more) = CaptureOf(v) \o (p.capture \o record)
    <3>1. CaptureOf(more) = (CaptureOf(v) \o p.capture) \o record
      BY <2>4, <2>5, <2>8 DEF record
    <3>2. (CaptureOf(v) \o p.capture) \o record = CaptureOf(v) \o (p.capture \o record)
      <4> DEFINE s == CaptureOf(v)
                 c == p.capture
      <4>1. s \in Seq(Nat) /\ c \in Seq(Nat) /\ record \in Seq(Nat)
        BY <1>1, <2>9, <2>10
      <4> HIDE DEF s, c
      <4>2. (s \o c) \o record = s \o (c \o record)
        BY <4>1, ThreeParts
      <4> QED
        BY <4>2 DEF s, c
    <3> QED
      BY <3>1, <3>2
  <2>12. DataOf(more) \o left = DataOf(v) \o bytes
    <3>1. DataOf(more) = DataOf(w) \o data
      BY <2>4, <2>8
    <3>2. (DataOf(w) \o data) \o left = DataOf(w) \o (data \o left)
      <4> DEFINE s == DataOf(w)
      <4>1. s \in Seq(Octet) /\ data \in Seq(Octet) /\ left \in Seq(Octet)
        BY <2>3, <2>8
      <4> HIDE DEF s
      <4>2. (s \o data) \o left = s \o (data \o left)
        BY <4>1, ThreeOctets
      <4> QED
        BY <4>2 DEF s
    <3> QED
      BY <2>3, <2>5, <3>1, <3>2
  <2>13. Len(left) <= MaxData \/ Len(left) + (n + 1) <= Len(bytes)
    <3>1. Len(p.left) + n <= Len(bytes)
      BY <1>2, <1>4 DEF HasWritten
    <3> QED
      <4>1. \A l, k, m, b \in Int : m >= 1 /\ l + k <= b => (l - m) + (k + 1) <= b
        OBVIOUS
      <4>2. /\ Len(p.left) \in Int /\ n \in Int /\ MaxData \in Int /\ Len(bytes) \in Int
            /\ MaxData >= 1
        BY <1>2
      <4>3. (Len(p.left) - MaxData) + (n + 1) <= Len(bytes)
        BY <3>1, <4>1, <4>2
      <4> QED
        BY <2>3, <4>3
  <2>14. Split(p, time) \in WritingStates
    BY <1>1, SplitStays
  <2>15. Split(p, time).capture = p.capture \o record /\ Split(p, time).left = left
    BY <2>1 DEF record
  <2> QED
    BY <2>6, <2>11, <2>12, <2>13, <2>14, <2>15 DEF HasWritten
<1> QED
  BY <1>3, <1>4

LEMMA WriteAdds ==
  ASSUME NEW v \in Seq(Written), CaptureOf(v) \in Seq(Nat), DataOf(v) \in Seq(Octet),
         NEW bytes \in Seq(Octet), NEW time \in Nat
  PROVE  /\ Write(bytes, time) \in Seq(Nat)
         /\ \E w : /\ Adds(w, v, time)
                   /\ CaptureOf(w) = CaptureOf(v) \o Write(bytes, time)
                   /\ DataOf(w) = DataOf(v) \o bytes
<1> DEFINE n == Len(bytes)
<1>1. PICK after : /\ Write(bytes, time) = after[n].capture \o Record(after[n].left, time)
                   /\ after[0] = [capture |-> <<>>, left |-> bytes]
                   /\ \A k \in 1..n : after[k] = Split(after[k - 1], time)
  BY WriteLoop
<1>2. n \in Nat
  OBVIOUS
<1> DEFINE has == [k \in 0..n |-> HasWritten(after[k], k, v, bytes, time)]
           U == [k \in 0..n |-> {TRUE}]
<1>3. HasWritten(after[0], 0, v, bytes, time)
  <2>1. after[0].capture = <<>> /\ after[0].left = bytes
    BY <1>1
  <2>2. after[0] \in WritingStates
    BY <1>1 DEF WritingStates
  <2>3. Adds(v, v, time)
    <3>1. Len(v) \in Nat
      OBVIOUS
    <3> QED
      BY <3>1 DEF Adds
  <2>4. CaptureOf(v) \o <<>> = CaptureOf(v)
    BY ConcatEmptySeq
  <2>5. Len(bytes) + 0 <= Len(bytes)
    BY <1>2
  <2> QED
    BY <2>1, <2>2, <2>3, <2>4, <2>5 DEF HasWritten
<1>4. ASSUME NEW k \in 1..n, has[k - 1] \in U[k - 1]
      PROVE  has[k] \in U[k]
  <2>1. k - 1 \in Nat /\ k - 1 \in 0..n /\ k \in 0..n /\ (k - 1) + 1 = k
    BY <1>2
  <2>2. HasWritten(after[k - 1], k - 1, v, bytes, time)
    BY <1>4, <2>1
  <2>3. HasWritten(Split(after[k - 1], time), (k - 1) + 1, v, bytes, time)
    BY <2>1, <2>2, SplitWrites
  <2>4. HasWritten(after[k], k, v, bytes, time)
    BY <1>1, <2>1, <2>3
  <2> QED
    BY <2>1, <2>4
<1> HIDE DEF n
<1>5. HasWritten(after[n], n, v, bytes, time)
  <2>1. has[0] \in U[0]
    <3>1. 0 \in 0..n
      BY <1>2
    <3> QED
      BY <1>3, <3>1
  <2>2. \A k \in 0..n : has[k] \in U[k]
    <3> HIDE DEF has, U
    <3> QED
      BY <1>2, <1>4, <2>1, LoopStays
  <2>3. n \in 0..n
    BY <1>2
  <2> QED
    BY <2>2, <2>3
<1> DEFINE p == after[n]
<1>6. p \in WritingStates /\ p.capture \in Seq(Nat) /\ p.left \in Seq(Octet)
  BY <1>5 DEF HasWritten, WritingStates
<1>7. Len(p.left) <= MaxData
  <2>1. MaxData \in Nat \ {0} /\ Len(p.left) \in Nat /\ Len(bytes) = n
    BY <1>6, CaptureConstants DEF n
  <2>2. Len(p.left) <= MaxData \/ Len(p.left) + n <= n
    BY <1>5, <2>1 DEF HasWritten
  <2>3. \A l, k, m \in Nat : l <= m \/ l + k <= k => l <= m
    OBVIOUS
  <2> QED
    BY <1>2, <2>1, <2>2, <2>3
<1>8. PICK w : /\ Adds(w, v, time)
               /\ CaptureOf(w) = CaptureOf(v) \o p.capture
               /\ DataOf(w) \o p.left = DataOf(v) \o bytes
  BY <1>5 DEF HasWritten
<1>9. PICK r \in Written : /\ r.data = p.left /\ IsWritten(r, time)
                           /\ RecordOf(r) = Record(p.left, time)
  BY <1>6, <1>7, RecordAt
<1>10. Adds(Append(w, r), v, time)
  BY <1>8, <1>9, OneMoreAdded
<1>11. w \in Seq(Written)
  BY <1>8 DEF Adds
<1>12. /\ CaptureOf(Append(w, r)) = CaptureOf(w) \o RecordOf(r)
       /\ DataOf(Append(w, r)) = DataOf(w) \o r.data
  BY <1>11, OneMoreRecord
<1> DEFINE record == Record(p.left, time)
<1>13. record \in Seq(Nat)
  BY <1>9, RecordIs
<1> HIDE DEF record, p
<1>14. (CaptureOf(v) \o p.capture) \o record = CaptureOf(v) \o (p.capture \o record)
  <2> DEFINE s == CaptureOf(v)
             c == p.capture
  <2>1. s \in Seq(Nat) /\ c \in Seq(Nat) /\ record \in Seq(Nat)
    BY <1>6, <1>13 DEF p
  <2> HIDE DEF s, c
  <2>2. (s \o c) \o record = s \o (c \o record)
    BY <2>1, ThreeParts
  <2> QED
    BY <2>2 DEF s, c
<1>15. Write(bytes, time) = p.capture \o record
  BY <1>1 DEF p, record
<1>16. /\ CaptureOf(Append(w, r)) = CaptureOf(v) \o Write(bytes, time)
       /\ DataOf(Append(w, r)) = DataOf(v) \o bytes
  BY <1>8, <1>9, <1>12, <1>14, <1>15 DEF record
<1>17. Write(bytes, time) \in Seq(Nat)
  <2>1. p.capture \in Seq(Nat)
    BY <1>6 DEF p
  <2> QED
    BY <1>13, <1>15, <2>1, ConcatProperties
<1> QED
  BY <1>10, <1>16, <1>17

(***************************************************************************)
(* What the reader gives of a capture that is cut off.                     *)
(***************************************************************************)
ReadingStates ==
  [given : Seq([data : Seq(Nat), time : Nat] \cup {UnexpectedEof}), left : Seq(Nat)]

LEMMA NextRecordStays ==
  ASSUME NEW p \in ReadingStates
  PROVE  NextRecord(p) \in ReadingStates
<1> DEFINE Items == [data : Seq(Nat), time : Nat] \cup {UnexpectedEof}
           end == 2 + p.left[1]
<1>1. p.given \in Seq(Items) /\ p.left \in Seq(Nat)
  BY DEF ReadingStates
<1>2. \A item \in Items : Append(p.given, item) \in Seq(Items)
  <2> HIDE DEF Items
  <2> QED
    BY <1>1, AppendProperties
<1>3. <<>> \in Seq(Nat)
  OBVIOUS
<1>4. CASE Len(p.left) < 2
  <2>1. NextRecord(p) = [given |-> p.given, left |-> <<>>]
    BY <1>4 DEF NextRecord
  <2> QED
    BY <1>1, <1>3, <2>1 DEF ReadingStates
<1>5. CASE Len(p.left) >= 2 /\ Len(p.left) < end
  <2>1. ~(Len(p.left) < 2)
    BY <1>1, <1>5
  <2>2. NextRecord(p) = [given |-> Append(p.given, UnexpectedEof), left |-> <<>>]
    BY <1>5, <2>1 DEF NextRecord
  <2>3. Append(p.given, UnexpectedEof) \in Seq(Items)
    BY <1>2
  <2> QED
    BY <1>3, <2>2, <2>3 DEF ReadingStates
<1>6. CASE ~(Len(p.left) < 2) /\ ~(Len(p.left) >= 2 /\ Len(p.left) < end)
  <2> DEFINE r == [data |-> SubSeq(p.left, 3, end), time |-> TimeOf(p.left[2])]
             left == SubSeq(p.left, end + 1, Len(p.left))
  <2>1. NextRecord(p) = [given |-> Append(p.given, r), left |-> left]
    BY <1>6 DEF NextRecord
  <2>2. /\ Len(p.left) \in Nat /\ Len(p.left) >= 2 /\ end <= Len(p.left)
        /\ p.left[1] \in Nat /\ p.left[2] \in Nat /\ end \in Nat
    <3>1. Len(p.left) \in Nat /\ Len(p.left) >= 2
      BY <1>1, <1>6
    <3>2. 1 \in 1..Len(p.left) /\ 2 \in 1..Len(p.left)
      BY <3>1
    <3>3. p.left[1] \in Nat /\ p.left[2] \in Nat
      BY <1>1, <3>2, ElementOf
    <3> QED
      BY <1>6, <3>1, <3>3
  <2> HIDE DEF end
  <2>3. \A i \in 1..Len(p.left) : p.left[i] \in Nat
    BY <1>1, ElementOf
  <2>4. (\A i \in 3..end : p.left[i] \in Nat) /\ (\A i \in end + 1..Len(p.left) : p.left[i] \in Nat)
    BY <2>2, <2>3
  <2>5. SubSeq(p.left, 3, end) \in Seq(Nat) /\ left \in Seq(Nat)
    <3>1. end + 1 \in Int /\ Len(p.left) \in Int
      BY <2>2
    <3> QED
      BY <2>2, <2>4, <3>1, SubSeqProperties
  <2>6. r \in Items
    <3>1. TimeOf(p.left[2]) \in Nat
      BY <2>2, CaptureConstants DEF TimeOf
    <3> QED
      BY <2>5, <3>1
  <2> HIDE DEF left, r
  <2>7. Append(p.given, r) \in Seq(Items)
    BY <1>2, <2>6
  <2> QED
    BY <2>1, <2>5, <2>7 DEF ReadingStates
<1> QED
  BY <1>4, <1>5, <1>6

LEMMA ReadLoop ==
  ASSUME NEW capture \in Seq(Nat)
  PROVE  \E after : /\ Read(capture) = after[Len(capture)].given
                    /\ after[0] = [given |-> <<>>, left |-> capture]
                    /\ \A n \in 1..Len(capture) : after[n] = NextRecord(after[n - 1])
<1> DEFINE first == [given |-> <<>>, left |-> capture]
           Turns(f) == [n \in 0..Len(capture) |-> IF n = 0 THEN first ELSE NextRecord(f[n - 1])]
           next == [n \in 1..Len(capture) |-> [p \in ReadingStates |-> NextRecord(p)]]
           after == CHOOSE f : f = Turns(f)
<1>1. first \in ReadingStates
  BY DEF ReadingStates
<1>2. next \in [1..Len(capture) -> [ReadingStates -> ReadingStates]]
  BY NextRecordStays
<1>3. Len(capture) \in Nat
  OBVIOUS
<1>4. PICK f : IsLoop(f, Len(capture), ReadingStates, first, next)
  <2> HIDE DEF first, next
  <2> QED
    BY <1>1, <1>2, <1>3, LoopExists
<1>5. /\ f \in [0..Len(capture) -> ReadingStates] /\ f[0] = first
      /\ \A n \in 1..Len(capture) : f[n] = next[n][f[n - 1]]
  BY <1>4 DEF IsLoop
<1>6. ASSUME NEW n \in 1..Len(capture)
      PROVE  f[n] = NextRecord(f[n - 1])
  <2>1. n - 1 \in 0..Len(capture)
    BY <1>3
  <2>2. f[n - 1] \in ReadingStates
    BY <1>5, <2>1
  <2>3. next[n][f[n - 1]] = NextRecord(f[n - 1])
    BY <2>2
  <2> QED
    BY <1>5, <2>3
<1>7. f = Turns(f)
  <2> HIDE DEF first, next
  <2> QED
    BY <1>3, <1>5, <1>6
<1>8. after = Turns(after)
  <2> HIDE DEF Turns
  <2> QED
    BY <1>7
<1>9. Read(capture) = after[Len(capture)].given
  BY DEF Read
<1>10. after[0] = first /\ \A n \in 1..Len(capture) : after[n] = NextRecord(after[n - 1])
  <2> HIDE DEF after, first
  <2> QED
    BY <1>3, <1>8
<1> QED
  BY <1>9, <1>10

Cut(w, n) == SubSeq(CaptureOf(w), 1, n)
SizeOf(w, k) == Len(CaptureOf(SubSeq(w, 1, k)))

\* The first k records are all those that are whole before the cut, and they are
\* given, and the error if the head of another is.
IsBefore(w, n, k) ==
  /\ k \in 0..Len(w) /\ SizeOf(w, k) <= n
  /\ k < Len(w) => n < SizeOf(w, k) + 2 + Len(w[k + 1].data)

GivenOf(w, n, k) ==
  IF n >= SizeOf(w, k) + 2 THEN Append(SubSeq(w, 1, k), UnexpectedEof) ELSE SubSeq(w, 1, k)

IsAtEnd(w, n, p) == p.left = <<>> /\ \E k : IsBefore(w, n, k) /\ p.given = GivenOf(w, n, k)

\* After i calls: each takes something off what is left.
ReadsOn(w, n, i, p) ==
  \E k \in 0..Len(w) : /\ SizeOf(w, k) <= n
                       /\ p.given = SubSeq(w, 1, k)
                       /\ p.left = SubSeq(CaptureOf(w), SizeOf(w, k) + 1, n)
                       /\ Len(p.left) + i <= n

LEMMA NextRecordReads ==
  ASSUME NEW w \in Seq(Written), NEW n \in 0..Len(CaptureOf(w)), NEW i \in Nat,
         NEW p, p \in ReadingStates, ReadsOn(w, n, i, p) \/ IsAtEnd(w, n, p)
  PROVE  ReadsOn(w, n, i + 1, NextRecord(p)) \/ IsAtEnd(w, n, NextRecord(p))
<1>1. CASE IsAtEnd(w, n, p)
  <2>1. p.left = <<>> /\ Len(p.left) < 2
    BY <1>1 DEF IsAtEnd
  <2>2. NextRecord(p) = [given |-> p.given, left |-> <<>>]
    BY <2>1 DEF NextRecord
  <2>3. NextRecord(p).given = p.given /\ NextRecord(p).left = <<>>
    BY <2>2
  <2> QED
    BY <1>1, <2>3 DEF IsAtEnd
<1>2. CASE ReadsOn(w, n, i, p)
  <2>1. PICK k \in 0..Len(w) : /\ SizeOf(w, k) <= n
                               /\ p.given = SubSeq(w, 1, k)
                               /\ p.left = SubSeq(CaptureOf(w), SizeOf(w, k) + 1, n)
                               /\ Len(p.left) + i <= n
    BY <1>2 DEF ReadsOn
  <2> DEFINE all == CaptureOf(w)
             size == SizeOf(w, k)
             some == SubSeq(w, 1, k)
             left == p.left
  <2>2. all \in Seq(Nat) /\ CaptureOf(some) \in Seq(Nat) /\ Begins(all, CaptureOf(some))
    BY CaptureBegins
  <2>3. size \in Nat /\ size <= n /\ size = Len(CaptureOf(some))
    BY <2>1, <2>2 DEF SizeOf
  <2>4. n \in Nat /\ n <= Len(all) /\ Len(all) \in Nat
    BY <2>2
  <2> HIDE DEF all, size, some
  <2>5. /\ left \in Seq(Nat) /\ Len(left) = n - size
        /\ \A j \in 1..n - size : left[j] = all[size + j]
    <3>1. left = SubSeq(all, size + 1, n)
      BY <2>1 DEF all, size
    <3>2. n \in 0..Len(all) /\ size \in 0..n
      BY <2>3, <2>4
    <3> HIDE DEF left
    <3> QED
      BY <2>2, <3>1, <3>2, RestOf
  <2>6. some \in Seq(Written) /\ p.given = some
    BY <2>1, FirstRecords DEF some
  <2>7. CASE Len(left) < 2
    <3>1. NextRecord(p) = [given |-> p.given, left |-> <<>>]
      BY <2>7 DEF NextRecord
    <3>2. n < size + 2
      BY <2>3, <2>4, <2>5, <2>7
    <3>3. IsBefore(w, n, k)
      <4>1. SizeOf(w, k) \in Nat /\ n < SizeOf(w, k) + 2 /\ SizeOf(w, k) <= n
        BY <2>3, <3>2 DEF size
      <4>2. ASSUME k < Len(w)
            PROVE  n < SizeOf(w, k) + 2 + Len(w[k + 1].data)
        <5>1. w[k + 1] \in Written
          BY <4>2, FirstRecords
        <5>2. Len(w[k + 1].data) \in Nat
          BY <5>1, RecordIs
        <5> QED
          BY <2>4, <4>1, <5>2
      <4> QED
        BY <2>1, <4>1, <4>2 DEF IsBefore
    <3>4. GivenOf(w, n, k) = SubSeq(w, 1, k)
      BY <2>3, <2>4, <3>2 DEF GivenOf, size
    <3>5. NextRecord(p).given = p.given /\ NextRecord(p).left = <<>>
      BY <3>1
    <3> QED
      BY <2>1, <3>3, <3>4, <3>5 DEF IsAtEnd
  <2>8. CASE Len(left) >= 2
    <3>1. n - size >= 2
      BY <2>3, <2>4, <2>5, <2>8
    <3>2. k < Len(w)
      <4>1. CASE k = Len(w)
        <5>1. some = w
          BY <4>1, SubSeqFull DEF some
        <5>2. size = Len(all)
          BY <2>3, <5>1 DEF all
        <5> QED
          BY <2>3, <2>4, <3>1, <5>2
      <4> QED
        BY <2>1, <4>1
    <3> DEFINE r == w[k + 1]
               record == RecordOf(r)
               data == r.data
               more == CaptureOf(SubSeq(w, 1, k + 1))
               l == Len(data)
    <3>3. /\ r \in Written /\ more = CaptureOf(some) \o record /\ Len(more) = size + 2 + l
          /\ SubSeq(w, 1, k + 1) = Append(some, r)
      BY <2>3, <3>2, FirstRecords DEF some
    <3>4. /\ data \in Seq(Octet) /\ l \in Nat /\ TimeOf(Stamp(r.time)) = r.time
          /\ record \in Seq(Nat) /\ Len(record) = 2 + l
          /\ record[1] = l /\ record[2] = Stamp(r.time)
          /\ \A j \in 1..l : record[2 + j] = data[j]
      BY <3>3, RecordIs
    <3>5. Begins(all, more) /\ k + 1 \in 0..Len(w)
      <4>1. k + 1 \in 0..Len(w)
        BY <2>1, <3>2
      <4> QED
        BY <4>1, CaptureBegins DEF all
    <3> HIDE DEF r, record, data, more, l
    <3>6. \A j \in 1..2 + l : all[size + j] = record[j]
      <4> DEFINE before == CaptureOf(some)
                 Numbers == Nat
      <4>1. before \in Seq(Numbers) /\ record \in Seq(Numbers) /\ Len(before) = size
        BY <2>2, <2>3, <3>4
      <4> HIDE DEF before, Numbers
      <4>2. \A j \in 1..Len(before) + Len(record) :
              (before \o record)[j] = IF j <= Len(before) THEN before[j] ELSE record[j - Len(before)]
        BY <4>1, ConcatProperties
      <4>3. more = before \o record
        BY <3>3 DEF before
      <4>4. ASSUME NEW j \in 1..2 + l
            PROVE  all[size + j] = record[j]
        <5>1. /\ size + j \in 1..size + (2 + l) /\ ~(size + j <= size) /\ (size + j) - size = j
              /\ size + j \in 1..size + 2 + l
          BY <2>3, <3>4
        <5>2. more[size + j] = record[j]
          BY <3>4, <4>1, <4>2, <4>3, <5>1
        <5>3. all[size + j] = more[size + j]
          BY <3>3, <3>5, <5>1 DEF Begins
        <5> QED
          BY <5>2, <5>3
      <4> QED
        BY <4>4
    <3>7. left[1] = l /\ left[2] = Stamp(r.time)
      <4>1. 1 \in 1..2 + l /\ 2 \in 1..2 + l /\ 1 \in 1..n - size /\ 2 \in 1..n - size
        BY <2>3, <2>4, <3>1, <3>4
      <4> QED
        <5>1. left[1] = all[size + 1] /\ left[2] = all[size + 2]
          BY <2>5, <4>1
        <5>2. all[size + 1] = record[1] /\ all[size + 2] = record[2]
          BY <3>6, <4>1
        <5> QED
          BY <3>4, <5>1, <5>2
    <3> HIDE DEF left
    <3>8. ~(Len(left) < 2)
      BY <2>5, <2>8
    <3>9. CASE Len(left) < 2 + l
      <4>1. NextRecord(p) = [given |-> Append(p.given, UnexpectedEof), left |-> <<>>]
        BY <2>8, <3>7, <3>8, <3>9 DEF NextRecord, left
      <4>2. n >= size + 2 /\ n < size + 2 + l
        BY <2>3, <2>4, <2>5, <3>1, <3>4, <3>9
      <4>3. IsBefore(w, n, k)
        BY <2>1, <4>2 DEF IsBefore, size, l, data, r
      <4>4. GivenOf(w, n, k) = Append(SubSeq(w, 1, k), UnexpectedEof)
        BY <4>2 DEF GivenOf, size
      <4>5. NextRecord(p).given = Append(p.given, UnexpectedEof) /\ NextRecord(p).left = <<>>
        BY <4>1
      <4> QED
        BY <2>1, <4>3, <4>4, <4>5 DEF IsAtEnd
    <3>10. CASE ~(Len(left) < 2 + l)
      <4> DEFINE next == [data |-> SubSeq(left, 3, 2 + l), time |-> TimeOf(left[2])]
                 rest == SubSeq(left, 2 + l + 1, Len(left))
      <4>1. NextRecord(p) = [given |-> Append(p.given, next), left |-> rest]
        BY <3>7, <3>8, <3>10 DEF NextRecord, left
      <4>2. Len(left) \in Nat /\ 2 + l <= Len(left) /\ 2 + l <= n - size
        BY <2>3, <2>4, <2>5, <3>4, <3>10
      <4>3. SubSeq(left, 3, 2 + l) = data
        <5> DEFINE found == SubSeq(left, 3, 2 + l)
        <5>1. \A j \in 3..2 + l : left[j] \in Nat
          <6>1. \A j \in 3..2 + l : j \in 1..Len(left)
            BY <3>4, <4>2
          <6> QED
            BY <2>5, <6>1, ElementOf
        <5>2. 2 + l \in Int
          BY <3>4
        <5>3. /\ found \in Seq(Nat) /\ Len(found) = IF 3 <= 2 + l THEN (2 + l) - 3 + 1 ELSE 0
              /\ \A j \in 1..(2 + l) - 3 + 1 : found[j] = left[3 + j - 1]
          BY <5>1, <5>2, SubSeqProperties
        <5> HIDE DEF found
        <5>4. Len(found) = l /\ \A j \in 1..l : found[j] = left[2 + j]
          BY <3>4, <5>3
        <5>5. ASSUME NEW j \in 1..l
              PROVE  found[j] = data[j]
          <6>1. 2 + j \in 1..2 + l /\ 2 + j \in 1..n - size
            BY <2>3, <2>4, <3>4, <4>2
          <6>2. left[2 + j] = record[2 + j]
            BY <2>5, <3>6, <6>1
          <6> QED
            BY <3>4, <5>4, <6>2
        <5>6. data \in Seq(Nat) /\ Len(data) = l
          <6> DEFINE Numbers == Nat
          <6>1. Octet \subseteq Numbers
            BY DEF Octet
          <6> HIDE DEF Numbers
          <6>2. data \in Seq(Numbers)
            BY <3>4, <6>1, SeqMonotonic
          <6> QED
            BY <6>2 DEF Numbers, l
        <5>7. found = data
          <6> DEFINE Numbers == Nat
          <6>1. found \in Seq(Numbers) /\ data \in Seq(Numbers)
            BY <5>3, <5>6
          <6> HIDE DEF Numbers
          <6>2. Len(found) = Len(data) /\ \A j \in 1..Len(found) : found[j] = data[j]
            BY <5>4, <5>5, <5>6
          <6> QED
            BY <6>1, <6>2, SeqEqual
        <5> QED
          BY <5>7 DEF found
      <4>4. next = r
        <5>1. TimeOf(left[2]) = r.time
          BY <3>4, <3>7
        <5>2. r = [data |-> r.data, time |-> r.time]
          BY <3>3 DEF Written
        <5> QED
          BY <4>3, <5>1, <5>2 DEF data
      <4>5. SizeOf(w, k + 1) = size + 2 + l
        BY <3>3 DEF SizeOf, more
      <4> DEFINE then == SubSeq(all, (size + 2 + l) + 1, n)
      <4>6. rest = then /\ Len(rest) = Len(left) - (2 + l)
        <5>1. Len(left) \in 0..Len(left) /\ 2 + l \in 0..Len(left)
          BY <3>4, <4>2
        <5>2. n \in 0..Len(all) /\ size + 2 + l \in 0..n
          BY <2>3, <2>4, <3>4, <4>2
        <5>3. /\ rest \in Seq(Nat) /\ Len(rest) = Len(left) - (2 + l)
              /\ \A j \in 1..Len(left) - (2 + l) : rest[j] = left[(2 + l) + j]
          BY <2>5, <5>1, RestOf
        <5>4. /\ then \in Seq(Nat) /\ Len(then) = n - (size + 2 + l)
              /\ \A j \in 1..n - (size + 2 + l) : then[j] = all[(size + 2 + l) + j]
          BY <2>2, <5>2, RestOf
        <5> HIDE DEF rest, then
        <5>5. Len(left) - (2 + l) = n - (size + 2 + l)
          BY <2>3, <2>4, <2>5, <3>4
        <5>6. ASSUME NEW j \in 1..Len(rest)
              PROVE  rest[j] = then[j]
          <6>1. j \in 1..Len(left) - (2 + l) /\ j \in 1..n - (size + 2 + l)
            BY <5>3, <5>5
          <6>2. (2 + l) + j \in 1..n - size /\ size + ((2 + l) + j) = (size + 2 + l) + j
            BY <2>3, <2>4, <3>4, <4>2, <6>1
          <6>3. rest[j] = left[(2 + l) + j] /\ then[j] = all[(size + 2 + l) + j]
            BY <5>3, <5>4, <6>1
          <6>4. left[(2 + l) + j] = all[size + ((2 + l) + j)]
            BY <2>5, <6>2
          <6> QED
            BY <6>2, <6>3, <6>4
        <5>7. rest = then
          <6> DEFINE Numbers == Nat
          <6>1. rest \in Seq(Numbers) /\ then \in Seq(Numbers) /\ Len(rest) = Len(then)
            BY <5>3, <5>4, <5>5
          <6> HIDE DEF Numbers
          <6> QED
            BY <5>6, <6>1, SeqEqual
        <5> QED
          BY <5>3, <5>7
      <4> HIDE DEF rest, next
      <4>7. /\ NextRecord(p).given = SubSeq(w, 1, k + 1)
            /\ NextRecord(p).left = SubSeq(CaptureOf(w), SizeOf(w, k + 1) + 1, n)
        <5>1. NextRecord(p).given = Append(p.given, next) /\ NextRecord(p).left = rest
          BY <4>1
        <5>2. Append(p.given, next) = SubSeq(w, 1, k + 1)
          BY <2>6, <3>3, <4>4
        <5>3. then = SubSeq(CaptureOf(w), SizeOf(w, k + 1) + 1, n)
          BY <4>5 DEF all
        <5> HIDE DEF then
        <5> QED
          BY <4>6, <5>1, <5>2, <5>3
      <4>8. SizeOf(w, k + 1) <= n
        BY <2>3, <2>4, <3>4, <4>2, <4>5
      <4>9. Len(NextRecord(p).left) + (i + 1) <= n
        <5>1. NextRecord(p).left = rest
          BY <4>1
        <5>2. Len(left) + i <= n
          BY <2>1 DEF left
        <5>3. \A a, b, c, d \in Nat : a + b <= d => (a - (2 + c)) + (b + 1) <= d
          OBVIOUS
        <5> QED
          BY <2>4, <3>4, <4>2, <4>6, <5>1, <5>2, <5>3
      <4> QED
        BY <3>5, <4>7, <4>8, <4>9 DEF ReadsOn
    <3> QED
      BY <3>9, <3>10
  <2>9. Len(left) < 2 \/ Len(left) >= 2
    BY <2>3, <2>4, <2>5
  <2> QED
    BY <2>7, <2>8, <2>9
<1> QED
  BY <1>1, <1>2

LEMMA ReadOfCut ==
  ASSUME NEW w \in Seq(Written), NEW n \in 0..Len(CaptureOf(w))
  PROVE  \E k : IsBefore(w, n, k) /\ Read(Cut(w, n)) = GivenOf(w, n, k)
<1> DEFINE all == CaptureOf(w)
           capture == Cut(w, n)
<1>1. all \in Seq(Nat) /\ n \in Nat /\ n <= Len(all)
  <2>1. 0 \in 0..Len(w)
    OBVIOUS
  <2> QED
    BY <2>1, CaptureBegins
<1>2. capture \in Seq(Nat) /\ Len(capture) = n /\ capture = SubSeq(all, 0 + 1, n)
  <2>1. n \in 0..Len(all) /\ 0 \in 0..n
    BY <1>1
  <2> HIDE DEF all
  <2>2. SubSeq(all, 0 + 1, n) \in Seq(Nat) /\ Len(SubSeq(all, 0 + 1, n)) = n - 0
    BY <1>1, <2>1, RestOf
  <2>3. 0 + 1 = 1 /\ n - 0 = n
    BY <1>1
  <2>4. capture = SubSeq(all, 1, n)
    BY DEF Cut, all
  <2> QED
    BY <2>2, <2>3, <2>4
<1> HIDE DEF all, capture
<1>3. PICK after : /\ Read(capture) = after[n].given
                   /\ after[0] = [given |-> <<>>, left |-> capture]
                   /\ \A i \in 1..n : after[i] = NextRecord(after[i - 1])
  <2>1. \E after : /\ Read(capture) = after[Len(capture)].given
                   /\ after[0] = [given |-> <<>>, left |-> capture]
                   /\ \A i \in 1..Len(capture) : after[i] = NextRecord(after[i - 1])
    BY <1>2, ReadLoop
  <2> QED
    BY <1>2, <2>1
<1> DEFINE Reads(i, p) == p \in ReadingStates /\ (ReadsOn(w, n, i, p) \/ IsAtEnd(w, n, p))
           reads == [i \in 0..n |-> Reads(i, after[i])]
           U == [i \in 0..n |-> {TRUE}]
<1>4. Reads(0, after[0])
  <2>1. after[0].given = <<>> /\ after[0].left = capture
    BY <1>3
  <2>2. after[0] \in ReadingStates
    BY <1>2, <1>3 DEF ReadingStates
  <2>3. SubSeq(w, 1, 0) = <<>>
    BY SubSeqEmpty
  <2>4. SizeOf(w, 0) = 0
    <3>1. CaptureOf(SubSeq(w, 1, 0)) = CaptureOf(<<>>)
      BY <2>3
    <3>2. CaptureOf(SubSeq(w, 1, 0)) = <<>>
      BY <3>1, NoRecords
    <3> QED
      BY <3>2 DEF SizeOf
  <2>5. 0 \in 0..Len(w)
    OBVIOUS
  <2>6. Len(after[0].left) + 0 <= n /\ SizeOf(w, 0) <= n
    BY <1>1, <1>2, <2>1, <2>4
  <2>7. after[0].left = SubSeq(CaptureOf(w), SizeOf(w, 0) + 1, n)
    BY <1>2, <2>1, <2>4 DEF all
  <2>8. ReadsOn(w, n, 0, after[0])
    BY <2>1, <2>3, <2>5, <2>6, <2>7 DEF ReadsOn
  <2> QED
    BY <2>2, <2>8
<1>5. ASSUME NEW i \in 1..n, reads[i - 1] \in U[i - 1]
      PROVE  reads[i] \in U[i]
  <2>1. i - 1 \in Nat /\ i - 1 \in 0..n /\ i \in 0..n /\ (i - 1) + 1 = i
    BY <1>1
  <2>2. Reads(i - 1, after[i - 1])
    BY <1>5, <2>1
  <2>3. ReadsOn(w, n, (i - 1) + 1, NextRecord(after[i - 1])) \/ IsAtEnd(w, n, NextRecord(after[i - 1]))
    BY <2>1, <2>2, NextRecordReads
  <2>4. NextRecord(after[i - 1]) \in ReadingStates
    BY <2>2, NextRecordStays
  <2>5. after[i] = NextRecord(after[i - 1])
    BY <1>3
  <2>6. Reads(i, after[i])
    BY <2>1, <2>3, <2>4, <2>5
  <2> QED
    BY <2>1, <2>6
<1>6. Reads(n, after[n])
  <2>1. 0 \in 0..n /\ n \in 0..n
    BY <1>1
  <2>2. reads[0] \in U[0]
    BY <1>4, <2>1
  <2>3. \A i \in 0..n : reads[i] \in U[i]
    <3> HIDE DEF reads, U
    <3> QED
      BY <1>1, <1>5, <2>2, LoopStays
  <2> QED
    BY <2>1, <2>3
<1>7. CASE IsAtEnd(w, n, after[n])
  BY <1>3, <1>7 DEF IsAtEnd, capture
<1>8. CASE ReadsOn(w, n, n, after[n])
  <2>1. PICK k \in 0..Len(w) : /\ SizeOf(w, k) <= n
                               /\ after[n].given = SubSeq(w, 1, k)
                               /\ after[n].left = SubSeq(CaptureOf(w), SizeOf(w, k) + 1, n)
                               /\ Len(after[n].left) + n <= n
    BY <1>8 DEF ReadsOn
  <2> DEFINE size == SizeOf(w, k)
             left == after[n].left
  <2>2. size \in Nat /\ size <= n
    <3>1. CaptureOf(SubSeq(w, 1, k)) \in Seq(Nat)
      BY CaptureBegins
    <3> QED
      BY <2>1, <3>1, LenProperties DEF SizeOf
  <2>3. Len(left) = n - size
    <3>1. n \in 0..Len(all) /\ size \in 0..n
      BY <1>1, <2>2
    <3>2. left = SubSeq(all, size + 1, n)
      BY <2>1 DEF all
    <3> HIDE DEF left, size
    <3> QED
      BY <1>1, <3>1, <3>2, RestOf
  <2>4. size = n
    <3>1. Len(left) + n <= n
      BY <2>1
    <3> HIDE DEF left, size
    <3> QED
      BY <1>1, <2>2, <2>3, <3>1
  <2>5. IsBefore(w, n, k)
    <3>1. ASSUME k < Len(w)
          PROVE  n < size + 2 + Len(w[k + 1].data)
      <4>1. w[k + 1] \in Written
        BY <3>1, FirstRecords
      <4>2. Len(w[k + 1].data) \in Nat
        BY <4>1, RecordIs
      <4> DEFINE more == Len(w[k + 1].data)
      <4>3. more \in Nat
        BY <4>2
      <4> HIDE DEF size, more
      <4>4. n < size + 2 + more
        BY <1>1, <2>4, <4>3
      <4> QED
        BY <4>4 DEF more
    <3> QED
      BY <2>1, <3>1 DEF IsBefore
  <2>6. GivenOf(w, n, k) = SubSeq(w, 1, k)
    <3>1. ~(n >= size + 2)
      <4> HIDE DEF size
      <4> QED
        BY <1>1, <2>4
    <3> QED
      BY <3>1 DEF GivenOf
  <2> QED
    BY <1>3, <2>1, <2>5, <2>6 DEF capture
<1> QED
  BY <1>6, <1>7, <1>8

\* All of it is read of a capture that is not cut off.
LEMMA ReadAll ==
  ASSUME NEW w \in Seq(Written)
  PROVE  Read(CaptureOf(w)) = w
<1> DEFINE all == CaptureOf(w)
           n == Len(all)
<1>1. all \in Seq(Nat) /\ n \in Nat
  <2>1. 0 \in 0..Len(w)
    OBVIOUS
  <2>2. all \in Seq(Nat)
    BY <2>1, CaptureBegins
  <2> QED
    BY <2>2, LenProperties
<1>2. Cut(w, n) = all
  BY <1>1, SubSeqFull DEF Cut
<1>3. n \in 0..Len(CaptureOf(w))
  BY <1>1
<1>4. PICK k : IsBefore(w, n, k) /\ Read(Cut(w, n)) = GivenOf(w, n, k)
  BY <1>3, ReadOfCut
<1>5. k \in 0..Len(w) /\ SizeOf(w, k) <= n
  BY <1>4 DEF IsBefore
<1>6. k = Len(w)
  <2>1. ASSUME k < Len(w) PROVE FALSE
    <3>1. k + 1 \in 0..Len(w)
      BY <1>5, <2>1
    <3>2. SizeOf(w, k + 1) <= n
      BY <3>1, CaptureBegins DEF Begins, SizeOf
    <3>3. SizeOf(w, k + 1) = SizeOf(w, k) + 2 + Len(w[k + 1].data) /\ w[k + 1] \in Written
      BY <1>5, <2>1, FirstRecords DEF SizeOf
    <3>4. n < SizeOf(w, k) + 2 + Len(w[k + 1].data)
      BY <1>4, <2>1 DEF IsBefore
    <3> HIDE DEF n
    <3>5. SizeOf(w, k) + 2 + Len(w[k + 1].data) <= n
      BY <3>2, <3>3
    <3>6. SizeOf(w, k) \in Nat /\ Len(w[k + 1].data) \in Nat
      <4>1. CaptureOf(SubSeq(w, 1, k)) \in Seq(Nat)
        BY <1>5, CaptureBegins
      <4>2. SizeOf(w, k) \in Nat
        BY <4>1, LenProperties DEF SizeOf
      <4> QED
        BY <3>3, <4>2, RecordIs
    <3> QED
      BY <1>1, <3>4, <3>5, <3>6
  <2> QED
    BY <1>5, <2>1
<1>7. SubSeq(w, 1, k) = w
  BY <1>6, SubSeqFull
<1>8. SizeOf(w, k) = n
  BY <1>7 DEF SizeOf
<1> HIDE DEF n
<1>9. GivenOf(w, n, k) = w
  <2>1. ~(n >= SizeOf(w, k) + 2)
    BY <1>1, <1>8
  <2> QED
    BY <1>7, <2>1 DEF GivenOf
<1> QED
  BY <1>2, <1>4, <1>9

LEMMA CaptureAndData ==
  ASSUME NEW w \in Seq(Written)
  PROVE  CaptureOf(w) \in Seq(Nat) /\ DataOf(w) \in Seq(Octet)
<1> DEFINE r == [data |-> <<>>, time |-> TimeOf(0)]
<1>1. <<>> \in Seq(Octet) /\ TimeOf(0) \in Stamped
  BY DEF Stamped
<1>2. r \in Written
  BY <1>1 DEF Written
<1> HIDE DEF r
<1> QED
  BY <1>2, OneMoreRecord

\* The buffer written in two parts is records of all its bytes.
LEMMA TwoParts ==
  ASSUME NEW bytes \in Seq(Octet), NEW i \in 0..Len(bytes)
  PROVE  LET first == Write(SubSeq(bytes, 1, i), FirstTime)
             capture == first \o Write(SubSeq(bytes, i + 1, Len(bytes)), SecondTime)
         IN  \E v, w :
               /\ Adds(v, <<>>, FirstTime) /\ first = CaptureOf(v)
               /\ Adds(w, v, SecondTime) /\ capture = CaptureOf(w)
               /\ DataOf(w) = bytes
<1> DEFINE one == SubSeq(bytes, 1, i)
           other == SubSeq(bytes, i + 1, Len(bytes))
           first == Write(one, FirstTime)
           second == Write(other, SecondTime)
<1>1. one \in Seq(Octet) /\ other \in Seq(Octet) /\ one \o other = bytes
  BY Pieces
<1>2. FirstTime \in Nat /\ SecondTime \in Nat
  BY ConversionsConstants
<1> HIDE DEF one, other
<1>3. <<>> \in Seq(Written)
  OBVIOUS
<1>4. CaptureOf(<<>>) = <<>> /\ DataOf(<<>>) = <<>>
  BY NoRecords
<1>5. CaptureOf(<<>>) \in Seq(Nat) /\ DataOf(<<>>) \in Seq(Octet)
  BY <1>3, CaptureAndData
<1>6. first \in Seq(Nat)
  BY <1>1, <1>2, <1>3, <1>5, WriteAdds
<1>7. PICK v : /\ Adds(v, <<>>, FirstTime)
               /\ CaptureOf(v) = CaptureOf(<<>>) \o first
               /\ DataOf(v) = DataOf(<<>>) \o one
  BY <1>1, <1>2, <1>3, <1>5, WriteAdds
<1>8. <<>> \o first = first /\ <<>> \o one = one
  BY <1>1, <1>6, ConcatEmptySeq
<1>9. CaptureOf(v) = first
  BY <1>4, <1>7, <1>8
<1>10. DataOf(v) = one
  BY <1>4, <1>7, <1>8
<1>11. v \in Seq(Written)
  BY <1>7 DEF Adds
<1>12. CaptureOf(v) \in Seq(Nat) /\ DataOf(v) \in Seq(Octet)
  BY <1>11, CaptureAndData
<1>13. PICK w : /\ Adds(w, v, SecondTime)
                /\ CaptureOf(w) = CaptureOf(v) \o second
                /\ DataOf(w) = DataOf(v) \o other
  BY <1>1, <1>2, <1>11, <1>12, WriteAdds
<1>14. DataOf(w) = bytes
  BY <1>1, <1>10, <1>13
<1>15. CaptureOf(w) = first \o second
  BY <1>9, <1>13
<1> QED
  BY <1>7, <1>9, <1>11, <1>13, <1>14, <1>15 DEF one, other

\* A record is not the error.
LEMMA NoRecordIsError ==
  ASSUME NEW w \in Seq(Written), NEW k \in 1..Len(w)
  PROVE  w[k] # UnexpectedEof
<1>1. w[k] \in Written
  BY ElementOf
<1> DEFINE r == w[k]
<1>2. r.data \in Seq(Octet) /\ r.time \in Nat /\ r = [data |-> r.data, time |-> r.time]
  <2>1. r = [data |-> r.data, time |-> r.time] /\ r.data \in Seq(Octet) /\ r.time \in Stamped
    BY <1>1 DEF Written
  <2>2. \A stamp \in Nat : TimeOf(stamp) \in Nat
    BY CaptureConstants DEF TimeOf
  <2> QED
    BY <2>1, <2>2 DEF Stamped
<1>3. r.data \in Seq(Nat)
  <2> DEFINE Numbers == Nat
             data == r.data
  <2>1. Octet \subseteq Numbers /\ data \in Seq(Octet)
    BY <1>2 DEF Octet
  <2> HIDE DEF Numbers, data
  <2>2. data \in Seq(Numbers)
    BY <2>1, SeqMonotonic
  <2> QED
    BY <2>2 DEF Numbers, data
<1> HIDE DEF r
<1>4. r \in [data : Seq(Nat), time : Nat]
  BY <1>2, <1>3
<1> QED
  BY <1>4, ErrorsAreErrors DEF r

\* What CaptureIsReadBack says of a cut.
LEMMA ReadBeforeCut ==
  ASSUME NEW w \in Seq(Written), NEW n \in 0..Len(CaptureOf(w))
  PROVE  LET cut == Read(SubSeq(CaptureOf(w), 1, n))
             isCutOff == cut # <<>> /\ Last(cut) = UnexpectedEof
             whole == IF isCutOff THEN Front(cut) ELSE cut
             size == Len(CaptureOf(whole))
         IN  /\ IsPrefix(whole, w)
             /\ size <= n
             /\ isCutOff <=> n >= size + 2
             /\ Len(whole) < Len(w) => n < size + 2 + Len(w[Len(whole) + 1].data)
<1> DEFINE cut == Read(SubSeq(CaptureOf(w), 1, n))
           isCutOff == cut # <<>> /\ Last(cut) = UnexpectedEof
           whole == IF isCutOff THEN Front(cut) ELSE cut
           size == Len(CaptureOf(whole))
<1>1. PICK k : IsBefore(w, n, k) /\ Read(Cut(w, n)) = GivenOf(w, n, k)
  BY ReadOfCut
<1>2. cut = GivenOf(w, n, k)
  BY <1>1 DEF Cut
<1>3. k \in 0..Len(w)
  BY <1>1 DEF IsBefore
<1> DEFINE some == SubSeq(w, 1, k)
<1>4. some \in Seq(Written) /\ Len(some) = k
  BY <1>3, FirstRecords
<1> HIDE DEF cut, some
<1>5. (isCutOff <=> n >= SizeOf(w, k) + 2) /\ whole = some
  <2>1. CASE n >= SizeOf(w, k) + 2
    <3>1. cut = Append(some, UnexpectedEof)
      BY <1>2, <2>1 DEF GivenOf, some
    <3>2. cut # <<>> /\ Last(cut) = UnexpectedEof /\ Front(cut) = some
      BY <1>4, <3>1, WithoutLast
    <3> QED
      BY <2>1, <3>2
  <2>2. CASE ~(n >= SizeOf(w, k) + 2)
    <3>1. cut = some
      BY <1>2, <2>2 DEF GivenOf, some
    <3>2. ~isCutOff
      <4>1. SUFFICES ASSUME cut # <<>> PROVE Last(cut) # UnexpectedEof
        OBVIOUS
      <4>2. Len(some) \in 1..Len(some)
        BY <1>4, <3>1, <4>1
      <4>3. some[Len(some)] # UnexpectedEof
        BY <1>4, <4>2, NoRecordIsError
      <4> QED
        BY <3>1, <4>3 DEF Last
    <3> QED
      BY <2>2, <3>1, <3>2
  <2> QED
    BY <2>1, <2>2
<1> HIDE DEF isCutOff, whole
<1>6. size = SizeOf(w, k) /\ Len(whole) = k
  BY <1>4, <1>5 DEF SizeOf, some
<1>7. IsPrefix(whole, w)
  <2>1. SubSeq(some, 1, k) = some
    BY <1>4, SubSeqFull
  <2>2. Len(some) <= Len(w) /\ SubSeq(some, 1, Len(some)) = SubSeq(w, 1, Len(some))
    BY <1>3, <1>4, <2>1 DEF some
  <2> QED
    BY <1>5, <2>2 DEF IsPrefix
<1>8. /\ size <= n /\ (isCutOff <=> n >= size + 2)
      /\ Len(whole) < Len(w) => n < size + 2 + Len(w[Len(whole) + 1].data)
  BY <1>1, <1>5, <1>6 DEF IsBefore
<1> QED
  BY <1>7, <1>8 DEF size, whole, isCutOff, cut

(***************************************************************************)
(* CaptureIsReadBack, for every buffer split into any two parts and every  *)
(* length that a record can say: what is written is records, and the       *)
(* reader gives those that are whole before the cut.                       *)
(***************************************************************************)
THEOREM CaptureCorrect == ConversionsSpec => []CaptureIsReadBack
<1>1. ASSUME buffer \in Seq(Octet)
      PROVE  CaptureIsReadBack
  <2> SUFFICES ASSUME NEW i \in 0..Len(buffer)
               PROVE  LET first == Write(SubSeq(buffer, 1, i), FirstTime)
                          capture == first \o Write(SubSeq(buffer, i + 1, Len(buffer)), SecondTime)
                          records == Read(capture)
                      IN  /\ DataOf(records) = buffer
                          /\ CaptureOf(records) = capture
                          /\ \A k \in 1..Len(records) :
                               LET time == IF k <= Len(Read(first)) THEN FirstTime ELSE SecondTime
                               IN  /\ Len(records[k].data) <= MaxData
                                   /\ records[k].time <= time
                                   /\ time < records[k].time + Millisecond
                          /\ \A n \in 0..Len(capture) :
                               LET cut == Read(SubSeq(capture, 1, n))
                                   isCutOff == cut # <<>> /\ Last(cut) = UnexpectedEof
                                   whole == IF isCutOff THEN Front(cut) ELSE cut
                                   size == Len(CaptureOf(whole))
                               IN  /\ IsPrefix(whole, records)
                                   /\ size <= n
                                   /\ isCutOff <=> n >= size + 2
                                   /\ Len(whole) < Len(records) =>
                                        n < size + 2 + Len(records[Len(whole) + 1].data)
    BY DEF CaptureIsReadBack
  <2> DEFINE first == Write(SubSeq(buffer, 1, i), FirstTime)
             capture == first \o Write(SubSeq(buffer, i + 1, Len(buffer)), SecondTime)
             records == Read(capture)
  <2>1. PICK v, w : /\ Adds(v, <<>>, FirstTime) /\ first = CaptureOf(v)
                    /\ Adds(w, v, SecondTime) /\ capture = CaptureOf(w)
                    /\ DataOf(w) = buffer
    BY <1>1, TwoParts
  <2>2. v \in Seq(Written) /\ w \in Seq(Written)
    BY <2>1 DEF Adds
  <2> HIDE DEF first, capture
  <2>3. records = w
    BY <2>1, <2>2, ReadAll
  <2>4. Read(first) = v
    BY <2>1, <2>2, ReadAll
  <2> HIDE DEF records
  <2>5. ASSUME NEW k \in 1..Len(w)
        PROVE  IsWritten(w[k], IF k <= Len(v) THEN FirstTime ELSE SecondTime)
    <3>1. Len(v) \in Nat
      BY <2>2
    <3>2. CASE k <= Len(v)
      <4>1. k \in 1..Len(v) /\ k > Len(<<>>)
        BY <3>1, <3>2
      <4>2. w[k] = v[k]
        BY <2>1, <4>1 DEF Adds
      <4>3. IsWritten(v[k], FirstTime)
        BY <2>1, <4>1 DEF Adds
      <4> QED
        BY <3>2, <4>2, <4>3
    <3>3. CASE ~(k <= Len(v))
      <4>1. k > Len(v)
        BY <3>1, <3>3
      <4>2. IsWritten(w[k], SecondTime)
        BY <2>1, <4>1 DEF Adds
      <4> QED
        BY <3>3, <4>2
    <3> QED
      BY <3>2, <3>3
  <2>6. ASSUME NEW n \in 0..Len(capture)
        PROVE  LET cut == Read(SubSeq(capture, 1, n))
                   isCutOff == cut # <<>> /\ Last(cut) = UnexpectedEof
                   whole == IF isCutOff THEN Front(cut) ELSE cut
                   size == Len(CaptureOf(whole))
               IN  /\ IsPrefix(whole, records)
                   /\ size <= n
                   /\ isCutOff <=> n >= size + 2
                   /\ Len(whole) < Len(records) =>
                        n < size + 2 + Len(records[Len(whole) + 1].data)
    BY <2>1, <2>2, <2>3, ReadBeforeCut
  <2>7. \A k \in 1..Len(records) :
          LET time == IF k <= Len(Read(first)) THEN FirstTime ELSE SecondTime
          IN  /\ Len(records[k].data) <= MaxData
              /\ records[k].time <= time
              /\ time < records[k].time + Millisecond
    BY <2>3, <2>4, <2>5 DEF IsWritten
  <2>8. DataOf(records) = buffer /\ CaptureOf(records) = capture
    BY <2>1, <2>3
  <2> QED
    BY <2>6, <2>7, <2>8 DEF first, capture, records
<1>2. buffer \in Seq(Byte) => CaptureIsReadBack
  BY <1>1, BytesAreOctets
<1> QED
  BY <1>2, BufferIsOfBytes, PTL
-----------------------------------------------------------------------------
(***************************************************************************)
(* Division with remainder.                                                *)
(***************************************************************************)
LEMMA Division ==
  ASSUME NEW a \in Int, NEW b \in Nat \ {0}
  PROVE  /\ a \div b \in Int /\ a % b \in 0..b - 1
         /\ a = b * (a \div b) + (a % b)
         /\ a >= 0 => a \div b \in Nat
OBVIOUS

LEMMA DivisionIsUnique ==
  ASSUME NEW a \in Int, NEW b \in Nat \ {0}, NEW q \in Int, NEW r \in 0..b - 1,
         a = b * q + r
  PROVE  q = a \div b /\ r = a % b
OBVIOUS

(***************************************************************************)
(* The counter goes around in Indexes entries of SlotsPerIndex slots.      *)
(***************************************************************************)
LEMMA WrapIsWhole ==
  /\ Indexes \in Nat \ {0} /\ SlotsPerIndex \in Nat \ {0} /\ Wrap \in Nat \ {0}
  /\ Wrap = Indexes * SlotsPerIndex
<1> DEFINE inEpoch == EpochSlots \div SlotsPerIndex
<1>1. /\ Epochs \in Nat \ {0} /\ SlotsPerIndex \in Nat \ {0} /\ EpochSlots \in Nat \ {0}
      /\ EpochSlots % SlotsPerIndex = 0
  BY SlotConstants
<1>2. inEpoch \in Int /\ EpochSlots = SlotsPerIndex * inEpoch
  BY <1>1, Division
<1>3. inEpoch \in Nat \ {0}
  BY <1>1, <1>2
<1> HIDE DEF inEpoch
<1>4. Wrap = SlotsPerIndex * (Epochs * inEpoch) /\ Wrap \in Nat \ {0}
  BY <1>1, <1>2, <1>3 DEF Wrap
<1>5. Epochs * inEpoch \in Nat \ {0}
  BY <1>1, <1>3
<1>6. Indexes = Epochs * inEpoch
  BY <1>1, <1>4, <1>5, DivisionIsUnique DEF Indexes
<1> QED
  BY <1>1, <1>4, <1>5, <1>6

LEMMA BlockType == \A time \in Int : Block(time) \in Int
BY WrapIsWhole DEF Block

(***************************************************************************)
(* The entry of a time's counter is that of its block, and the rest its    *)
(* place in the block (index_and_offset).                                  *)
(***************************************************************************)
LEMMA CounterOfTime ==
  ASSUME NEW time \in Nat
  PROVE  /\ IsValid(CounterAt(time))
         /\ IndexOf(CounterAt(time)) = Block(time) % Indexes
         /\ IndexOf(CounterAt(time)) \in Index
         /\ OffsetOf(CounterAt(time)) = time - Block(time) * SlotsPerIndex
         /\ OffsetOf(CounterAt(time)) \in 0..SlotsPerIndex - 1
         /\ Block(time) \in Nat
<1> DEFINE epochs == time \div EpochSlots
           number == time % EpochSlots
           wraps == epochs \div Epochs
           epoch == epochs % Epochs
           slot == epoch * EpochSlots + number
           index == slot \div SlotsPerIndex
           offset == slot % SlotsPerIndex
<1>0. /\ Epochs \in Nat \ {0} /\ EpochSlots \in Nat \ {0}
      /\ Indexes \in Nat \ {0} /\ SlotsPerIndex \in Nat \ {0}
      /\ Wrap = Indexes * SlotsPerIndex
  BY SlotConstants, WrapIsWhole
<1>1. epochs \in Nat /\ number \in 0..EpochSlots - 1 /\ time = EpochSlots * epochs + number
  BY <1>0
<1>2. wraps \in Nat /\ epoch \in 0..Epochs - 1 /\ epochs = Epochs * wraps + epoch
  BY <1>0, <1>1
<1>3. /\ CounterAt(time) = [epoch |-> epoch, number |-> number]
      /\ AbsoluteSlot(CounterAt(time)) = slot
      /\ IndexOf(CounterAt(time)) = index
      /\ OffsetOf(CounterAt(time)) = offset
  BY DEF CounterAt, AbsoluteSlot, IndexOf, OffsetOf
<1>4. IsValid(CounterAt(time))
  BY <1>0, <1>1, <1>3 DEF IsValid
<1> HIDE DEF epochs, number, wraps, epoch
<1>5. slot \in Nat /\ time = Wrap * wraps + slot
  BY <1>0, <1>1, <1>2 DEF Wrap
<1>6. slot < Wrap
  <2>1. epoch * EpochSlots <= (Epochs - 1) * EpochSlots
    BY <1>0, <1>2
  <2> QED
    BY <2>1, <1>0, <1>1, <1>2 DEF Wrap
<1> HIDE DEF slot
<1>7. index \in Nat /\ offset \in 0..SlotsPerIndex - 1 /\ slot = SlotsPerIndex * index + offset
  BY <1>0, <1>5 DEF index, offset
<1> HIDE DEF index, offset
<1>8. index \in 0..Indexes - 1
  BY <1>0, <1>6, <1>7
<1> DEFINE block == Indexes * wraps + index
<1>9. block \in Nat /\ time = SlotsPerIndex * block + offset
  BY <1>0, <1>2, <1>5, <1>7
<1>10. Block(time) = block
  BY <1>0, <1>7, <1>9, DivisionIsUnique DEF Block
<1>11. index = block % Indexes
  BY <1>0, <1>2, <1>8, <1>9, DivisionIsUnique
<1> QED
  BY <1>0, <1>3, <1>4, <1>7, <1>8, <1>9, <1>10, <1>11 DEF Index

(***************************************************************************)
(* The entries of the last Indexes blocks are different ones, and the way  *)
(* back from one to another is as long as it is from block to block.       *)
(***************************************************************************)
LEMMA EntryOfBlock == \A block \in Int : block % Indexes \in Index
BY WrapIsWhole DEF Index

LEMMA StepsBackIsDistance ==
  ASSUME NEW last \in Int, NEW d \in 0..Indexes - 1
  PROVE  StepsBack(last % Indexes, (last - d) % Indexes) = d
<1> DEFINE n == Indexes
           q == last \div n
           x == last % n
           p == (last - d) \div n
           y == (last - d) % n
<1>1. n \in Nat \ {0}
  BY WrapIsWhole
<1> HIDE DEF n
<1>2. q \in Int /\ x \in 0..n - 1 /\ last = n * q + x
  BY <1>1
<1>3. p \in Int /\ y \in 0..n - 1 /\ last - d = n * p + y
  BY <1>1 DEF n
<1> HIDE DEF q, x, p, y
<1>4. x + n - y = n * (p - q + 1) + d /\ d \in 0..n - 1
  BY <1>1, <1>2, <1>3 DEF n
<1>5. (x + n - y) % n = d
  BY <1>1, <1>2, <1>3, <1>4, DivisionIsUnique
<1> QED
  BY <1>5 DEF StepsBack, n, x, y

(***************************************************************************)
(* Slots less than a wrap less one entry old are in blocks with an entry.  *)
(***************************************************************************)
LEMMA RecentBlocks ==
  ASSUME NEW time \in Nat, NEW taken \in Nat,
         taken <= time, time - taken <= Wrap - SlotsPerIndex
  PROVE  Block(taken) \in BlocksUntil(time)
<1> DEFINE n == Indexes - 1
           s == SlotsPerIndex
<1>1. n \in Nat /\ s \in Nat \ {0} /\ Wrap - s = n * s
  BY WrapIsWhole
<1>2. Block(time) \in Nat /\ Block(taken) \in Nat /\ Block(taken) <= Block(time)
  <2>1. Block(time) \in Nat /\ Block(taken) \in Nat
    BY CounterOfTime
  <2>2. taken \div s <= time \div s
    BY SlotConstants
  <2> QED
    BY <2>1, <2>2 DEF Block
<1>3. time < (Block(time) + 1) * s /\ Block(time) * s <= time
  BY <1>1, CounterOfTime
<1>4. taken < (Block(taken) + 1) * s /\ Block(taken) * s <= taken
  BY <1>1, CounterOfTime
<1> HIDE DEF n, s
<1>5. Block(time) - n <= Block(taken)
  <2>1. Block(time) * s < (Block(taken) + 1) * s + n * s
    BY <1>1, <1>2, <1>3, <1>4 DEF s
  <2>2. Block(time) * s < (Block(taken) + 1 + n) * s
    BY <2>1, <1>1, <1>2
  <2> QED
    BY <2>2, <1>1, <1>2
<1> QED
  BY <1>1, <1>2, <1>5 DEF BlocksUntil, n

(***************************************************************************)
(* A new clock has the beginning of each of the last blocks.               *)
(***************************************************************************)
LEMMA NewClockIsRight ==
  ASSUME NEW time \in Nat, NEW ahead \in Int
  PROVE  LET new == NewClock(CounterAt(time), time + ahead)
         IN  /\ new \in [times : [Index -> Int], last_index : Index, last_time : Int]
             /\ new.last_time = time + ahead
             /\ new.last_index = Block(time) % Indexes
             /\ \A block \in BlocksUntil(time) :
                  new.times[block % Indexes] = block * SlotsPerIndex + ahead
<1> DEFINE c == CounterAt(time)
           new == NewClock(c, time + ahead)
           s == SlotsPerIndex
<1>1. /\ IndexOf(c) = Block(time) % Indexes /\ IndexOf(c) \in Index
      /\ OffsetOf(c) = time - Block(time) * s /\ OffsetOf(c) \in Int
      /\ Block(time) \in Nat
  BY CounterOfTime
<1>2. Indexes \in Nat \ {0} /\ s \in Nat \ {0}
  BY WrapIsWhole
<1> HIDE DEF c, s, new
<1>3. /\ new = [times |-> [i \in Index |-> (time + ahead) - OffsetOf(c)
                                              - StepsBack(IndexOf(c), i) * s],
                last_index |-> IndexOf(c), last_time |-> time + ahead]
  BY Zenon DEF NewClock, s, new
<1>4. \A i \in Index : StepsBack(IndexOf(c), i) \in Int
  BY <1>1, <1>2 DEF StepsBack, Index
<1>5. \A i \in Index : (time + ahead) - OffsetOf(c) - StepsBack(IndexOf(c), i) * s \in Int
  BY <1>1, <1>2, <1>4
<1>6. new \in [times : [Index -> Int], last_index : Index, last_time : Int]
  BY <1>1, <1>3, <1>5
<1>7. ASSUME NEW block \in BlocksUntil(time)
      PROVE  new.times[block % Indexes] = block * s + ahead
  <2> DEFINE d == Block(time) - block
  <2>1. d \in 0..Indexes - 1 /\ block \in Int /\ block = Block(time) - d
    BY <1>1, <1>2, <1>7 DEF BlocksUntil
  <2>2. StepsBack(IndexOf(c), block % Indexes) = d
    BY <2>1, <1>1, StepsBackIsDistance
  <2>3. new.times[block % Indexes] = (time + ahead) - OffsetOf(c) - d * s
    BY <2>1, <2>2, <1>3, EntryOfBlock
  <2> QED
    BY <2>1, <2>3, <1>1, <1>2
<1> QED
  BY <1>1, <1>3, <1>6, <1>7 DEF c, s, new

(***************************************************************************)
(* What a clock that is set again holds of the blocks until then: those of *)
(* a new clock, and before them, in their places, what it held before.     *)
(***************************************************************************)
LEMMA UpdatedIsRight ==
  ASSUME NEW k, NEW last \in Nat, NEW time \in Nat, NEW ahead \in Int,
         k.last_index = Block(last) % Indexes,
         last <= time, time - last <= Wrap - SlotsPerIndex,
         NEW block \in BlocksUntil(time)
  PROVE  /\ block > Block(last) =>
              Updated(k, CounterAt(time), time + ahead)[block % Indexes]
                = block * SlotsPerIndex + ahead
         /\ block <= Block(last) =>
              /\ block \in BlocksUntil(last)
              /\ Updated(k, CounterAt(time), time + ahead)[block % Indexes]
                   = k.times[block % Indexes]
<1> DEFINE c == CounterAt(time)
           new == NewClock(c, time + ahead)
           d == Block(time) - block
           gap == Block(time) - Block(last)
<1>1. IndexOf(c) = Block(time) % Indexes /\ Block(time) \in Nat /\ Block(last) \in Nat
  BY CounterOfTime
<1>2. Indexes \in Nat \ {0}
  BY WrapIsWhole
<1>3. d \in 0..Indexes - 1 /\ block \in Int /\ block = Block(time) - d
  BY <1>1, <1>2 DEF BlocksUntil
<1>4. gap \in 0..Indexes - 1 /\ Block(last) = Block(time) - gap
  BY <1>1, <1>2, RecentBlocks DEF BlocksUntil
<1>5. /\ StepsBack(IndexOf(c), block % Indexes) = d
      /\ StepsBack(IndexOf(c), k.last_index) = gap
  BY <1>1, <1>3, <1>4, StepsBackIsDistance
<1>6. new.times[block % Indexes] = block * SlotsPerIndex + ahead
  BY NewClockIsRight
<1> HIDE DEF new, c
<1>7. Updated(k, c, time + ahead)[block % Indexes] =
        IF d < gap THEN new.times[block % Indexes] ELSE k.times[block % Indexes]
  <2>1. block % Indexes \in Index
    BY <1>3, EntryOfBlock
  <2> QED
    BY <2>1, <1>5 DEF Updated, new
<1>8. block > Block(last) <=> d < gap
  BY <1>1, <1>3
<1>9. block <= Block(last) => block \in BlocksUntil(last)
  BY <1>1, <1>2, <1>3, <1>4 DEF BlocksUntil
<1> QED
  BY <1>1, <1>3, <1>4, <1>6, <1>7, <1>8, <1>9 DEF c, new

(***************************************************************************)
(* A clock set at a time tells the time of every slot that is in one of    *)
(* the blocks until then and past the faults.                              *)
(***************************************************************************)
LEMMA GetIsExact ==
  ASSUME NEW k, NEW ahead \in Int, NEW taken \in Nat,
         k.times[Block(taken) % Indexes] = Block(taken) * SlotsPerIndex + ahead
  PROVE  Get(k, CounterAt(taken)) = taken + ahead
<1>1. /\ IndexOf(CounterAt(taken)) = Block(taken) % Indexes
      /\ OffsetOf(CounterAt(taken)) = taken - Block(taken) * SlotsPerIndex
      /\ Block(taken) * SlotsPerIndex \in Int
  BY CounterOfTime, WrapIsWhole
<1> QED
  BY <1>1 DEF Get

\* Observer::gateway_slot_counter_observed leaves a clock or none.
LEMMA ObservedTypes ==
  ASSUME ReportTypeOK, NEW counter, SlotCounterObserved(counter),
         IsValid(counter) => \E time \in Nat : counter = CounterAt(time)
  PROVE  ReportTypeOK'
<1> DEFINE Clock == [times : [Index -> Int], last_index : Index, last_time : Int]
<1>1. captured \in Int \cup {Nothing} /\ (clock # Nothing => clock \in Clock)
  BY DEF ReportTypeOK
<1>2. CASE captured = Nothing \/ ~IsValid(counter)
  <2>1. clock' = clock /\ captured' \in {captured, Nothing}
    BY <1>2 DEF SlotCounterObserved
  <2> QED
    BY <1>1, <2>1 DEF ReportTypeOK
<1>3. CASE captured # Nothing /\ IsValid(counter)
  <2>1. PICK time \in Nat : counter = CounterAt(time)
    BY <1>3
  <2> DEFINE new == NewClock(counter, captured)
  <2> DEFINE ahead == captured - time
  <2>2. captured \in Int /\ ahead \in Int /\ captured = time + ahead
    BY <1>1, <1>3
  <2>3. new \in Clock
    <3> HIDE DEF ahead
    <3>1. NewClock(CounterAt(time), time + ahead) \in Clock
      BY <2>2, NewClockIsRight
    <3> QED
      BY <3>1, <2>1, <2>2
  <2>4. CASE clock = Nothing
    BY <1>3, <2>3, <2>4 DEF SlotCounterObserved, ReportTypeOK
  <2>5. CASE clock # Nothing
    <3>1. clock \in Clock /\ IndexOf(counter) \in Index
      BY <1>1, <2>1, <2>5, CounterOfTime
    <3>2. Updated(clock, counter, captured) \in [Index -> Int]
      <4>1. \A i \in Index : new.times[i] \in Int /\ clock.times[i] \in Int
        BY <2>3, <3>1
      <4> QED
        BY <4>1 DEF Updated
    <3>3. Set(clock, counter, captured) \in Clock
      BY <2>2, <2>3, <3>1, <3>2 DEF Set
    <3>4. clock' = Set(clock, counter, captured) /\ captured' = Nothing
      BY <1>3, <2>5 DEF SlotCounterObserved
    <3> QED
      BY <3>3, <3>4 DEF ReportTypeOK
  <2> QED
    BY <2>4, <2>5
<1> QED
  BY <1>2, <1>3

(***************************************************************************)
(* A poll after the last fault that is heard whole, request and response,  *)
(* leaves the clock set at it or, if the program was restarted in between, *)
(* leaves none.                                                            *)
(***************************************************************************)
LEMMA PollSetsClock ==
  ASSUME ReportInv, request # Nothing, polled > since,
         SlotCounterObserved(CounterAt(request)), UNCHANGED <<skew, since, polled>>
  PROVE  clock' # Nothing => IsSetAt(polled)'
<1> DEFINE c == CounterAt(request)
<1>1. /\ request = polled /\ request \in Nat /\ skew \in Int /\ since \in Int
      /\ request >= Wrap /\ Wrap \in Nat \ {0}
  BY WrapIsWhole DEF ReportInv, PollsInv
<1>2. CASE captured = Nothing
  <2>1. clock = Nothing /\ clock' = clock
    BY <1>1, <1>2, ReportTimesConstants DEF ReportInv, CapturedInv, SlotCounterObserved
  <2> QED
    BY <2>1
<1>3. CASE captured # Nothing
  <2>1. captured = request + skew
    BY <1>3 DEF ReportInv, CapturedInv
  <2>2. IsValid(c)
    BY <1>1, CounterOfTime
  <2>3. skew' = skew /\ since' = since /\ polled' = request /\ request + skew \in Int
    BY <1>1
  <2> HIDE DEF c
  <2>4. CASE clock' = NewClock(c, captured)
    <3>1. /\ clock'.last_time = request + skew
          /\ clock'.last_index = Block(request) % Indexes
          /\ \A block \in BlocksUntil(request) :
               clock'.times[block % Indexes] = block * SlotsPerIndex + skew
      <4> DEFINE new == NewClock(c, request + skew)
      <4>1. /\ new.last_time = request + skew
            /\ new.last_index = Block(request) % Indexes
            /\ \A block \in BlocksUntil(request) :
                 new.times[block % Indexes] = block * SlotsPerIndex + skew
        BY <1>1, NewClockIsRight DEF c
      <4>2. clock' = new
        BY <2>1, <2>4
      <4> HIDE DEF new
      <4> QED
        BY <4>1, <4>2
    <3> QED
      BY <2>3, <3>1 DEF IsSetAt
  <2>5. CASE clock # Nothing /\ ~(clock.last_time > captured)
             /\ clock' = [times |-> Updated(clock, c, captured),
                          last_index |-> IndexOf(c), last_time |-> captured]
    <3>1. clock'.last_time = request + skew /\ clock'.last_index = Block(request) % Indexes
      <4>1. IndexOf(c) = Block(request) % Indexes
        BY <1>1, CounterOfTime DEF c
      <4> QED
        BY <4>1, <2>1, <2>5
    <3>2. ASSUME NEW block \in BlocksUntil(request), IsPastFaults(block)
          PROVE  clock'.times[block % Indexes] = block * SlotsPerIndex + skew
      <4>1. block \in Int /\ block * SlotsPerIndex <= request
        <5>1. Block(request) \in Nat /\ Block(request) * SlotsPerIndex <= request
          BY <1>1, CounterOfTime, WrapIsWhole
        <5>2. block \in Int /\ block <= Block(request) /\ SlotsPerIndex \in Nat
          BY <5>1, <3>2, WrapIsWhole DEF BlocksUntil
        <5>3. block * SlotsPerIndex <= Block(request) * SlotsPerIndex
          BY <5>1, <5>2
        <5> QED
          BY <5>1, <5>2, <5>3, <1>1
      <4>2. PICK time \in Wrap..polled : IsSetAt(time) /\ request - time <= MaxGap
        <5>1. ~Recovering
          <6> DEFINE start == block * SlotsPerIndex
          <6>1. since = -1 \/ start > since + Wrap
            BY <3>2 DEF IsPastFaults
          <6> HIDE DEF start
          <6>2. start <= request
            BY <4>1 DEF start
          <6>3. start \in Int
            BY <4>1, WrapIsWhole DEF start
          <6> QED
            BY <6>1, <6>2, <6>3, <1>1 DEF Recovering
        <5> QED
          BY <5>1, <2>5 DEF ReportInv, InStep
      <4>3. /\ time \in Nat /\ time <= request
            /\ request - time <= Wrap - SlotsPerIndex
            /\ clock.last_index = Block(time) % Indexes
        BY <1>1, <4>2, WrapIsWhole, ReportTimesConstants DEF IsSetAt
      <4>4. /\ block > Block(time) =>
                 Updated(clock, c, captured)[block % Indexes] = block * SlotsPerIndex + skew
            /\ block <= Block(time) =>
                 /\ block \in BlocksUntil(time)
                 /\ Updated(clock, c, captured)[block % Indexes] = clock.times[block % Indexes]
        <5>1. captured = request + skew /\ c = CounterAt(request)
          BY <2>1 DEF c
        <5> QED
          BY <1>1, <3>2, <4>3, <5>1, UpdatedIsRight
      <4>5. block \in BlocksUntil(time) =>
              clock.times[block % Indexes] = block * SlotsPerIndex + skew
        BY <3>2, <4>2 DEF IsSetAt
      <4>6. Block(time) \in Int
        BY <4>3, BlockType
      <4> QED
        BY <2>5, <4>1, <4>4, <4>5, <4>6
    <3> QED
      BY <2>3, <3>1, <3>2 DEF IsSetAt, IsPastFaults
  <2> QED
    BY <1>3, <2>2, <2>4, <2>5 DEF SlotCounterObserved, Set, c
<1> QED
  BY <1>2, <1>3

(***************************************************************************)
(* What is reported with such a poll is dated exactly, if its block is     *)
(* past the faults.                                                        *)
(***************************************************************************)
LEMMA ReportIsExact ==
  ASSUME ReportInv, request # Nothing, polled > since,
         SlotCounterObserved(CounterAt(request)), UNCHANGED <<skew, since, polled>>,
         NEW taken \in request - MaxAge..request, PowerReport(taken),
         IsPastFaults(Block(taken))
  PROVE  error' \in {Nothing, 0}
<1>1. /\ request = polled /\ request \in Nat /\ request >= Wrap /\ skew \in Int
      /\ MaxAge \in 0..Wrap - SlotsPerIndex /\ SlotsPerIndex \in Nat \ {0}
      /\ Wrap \in Nat
  BY WrapIsWhole, ReportTimesConstants DEF ReportInv, PollsInv
<1>2. taken \in Nat /\ taken <= request /\ request - taken <= Wrap - SlotsPerIndex
  BY <1>1
<1>3. CASE clock' = Nothing
  BY <1>3 DEF PowerReport
<1>4. CASE clock' # Nothing
  <2>1. IsSetAt(polled)'
    BY <1>4, PollSetsClock
  <2>2. Block(taken) \in BlocksUntil(request)
    BY <1>1, <1>2, RecentBlocks
  <2>3. clock'.times[Block(taken) % Indexes] = Block(taken) * SlotsPerIndex + skew
    BY <1>1, <2>1, <2>2 DEF IsSetAt, IsPastFaults
  <2>4. Get(clock', CounterAt(taken)) = taken + skew
    BY <1>1, <1>2, <2>3, GetIsExact
  <2> QED
    BY <1>1, <1>2, <1>4, <2>4 DEF PowerReport
<1> QED
  BY <1>3, <1>4

LEMMA ReportInvInit == ReportInit => ReportInv
<1> SUFFICES ASSUME ReportInit PROVE ReportInv
  OBVIOUS
<1>1. Wrap \in Nat \ {0} /\ MaxGap \in Nat
  BY WrapIsWhole, ReportTimesConstants
<1> QED
  BY <1>1 DEF ReportInit, ReportInv, ReportTypeOK, PollsInv, CapturedInv,
              FaultlessReportsAreExact

(***************************************************************************)
(* A fault: nothing is known of the clock until the next poll.             *)
(***************************************************************************)
LEMMA FaultKeepsInv ==
  ASSUME ReportInv, Fault, ReportTypeOK', skew' \in Int,
         now' \in Nat, now' \in now..now + 1, polled' \in {polled, now},
         request' # Nothing => request' = polled'
  PROVE  ReportInv'
<1>1. /\ now \in Nat /\ polled \in Wrap..now /\ since' = now /\ faults' \in Nat
      /\ Wrap \in Nat
  BY WrapIsWhole DEF ReportInv, PollsInv, Fault
<1>2. PollsInv'
  BY <1>1 DEF PollsInv
<1>3. CapturedInv' /\ Recovering'
  BY <1>1 DEF CapturedInv, Recovering
<1>4. FaultlessReportsAreExact'
  BY <1>1 DEF FaultlessReportsAreExact
<1> QED
  BY <1>1, <1>2, <1>3, <1>4 DEF ReportInv

LEMMA TickKeepsInv ==
  ASSUME ReportInv, Tick
  PROVE  ReportInv'
<1>1. /\ now' = now + 1 /\ now \in Nat
      /\ UNCHANGED <<skew, request, captured, clock, error, polled>>
  BY DEF Tick, ReportInv, PollsInv
<1>2. ReportTypeOK'
  BY <1>1 DEF ReportInv, ReportTypeOK
<1>3. CASE Fault
  BY <1>1, <1>2, <1>3, FaultKeepsInv DEF ReportInv, PollsInv
<1>4. CASE now + 1 - polled <= MaxGap /\ NoFault
  <2>1. PollsInv'
    BY <1>1, <1>4 DEF ReportInv, PollsInv, NoFault
  <2>2. CapturedInv' /\ FaultlessReportsAreExact'
    BY <1>1, <1>4 DEF ReportInv, CapturedInv, FaultlessReportsAreExact, NoFault
  <2>3. clock' # Nothing => InStep' \/ Recovering'
    BY <1>1, <1>4 DEF ReportInv, InStep, Recovering, IsSetAt, IsPastFaults, NoFault
  <2> QED
    BY <1>1, <1>2, <1>4, <2>1, <2>2, <2>3 DEF ReportInv, NoFault
<1> QED
  BY <1>3, <1>4 DEF Tick

LEMMA SendRequestKeepsInv ==
  ASSUME ReportInv, SendRequest
  PROVE  ReportInv'
<1>1. /\ request' = now /\ polled' = now /\ now \in Nat /\ skew \in Int
      /\ UNCHANGED <<now, skew, clock, error>>
      /\ polled \in Wrap..now /\ since \in -1..now
      /\ now - polled <= MaxGap \/ now <= since + 1
      /\ Wrap \in Nat \ {0} /\ MaxGap \in 0..Wrap - SlotsPerIndex /\ SlotsPerIndex \in Nat
  BY WrapIsWhole, ReportTimesConstants DEF SendRequest, ReportInv, PollsInv
<1>2. ReportTypeOK'
  BY <1>1 DEF SendRequest, ReportInv, ReportTypeOK
<1>3. CASE Fault
  BY <1>1, <1>2, <1>3, FaultKeepsInv
<1>4. CASE request = Nothing /\ NoFault /\ captured' = now + skew
  <2>1. PollsInv' /\ CapturedInv' /\ FaultlessReportsAreExact'
    BY <1>1, <1>4 DEF ReportInv, PollsInv, CapturedInv, FaultlessReportsAreExact, NoFault
  <2>2. ASSUME clock' # Nothing PROVE InStep' \/ Recovering'
    <3>0. request' # Nothing
      BY <1>1, ReportTimesConstants
    <3>1. CASE Recovering \/ now <= since + 1
      BY <1>1, <1>4, <3>0, <3>1 DEF Recovering, NoFault
    <3>2. CASE InStep /\ now - polled <= MaxGap
      <4>1. polled \in Wrap..polled' /\ IsSetAt(polled)
        BY <1>1, <1>4, <3>2 DEF InStep
      <4>2. clock' = clock /\ skew' = skew /\ since' = since
        BY <1>1, <1>4 DEF NoFault
      <4> QED
        BY <1>1, <3>0, <3>2, <4>1, <4>2 DEF InStep, IsSetAt, IsPastFaults
    <3> QED
      BY <1>1, <2>2, <3>1, <3>2 DEF ReportInv
  <2> QED
    BY <1>1, <1>2, <1>4, <2>1, <2>2 DEF ReportInv, NoFault
<1> QED
  BY <1>3, <1>4 DEF SendRequest

LEMMA SendResponseKeepsInv ==
  ASSUME ReportInv, SendResponse
  PROVE  ReportInv'
<1>1. /\ request \in Nat /\ request = polled /\ request # Nothing /\ request' = Nothing
      /\ UNCHANGED <<now, skew, polled>> /\ skew \in Int /\ now \in Nat
      /\ polled \in Wrap..now /\ since \in -1..now /\ Wrap \in Nat \ {0}
  BY WrapIsWhole DEF SendResponse, ReportInv, PollsInv
<1>2. CASE Fault
  <2>1. ReportTypeOK'
    <3>1. ASSUME HearResponse(InvalidCounter) PROVE ReportTypeOK'
      <4>1. ~IsValid(InvalidCounter)
        BY SlotConstants DEF IsValid, InvalidCounter
      <4> QED
        BY <3>1, <4>1, ObservedTypes DEF HearResponse, ReportInv
    <3>2. ASSUME HearResponse(CounterAt(request)) PROVE ReportTypeOK'
      BY <1>1, <3>2, ObservedTypes DEF HearResponse, ReportInv
    <3>3. ASSUME UNCHANGED <<captured, clock, error>> PROVE ReportTypeOK'
      BY <3>3 DEF ReportInv, ReportTypeOK
    <3> QED
      BY <3>1, <3>2, <3>3 DEF SendResponse
  <2> QED
    BY <1>1, <1>2, <2>1, FaultKeepsInv
<1>3. CASE NoFault /\ HearResponse(CounterAt(request))
  <2>0. SlotCounterObserved(CounterAt(request))
    BY <1>3 DEF HearResponse
  <2>1. ReportTypeOK'
    BY <1>1, <2>0, ObservedTypes DEF ReportInv
  <2>2. PollsInv' /\ CapturedInv'
    BY <1>1, <1>3 DEF ReportInv, PollsInv, CapturedInv, NoFault
  <2>3. ASSUME clock' # Nothing PROVE InStep' \/ Recovering'
    <3>1. CASE polled <= since
      BY <1>1, <1>3, <3>1 DEF Recovering, NoFault
    <3>2. CASE polled > since
      <4>1. IsSetAt(polled)'
        BY <1>1, <1>3, <2>0, <2>3, <3>2, PollSetsClock DEF NoFault
      <4> QED
        BY <1>1, <4>1 DEF InStep
    <3> QED
      BY <1>1, <3>1, <3>2
  <2>4. ASSUME since' = -1 PROVE error' \in {Nothing, 0}
    <3>1. since = -1 /\ polled > since
      BY <1>1, <1>3, <2>4 DEF NoFault
    <3>2. CASE error' = Nothing
      BY <3>2
    <3>3. ASSUME NEW taken \in request - MaxAge..request, PowerReport(taken)
          PROVE  error' \in {Nothing, 0}
      BY <1>1, <1>3, <2>0, <3>1, <3>3, ReportIsExact DEF NoFault, IsPastFaults
    <3> QED
      BY <1>3, <3>2, <3>3 DEF HearResponse
  <2> QED
    BY <1>1, <1>3, <2>1, <2>2, <2>3, <2>4 DEF ReportInv, FaultlessReportsAreExact, NoFault
<1> QED
  BY <1>2, <1>3 DEF SendResponse

LEMMA ReportInvNext == ReportInv /\ [ReportNext]_reportVars => ReportInv'
<1> SUFFICES ASSUME ReportInv, [ReportNext]_reportVars PROVE ReportInv'
  OBVIOUS
<1>1. CASE Restart
  BY <1>1 DEF Restart, ReportInv, ReportTypeOK, PollsInv, CapturedInv,
              FaultlessReportsAreExact
<1>2. CASE Tick
  BY <1>2, TickKeepsInv
<1>3. CASE StepClock
  <2>1. ReportTypeOK' /\ skew' \in Int /\ request' = request /\ polled' = polled /\ now' = now
    BY <1>3, ReportTimesConstants DEF StepClock, ReportInv, ReportTypeOK
  <2> QED
    BY <1>3, <2>1, FaultKeepsInv DEF StepClock, ReportInv, PollsInv
<1>4. CASE SendRequest
  BY <1>4, SendRequestKeepsInv
<1>5. CASE SendResponse
  BY <1>5, SendResponseKeepsInv
<1>6. CASE UNCHANGED reportVars
  BY <1>6 DEF reportVars, ReportInv, ReportTypeOK, PollsInv, CapturedInv, InStep,
              Recovering, IsSetAt, IsPastFaults, FaultlessReportsAreExact
<1> QED
  BY <1>1, <1>2, <1>3, <1>4, <1>5, <1>6 DEF ReportNext

(***************************************************************************)
(* The slot clock, what it was set with and how long the last poll and the *)
(* last fault are ago fit together as ReportInv says, always.              *)
(***************************************************************************)
THEOREM ReportInvariant == ReportSpec => []ReportInv
BY ReportInvInit, ReportInvNext, PTL DEF ReportSpec

(***************************************************************************)
(* The captured time and the clock's entries, index and time are what the  *)
(* code's types say they are.                                              *)
(***************************************************************************)
THEOREM ReportTypeCorrect == ReportSpec => []ReportTypeOK
<1>1. ReportInv => ReportTypeOK
  BY DEF ReportInv
<1> QED
  BY <1>1, ReportInvariant, PTL

(***************************************************************************)
(* Without faults every report is dated with the time its measurement was  *)
(* taken, however large the counter and the clock's entries are, and       *)
(* however often the program is restarted.                                 *)
(***************************************************************************)
THEOREM FaultlessReportsCorrect == ReportSpec => []FaultlessReportsAreExact
<1>1. ReportInv => FaultlessReportsAreExact
  BY DEF ReportInv
<1> QED
  BY <1>1, ReportInvariant, PTL

(***************************************************************************)
(* Two wraps of the slot counter after the last fault, whatever the faults *)
(* were, reports are dated exactly again.                                  *)
(***************************************************************************)
THEOREM RecoveryCorrect == ReportSpec => ReportsRecover
<1> DEFINE Passes == (request # Nothing /\ request' = Nothing /\ request - since' >= 2 * Wrap)
                     => error' \in {Nothing, 0}
<1>1. ReportInv /\ [ReportNext]_reportVars => [Passes]_reportVars
  <2> SUFFICES ASSUME ReportInv, ReportNext, request # Nothing, request' = Nothing,
                      request - since' >= 2 * Wrap
               PROVE  error' \in {Nothing, 0}
    OBVIOUS
  <2>1. /\ request \in Nat /\ request = polled /\ now \in Nat /\ polled \in Wrap..now
        /\ since \in -1..now /\ Wrap \in Nat \ {0} /\ SlotsPerIndex \in Nat \ {0}
        /\ MaxAge \in 0..Wrap - SlotsPerIndex
    BY WrapIsWhole, ReportTimesConstants DEF ReportInv, PollsInv
  <2>2. SendResponse
    BY <2>1, ReportTimesConstants DEF ReportNext, Restart, Tick, StepClock, SendRequest
  <2>3. ~Fault
    BY <2>1 DEF Fault
  <2>4. NoFault /\ HearResponse(CounterAt(request)) /\ UNCHANGED <<skew, polled>>
    BY <2>2, <2>3 DEF SendResponse
  <2>5. since' = since /\ polled > since /\ request - since >= 2 * Wrap
    BY <2>1, <2>4 DEF NoFault
  <2>6. ASSUME NEW taken \in request - MaxAge..request, PowerReport(taken)
        PROVE  error' \in {Nothing, 0}
    <3>1. taken \in Nat /\ taken >= since + Wrap + SlotsPerIndex
      BY <2>1, <2>5
    <3>2. taken < Block(taken) * SlotsPerIndex + SlotsPerIndex
      BY <3>1, <2>1, CounterOfTime
    <3>3. Block(taken) * SlotsPerIndex \in Int
      BY <3>1, <2>1, BlockType
    <3> DEFINE start == Block(taken) * SlotsPerIndex
    <3> HIDE DEF start
    <3>4. start > since + Wrap
      BY <3>1, <3>2, <3>3, <2>1 DEF start
    <3>5. IsPastFaults(Block(taken))
      BY <3>4 DEF IsPastFaults, start
    <3> QED
      BY <2>4, <2>5, <2>6, <3>5, ReportIsExact DEF HearResponse
  <2> QED
    BY <2>4, <2>6 DEF HearResponse
<1> QED
  BY <1>1, ReportInvariant, PTL DEF ReportSpec, ReportsRecover

(***************************************************************************)
(* A clock that went backwards is right about the whole last wrap, less    *)
(* one entry, as soon as a poll has found it out.                          *)
(***************************************************************************)
THEOREM BackwardsCorrect == ReportSpec => BackwardsIsRepaired
<1> DEFINE Found == /\ clock # Nothing /\ captured # Nothing /\ request # Nothing
                    /\ captured = request + skew /\ clock.last_time > captured
                    /\ SendResponse /\ NoFault
           Repaired == \A taken \in request - Wrap + SlotsPerIndex..request :
                         Get(clock', CounterAt(taken)) = taken + skew
<1>1. ReportInv /\ [ReportNext]_reportVars => [Found => Repaired]_reportVars
  <2> SUFFICES ASSUME ReportInv, Found,
                      NEW taken \in request - Wrap + SlotsPerIndex..request
               PROVE  Get(clock', CounterAt(taken)) = taken + skew
    OBVIOUS
  <2>1. /\ request \in Nat /\ request >= Wrap /\ skew \in Int /\ faults \in Nat
        /\ Wrap \in Nat \ {0} /\ SlotsPerIndex \in Nat \ {0}
    BY WrapIsWhole DEF ReportInv, PollsInv
  <2>2. ~Fault
    BY <2>1 DEF Fault, NoFault
  <2>3. SlotCounterObserved(CounterAt(request))
    BY <2>2 DEF SendResponse, HearResponse
  <2>4. clock' = NewClock(CounterAt(request), request + skew)
    <3>1. IsValid(CounterAt(request))
      BY <2>1, CounterOfTime
    <3> QED
      BY <2>3, <3>1 DEF SlotCounterObserved, Set
  <2>5. taken \in Nat /\ taken <= request /\ request - taken <= Wrap - SlotsPerIndex
    BY <2>1
  <2>6. Block(taken) \in BlocksUntil(request)
    BY <2>1, <2>5, RecentBlocks
  <2>7. clock'.times[Block(taken) % Indexes] = Block(taken) * SlotsPerIndex + skew
    BY <2>1, <2>4, <2>6, NewClockIsRight
  <2> QED
    BY <2>1, <2>5, <2>7, GetIsExact
<1> QED
  BY <1>1, ReportInvariant, PTL DEF ReportSpec, BackwardsIsRepaired
=============================================================================
