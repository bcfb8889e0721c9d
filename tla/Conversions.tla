----------------------------- MODULE Conversions ----------------------------
(***************************************************************************)
(* The pure conversions on any buffer of bytes: as the contents of a frame *)
(* for Checksum, as the last bytes of a long address for Barcode, as what  *)
(* follows the status of a receive response for ReceivedPackets and        *)
(* ReceiveResponse, as a slot counter for SlotCounter, and as what was     *)
(* received for Capture.                                                   *)
(***************************************************************************)
EXTENDS Checksum, Barcode, ReceivedPackets, ReceiveResponse, SlotCounter, Capture,
        LinkAddress, Measurement

CONSTANTS
  Byte,                   \* what the buffer is made of
  Alteration,             \* what a byte of it is altered to
  Fields,                 \* of a status, none of them left out
  Counters,               \* slot counters
  FirstTime, SecondTime   \* when the parts of the buffer are captured

Octet == 0..255

ASSUME ConversionsConstants ==
  /\ Byte \subseteq Octet /\ Alteration \subseteq Octet
  /\ Counters \subseteq Nat /\ \A counter \in Counters : counter <= 65535
  /\ FirstTime \in Nat /\ SecondTime \in Nat

ASSUME FieldsAreStatus ==
  /\ Fields \in [1..6 -> Seq(Octet)]
  /\ \A i \in 1..6 : Len(Fields[i]) = IF i <= 2 THEN 1 ELSE 2

\* The errors are not what is given where there is none.
ASSUME ErrorsAreErrors ==
  /\ PacketTooShortError \notin Seq(Octet)
  /\ Invalid \notin Seq(0..15)
  /\ InvalidSlotNumber \notin Nat
  /\ UnexpectedEof \notin [data : Seq(Nat), time : Nat]

VARIABLE buffer

ConversionsInit == buffer = <<>>

Extend == \E b \in Byte : buffer' = Append(buffer, b)

ConversionsSpec == ConversionsInit /\ [][Extend]_buffer
-----------------------------------------------------------------------------
(***************************************************************************)
(* A frame with one byte altered does not have the checksum it had         *)
(* (crc.rs:34), so an alteration of a single byte of a frame that stays a  *)
(* frame is always noticed.                                                *)
(***************************************************************************)
AlteredByteIsNoticed ==
  \A i \in 1..Len(buffer) : \A b \in Alteration \ {buffer[i]} :
    FrameCrc([buffer EXCEPT ![i] = b]) # FrameCrc(buffer)

\* The address with the barcode prefix that ends in the buffer's last bytes.
BufferAddress ==
  LET byte == [i \in 1..5 |-> (Zeros(5) \o buffer)[Len(buffer) + i]]
  IN  [i \in 1..16 |->
         IF i <= 6 THEN Prefix[i]
         ELSE IF i % 2 = 1 THEN byte[(i - 5) \div 2] \div 16 ELSE byte[(i - 5) \div 2] % 16]

(***************************************************************************)
(* What Display writes FromStr reads (barcode.rs:45, 22), and gives back   *)
(* the address.  Not if it is a single digit or none that follows the      *)
(* dash: that is shorter than the five characters FromStr asks for.        *)
(***************************************************************************)
BarcodeIsReadBack ==
  LET barcode == Format(BufferAddress)
  IN  Parse(barcode) = IF Len(barcode.digits) >= 2 THEN BufferAddress ELSE Invalid

(***************************************************************************)
(* A barcode with one digit mistyped is refused (barcode.rs:36).           *)
(***************************************************************************)
MistypedDigitIsNoticed ==
  LET barcode == Format(BufferAddress)
  IN  \A i \in 1..Len(barcode.digits) : \A n \in 0..15 \ {barcode.digits[i]} :
        Parse([barcode EXCEPT !.digits[i] = n]) = Invalid

(***************************************************************************)
(* The iterator gives every whole packet there is and leaves none out: put *)
(* together again its packets are the bytes, but for those of one packet   *)
(* at the end that is cut off, reported as an error (network.rs:157).      *)
(***************************************************************************)
PacketsAreAllThereIs ==
  LET packets == Packets(buffer)
      isCutOff == packets # <<>> /\ Last(packets) = PacketTooShortError
      whole == IF isCutOff THEN Front(packets) ELSE packets
      taken == FlattenSeq(whole)
      left == SubSeq(buffer, Len(taken) + 1, Len(buffer))
  IN  /\ \A i \in 1..Len(whole) :
           whole[i] # PacketTooShortError /\ Len(whole[i]) = HeaderSize + whole[i][HeaderSize]
      /\ buffer = taken \o left
      /\ isCutOff <=> left # <<>>
      /\ Len(left) >= HeaderSize => Len(left) < HeaderSize + left[HeaderSize]

\* The flags of a status type, and what a status with some of them set holds: of
\* the packet number its low half is never left out, and of the rest nothing.
Flags == <<1, 2, 4, 8, 16>>
Masks == 0..31

Announced(mask) ==
  [i \in 1..6 |-> IF i = 6 \/ Bit(mask, Flags[i]) = 0 THEN Fields[i]
                  ELSE IF i = 5 THEN Tail(Fields[i]) ELSE <<>>]

(***************************************************************************)
(* Whichever fields a gateway leaves out of the status, all others are     *)
(* found where they are, and the packets begin where the status ends       *)
(* (transport.rs:105); a status that is cut off is refused and not read    *)
(* out of what follows.                                                    *)
(***************************************************************************)
StatusIsReadBack ==
  \A mask \in Masks :
    LET status == <<0, 224 + mask>> \o FlattenSeq(Announced(mask))
    IN  /\ ReadFromBytes(status \o buffer) = [fields |-> Announced(mask), packets |-> buffer]
        /\ \A n \in 0..(Len(status) - 1) : ReadFromBytes(SubSeq(status, 1, n)) = TooShort

IsSlot(counter) == SlotNumber(counter) # InvalidSlotNumber

\* The counter of the slot after that of a counter.
Following(counter) ==
  IF SlotNumber(counter) < Slots - 1 THEN counter + 1
  ELSE NewCounter((Epoch(counter) + 1) % 4, 0)

(***************************************************************************)
(* The slots since a counter (slot_counter.rs:52) are those that passed    *)
(* since it was last seen, less than a wrap ago or, for the same counter,  *)
(* a whole one: one more for every slot that passes, over the gap between  *)
(* epochs and over the wrap, and none at all where there is no slot.       *)
(***************************************************************************)
SlotsSinceAddUp ==
  Len(buffer) = 2 =>
    \A now, past \in Counters \cup {256 * buffer[1] + buffer[2]} :
      /\ (SlotsSince(now, past) = InvalidSlotNumber) = ~(IsSlot(now) /\ IsSlot(past))
      /\ IsSlot(now) /\ IsSlot(past) =>
           /\ SlotsSince(Following(past), past) = 1
           /\ SlotsSince(past, past) = AllSlots
           /\ past # now =>
                /\ SlotsSince(Following(now), past) = SlotsSince(now, past) + 1
                /\ SlotsSince(now, past) + SlotsSince(past, now) = AllSlots

\* All the data of records, and the capture that they are.
DataOf(records) == FlattenSeq([k \in 1..Len(records) |-> records[k].data])
CaptureOf(records) ==
  FlattenSeq([k \in 1..Len(records) |-> Record(records[k].data, records[k].time)])

(***************************************************************************)
(* A capture cut off anywhere (capture.rs:29) gives back the records       *)
(* before the cut, as they would be read of all of it, and of all of it    *)
(* everything that was written, at the time it was written to the          *)
(* millisecond, however it was split into records that can say how long    *)
(* they are.                                                               *)
(***************************************************************************)
CaptureIsReadBack ==
  \A i \in 0..Len(buffer) :
    LET first == Write(SubSeq(buffer, 1, i), FirstTime)
        capture == first \o Write(SubSeq(buffer, i + 1, Len(buffer)), SecondTime)
        records == Read(capture)
    IN  /\ DataOf(records) = buffer
        /\ CaptureOf(records) = capture
        /\ \A k \in 1..Len(records) :
             LET time == IF k <= Len(Read(first)) THEN FirstTime ELSE SecondTime
             IN  /\ Len(records[k].data) <= MaxData
                 /\ records[k].time <= time /\ time < records[k].time + Millisecond
        /\ \A n \in 0..Len(capture) :
             LET cut == Read(SubSeq(capture, 1, n))
                 isCutOff == cut # <<>> /\ Last(cut) = UnexpectedEof
                 whole == IF isCutOff THEN Front(cut) ELSE cut
                 size == Len(CaptureOf(whole))
             IN  /\ IsPrefix(whole, records)
                 /\ size <= n
                 /\ isCutOff <=> n >= size + 2
                 /\ Len(whole) < Len(records) => n < size + 2 + Len(records[Len(whole) + 1].data)
=============================================================================
