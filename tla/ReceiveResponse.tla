--------------------------- MODULE ReceiveResponse --------------------------
(***************************************************************************)
(* The status in front of a receive response (gateway/transport.rs): two   *)
(* bytes say which of the fields follow, and the rest is packets.  The     *)
(* packet number in it is one byte or two; TransportReceiver completes it. *)
(***************************************************************************)
EXTENDS Naturals, Sequences

CONSTANTS TooShort, UnknownStatusType

\* Whether the one bit of a mask is set.
Bit(n, mask) == (n \div mask) % 2

\* The five high bits of the low byte are all there is to recognize it by.
IsKnownType(type) == type \div 32 = 7

\* rx_buffers_used, tx_buffers_free, unknown_a, unknown_b, the packet number and
\* the slot counter, in this order.  A bit that is set leaves a field out, and
\* of the packet number its high half.
Widths(type) ==
  <<1 - Bit(type, 1), 1 - Bit(type, 2), 2 - 2 * Bit(type, 4), 2 - 2 * Bit(type, 8),
    2 - Bit(type, 16), 2>>

\* Where each field ends.
Ends(type) ==
  LET end[i \in 0..6] == IF i = 0 THEN 0 ELSE end[i - 1] + Widths(type)[i]
  IN  end

\* Mutant: half a packet number is taken for a whole one.
ExpectedLengthUnabridged(type) == Ends(type)[6] + Bit(type, 16)

ExpectedLength(type) == Ends(type)[6]

FieldsOf(type, rest) ==
  [i \in 1..6 |-> SubSeq(rest, Ends(type)[i - 1] + 1, Ends(type)[i])]

ReadFromBytes(bytes) ==
  LET type == 256 * bytes[1] + bytes[2]
      rest == SubSeq(bytes, 3, Len(bytes))
  IN  IF Len(bytes) < 2 THEN TooShort
      ELSE IF ~IsKnownType(type) THEN UnknownStatusType
      ELSE IF Len(rest) < ExpectedLength(type) THEN TooShort
      ELSE [fields |-> FieldsOf(type, rest),
            packets |-> SubSeq(rest, ExpectedLength(type) + 1, Len(rest))]
=============================================================================
