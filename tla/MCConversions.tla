---------------------------- MODULE MCConversions ---------------------------
(***************************************************************************)
(* Conversions on every buffer of at most MaxLength bytes.                 *)
(***************************************************************************)
EXTENDS Conversions

CONSTANT MaxLength

MCSpec == ConversionsInit /\ [][Len(buffer) < MaxLength /\ Extend]_buffer

\* Among them the bytes of the buffer with any one bit changed.
MCAlteration == Byte \cup {2^bit : bit \in 0..7}

MCFields == <<<<11>>, <<12>>, <<13, 14>>, <<15, 16>>, <<17, 18>>, <<19, 20>>>>

\* Slot counters at the ends of epochs, and ones that are not valid.
MCCounters ==
  {NewCounter(epoch, number) : epoch \in 0..3, number \in {0, 1, 11999, 12000, 16383}}

\* An address is read back and its id is one; the rest is in address.rs:113, 125
\* and transport.rs:369.
ASSUME AddressVectors ==
  /\ \A value \in {0, 1, 2^15 - 1, 2^15, 2^15 + 1, 2^16 - 1} :
       /\ ValueOf(AddressOf(value)) = value
       /\ GatewayIDOf(AddressOf(value).id) = AddressOf(value).id
  /\ AddressOf(18 * 256 + 1) = [to |-> TRUE, id |-> 18 * 256 + 1]
  /\ AddressOf(146 * 256 + 1) = [to |-> FALSE, id |-> 18 * 256 + 1]
  /\ GatewayIDOf(2^15) = InvalidGatewayID
  /\ NamedGatewayID(18 * 256 + 1) = 18 * 256 + 1
  /\ NamedGatewayID(146 * 256 + 1) = NoGatewayID

\* Pairs of measurements are read back, as 0x2b6 and 0x158 are in power_report.rs:60
\* and docs/protocol.md:1178, and temperatures are those of two's complement.
ASSUME MeasurementVectors ==
  LET numbers == {0, 1, 15, 16, 255, 256, 344, 694, 2047, 2048, 4095}
  IN  /\ \A a, b \in numbers : NumbersOf(PairOf(a, b)) = <<a, b>>
      /\ PairOf(694, 344) = <<43, 97, 88>>
      /\ {PairOf(4096, 0), PairOf(0, 4096)} = {NotTwelveBits}
      /\ \A t \in -2048..2047 : Temperature((t + 4096) % 4096) = t
=============================================================================
