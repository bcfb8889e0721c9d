--------------------------- MODULE ReceivedPackets --------------------------
(***************************************************************************)
(* The iterator over the packets of a receive response (pv/network.rs): a  *)
(* packet is a header, whose last byte says how much data there is, and    *)
(* the data.                                                               *)
(***************************************************************************)
EXTENDS Naturals, Sequences

CONSTANTS
  HeaderSize,           \* size_of::<ReceivedPacketHeader>(): 7 in the code
  PacketTooShortError

ASSUME PacketConstants == HeaderSize \in Nat \ {0}

DataLength(bytes) == bytes[HeaderSize]

\* Mutant: a packet that is all that is left counts as too short.
IsWholeButLast(bytes) ==
  Len(bytes) >= HeaderSize /\ Len(bytes) - HeaderSize > DataLength(bytes)

IsWhole(bytes) ==
  Len(bytes) >= HeaderSize /\ Len(bytes) - HeaderSize >= DataLength(bytes)

\* ReceivedPackets::next, by what it gave so far and the bytes it has left.
NextPacket(packets) ==
  LET end == HeaderSize + DataLength(packets.left)
  IN  CASE packets.left = <<>> -> packets
        [] packets.left # <<>> /\ ~IsWhole(packets.left) ->
             [given |-> Append(packets.given, PacketTooShortError), left |-> <<>>]
        [] OTHER ->
             [given |-> Append(packets.given, SubSeq(packets.left, 1, end)),
              left  |-> SubSeq(packets.left, end + 1, Len(packets.left))]

\* All it gives: after so many calls there is nothing left.
Packets(bytes) ==
  LET after[n \in 0..Len(bytes)] ==
        IF n = 0 THEN [given |-> <<>>, left |-> bytes] ELSE NextPacket(after[n - 1])
  IN  after[Len(bytes)].given
=============================================================================
