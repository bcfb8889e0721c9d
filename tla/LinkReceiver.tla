---------------------------- MODULE LinkReceiver ----------------------------
(***************************************************************************)
(* The gateway link layer receiver (gateway/link/receive.rs): a byte at a  *)
(* time it finds frames on the RS-485 line, undoes the link layer escaping *)
(* and hands every frame with a valid checksum to its sink.                *)
(*                                                                         *)
(* Bytes are the numbers they are on the wire.  What is abstracted: the    *)
(* CRC is the parameter Crc (a sequence of CrcSize bytes computed from the *)
(* bytes it covers), and a delivered frame is its body: the address, type  *)
(* and payload bytes in front of the checksum.                             *)
(***************************************************************************)
EXTENDS Naturals, Sequences

CONSTANTS
  Byte,          \* the byte values that occur on the line
  MaxFrameSize,  \* MAX_FRAME_SIZE: 256 in the code
  HeaderSize,    \* address and type: 4 in the code
  CrcSize,       \* 2 in the code
  Crc(_)         \* the checksum of a sequence of bytes

ASSUME LinkConstants ==
  /\ Byte \subseteq 0..255
  /\ MaxFrameSize \in Nat
  /\ HeaderSize \in Nat
  /\ CrcSize \in Nat

EscapeByte == 126                                  \* 0x7e
StartByte == 7
EndByte == 8
Preamble == {0, 255}

\* Escape code c stands for the byte EscapedBytes[c + 1].
EscapedBytes == <<126, 36, 35, 37, 164, 163, 165>>
IsEscapeCode(b) == b \in 0..6
Unescaped(b) == EscapedBytes[b + 1]

ASSUME LinkBytes == {0, 7, 8, 126, 255} \subseteq Byte
ASSUME LinkUnescaped == \A b \in Byte \cap (0..6) : Unescaped(b) \in Byte

States == {"Idle", "Noise", "StartOfFrame", "Frame", "FrameEscape", "Giant",
           "GiantEscape"}

VARIABLES
  state,     \* State
  buffer,    \* the unescaped bytes of the frame being read
  counters,  \* Counters
  sink,      \* the bodies delivered to the sink, oldest first
  prev       \* history: the byte read last

linkVars == <<state, buffer, counters, sink, prev>>

ZeroCounters ==
  [frames |-> 0, runts |-> 0, giants |-> 0, checksums |-> 0, noise |-> 0]

Counters ==
  [frames : Nat, runts : Nat, giants : Nat, checksums : Nat, noise : Nat]

LinkInit ==
  /\ state = "Idle"
  /\ buffer = <<>>
  /\ counters = ZeroCounters
  /\ sink = <<>>
  /\ prev = 0

\* Mutant: the buffer of an overlong frame is kept.
BecomeKeepingGiants(next, buf) ==
  LET noisy == next = "Noise" /\ state # "Noise"
      giant == next = "Giant" /\ state \notin {"Giant", "GiantEscape"}
  IN  /\ state' = next
      /\ buffer' = buf
      /\ counters' = CASE noisy -> [counters EXCEPT !.noise = @ + 1]
                       [] giant -> [counters EXCEPT !.giants = @ + 1]
                       [] OTHER -> counters
      /\ UNCHANGED sink

(***************************************************************************)
(* The end of push_u8: entering Noise and giving up on an overlong frame   *)
(* are counted by the pair of old and new state.                           *)
(***************************************************************************)
Become(next, buf) ==
  LET noisy == next = "Noise" /\ state # "Noise"
      giant == next = "Giant" /\ state \notin {"Giant", "GiantEscape"}
  IN  /\ state' = next
      /\ buffer' = IF giant THEN <<>> ELSE buf
      /\ counters' = CASE noisy -> [counters EXCEPT !.noise = @ + 1]
                       [] giant -> [counters EXCEPT !.giants = @ + 1]
                       [] OTHER -> counters
      /\ UNCHANGED sink

\* Mutant: one byte too many fits.
HasRoomForOneMore == Len(buffer) <= MaxFrameSize

HasRoom == Len(buffer) < MaxFrameSize

\* Idle and Noise: a preamble byte, the escape byte of a start, or noise.
BetweenFrames(b) ==
  /\ state \in {"Idle", "Noise"}
  /\ \/ b \in Preamble /\ Become("Idle", buffer)
     \/ b = EscapeByte /\ Become("StartOfFrame", buffer)
     \/ b \notin Preamble \cup {EscapeByte} /\ Become("Noise", buffer)

\* Mutant: the escape byte waits for a start delimiter.
StartOfFrameWaits(b) ==
  /\ state = "StartOfFrame"
  /\ \/ b = StartByte /\ Become("Frame", buffer)
     \/ b # StartByte /\ Become("StartOfFrame", buffer)

StartOfFrame(b) ==
  /\ state = "StartOfFrame"
  /\ \/ b = StartByte /\ Become("Frame", buffer)
     \/ b # StartByte /\ Become("Noise", buffer)

InFrame(b) ==
  /\ state = "Frame"
  /\ \/ b = EscapeByte /\ Become("FrameEscape", buffer)
     \/ b # EscapeByte /\ HasRoom /\ Become("Frame", Append(buffer, b))
     \/ b # EscapeByte /\ ~HasRoom /\ Become("Giant", buffer)

(***************************************************************************)
(* parse_frame_from_buffer, and the reset of the buffer after it.          *)
(***************************************************************************)
BodySize == Len(buffer) - CrcSize
BufferedBody == SubSeq(buffer, 1, BodySize)
BufferedCrc == SubSeq(buffer, BodySize + 1, Len(buffer))
\* Mutant: the checksum's bytes count as the header's.
IsRuntWithoutCrc == Len(buffer) < HeaderSize

IsRunt == Len(buffer) < HeaderSize + CrcSize

\* Mutant: the checksum is not compared.
ParseFrameUnchecked ==
  \/ /\ IsRunt
     /\ counters' = [counters EXCEPT !.runts = @ + 1]
     /\ UNCHANGED sink
  \/ /\ ~IsRunt
     /\ counters' = [counters EXCEPT !.frames = @ + 1]
     /\ sink' = Append(sink, BufferedBody)

ParseFrame ==
  \/ /\ IsRunt
     /\ counters' = [counters EXCEPT !.runts = @ + 1]
     /\ UNCHANGED sink
  \/ /\ ~IsRunt
     /\ BufferedCrc # Crc(BufferedBody)
     /\ counters' = [counters EXCEPT !.checksums = @ + 1]
     /\ UNCHANGED sink
  \/ /\ ~IsRunt
     /\ BufferedCrc = Crc(BufferedBody)
     /\ counters' = [counters EXCEPT !.frames = @ + 1]
     /\ sink' = Append(sink, BufferedBody)

EndOfFrame(b) ==
  /\ state = "FrameEscape"
  /\ b = EndByte
  /\ ParseFrame
  /\ state' = "Idle"
  /\ buffer' = <<>>

InFrameEscape(b) ==
  /\ state = "FrameEscape"
  /\ b # EndByte
  /\ \/ IsEscapeCode(b) /\ HasRoom /\ Become("Frame", Append(buffer, Unescaped(b)))
     \/ IsEscapeCode(b) /\ ~HasRoom /\ Become("GiantEscape", <<>>)
     \/ ~IsEscapeCode(b) /\ Become("Noise", <<>>)

InGiant(b) ==
  /\ state = "Giant"
  /\ \/ b = EscapeByte /\ Become("GiantEscape", buffer)
     \/ b # EscapeByte /\ Become("Giant", buffer)

\* Mutant: a start delimiter does not end an overlong frame.
InGiantEscapeToEnd(b) ==
  /\ state = "GiantEscape"
  /\ \/ b = EndByte /\ Become("Idle", buffer)
     \/ b # EndByte /\ Become("Giant", buffer)

InGiantEscape(b) ==
  /\ state = "GiantEscape"
  /\ \/ b = StartByte /\ Become("Frame", buffer)
     \/ b = EndByte /\ Become("Idle", buffer)
     \/ b \notin {StartByte, EndByte} /\ Become("Giant", buffer)

\* push_u8
Push(b) ==
  /\ \/ BetweenFrames(b)
     \/ StartOfFrame(b)
     \/ InFrame(b)
     \/ EndOfFrame(b)
     \/ InFrameEscape(b)
     \/ InGiant(b)
     \/ InGiantEscape(b)
  /\ prev' = b

ResetCounters ==
  /\ counters' = ZeroCounters
  /\ UNCHANGED <<state, buffer, sink, prev>>

LinkNext == (\E b \in Byte : Push(b)) \/ ResetCounters

LinkSpec == LinkInit /\ [][LinkNext]_linkVars
-----------------------------------------------------------------------------
\* The types of the receiver's fields, and the buffer's bound.
LinkTypeOK ==
  /\ state \in States
  /\ buffer \in Seq(Byte)
  /\ Len(buffer) <= MaxFrameSize
  /\ counters \in Counters
  /\ sink \in Seq(Seq(Byte))
  /\ prev \in Byte

(***************************************************************************)
(* No frame ever starts with bytes left over from an earlier one: push_u8  *)
(* clears the buffer on some of the ways out of a frame and relies on the  *)
(* state for the others.                                                   *)
(***************************************************************************)
BufferOnlyInFrame == buffer # <<>> => state \in {"Frame", "FrameEscape"}

(***************************************************************************)
(* Whatever was read before, 0x7e 0x08 puts the receiver between frames or *)
(* in Giant, with nothing buffered: an end delimiter always ends a frame.  *)
(***************************************************************************)
DelimiterSynchronizes ==
  [][prev = EscapeByte /\ prev' = EndByte =>
       /\ buffer' = <<>>
       /\ state' \in {"Idle", "Noise", "Giant"}]_linkVars

(***************************************************************************)
(* What a receiver in step with the line relies on: an escape byte is      *)
(* never taken for data, so after one the receiver is neither between      *)
(* frames in Idle nor collecting data.                                     *)
(***************************************************************************)
EscapeByteIsNotData == prev = EscapeByte => state \notin {"Idle", "Frame"}

(***************************************************************************)
(* A frame that reached the sink was neither short nor overlong: what is   *)
(* left of the buffer without its checksum holds at least a whole header.  *)
(***************************************************************************)
DeliveredFramesFit ==
  \A i \in 1..Len(sink) : Len(sink[i]) \in HeaderSize..(MaxFrameSize - CrcSize)

\* The inductive invariant behind the receiver's theorems.
LinkInv ==
  /\ LinkTypeOK
  /\ BufferOnlyInFrame
  /\ EscapeByteIsNotData
  /\ DeliveredFramesFit
=============================================================================
