------------------------------ MODULE LinkLine ------------------------------
(***************************************************************************)
(* The link layer end to end: frames encoded by Frame::encode              *)
(* (gateway/link.rs) and escaped (gateway/link/escaping.rs) go byte by     *)
(* byte over a line that may lose, alter or add bytes, to the receiver of  *)
(* module LinkReceiver.                                                    *)
(***************************************************************************)
EXTENDS LinkReceiver

CONSTANTS
  Bodies,     \* the bodies (address, type, payload) that are sent
  NoiseByte,  \* the bytes noise on the line can produce
  MaxFrames,  \* bound: frames sent
  MaxFaults   \* bound: bytes lost, altered or added

ASSUME LineConstants ==
  /\ NoiseByte \subseteq Byte
  /\ 0..6 \subseteq Byte
  /\ \A body \in Bodies :
       /\ body \in Seq(Byte)
       /\ Len(body) >= HeaderSize
       /\ Crc(body) \in Seq(Byte)
       /\ Len(Crc(body)) = CrcSize

VARIABLES
  frame,   \* the frame being sent, or the one sent last
  phase,   \* the part of it that goes on the line next
  pos,     \* how much of this part has gone
  sent,    \* history: the bodies whose transmission has begun
  faults,  \* history: the faults so far
  intact   \* history: no fault since an end delimiter that arrived whole

sendVars == <<frame, phase, pos, sent>>
lineVars == <<linkVars, sendVars, faults, intact>>

Phases == {"Quiet", "Start", "Content", "Escape", "End"}

(***************************************************************************)
(* Frame::encode: a preamble that depends on the direction and the start   *)
(* delimiter, the escaped body and checksum, and the end delimiter.        *)
(***************************************************************************)
Start(f) ==
  IF f.to THEN <<0, 255, 255, EscapeByte, StartByte>>
          ELSE <<255, EscapeByte, StartByte>>

Content(f) == f.body \o Crc(f.body)

\* Mutant: the escape byte itself goes out as it is.
NeedsEscapeButForEscape(b) == \E c \in 1..6 : Unescaped(c) = b

NeedsEscape(b) == \E c \in 0..6 : Unescaped(c) = b
EscapeCode(b) == CHOOSE c \in 0..6 : Unescaped(c) = b

Fits(f) == Len(Content(f)) <= MaxFrameSize

LineInit ==
  /\ LinkInit
  /\ frame = [to |-> FALSE, body |-> <<>>]
  /\ phase = "Quiet"
  /\ pos = 0
  /\ sent = <<>>
  /\ faults = 0
  /\ intact = TRUE

BeginFrame(f) ==
  /\ phase = "Quiet"
  /\ Len(sent) < MaxFrames
  /\ frame' = f
  /\ phase' = "Start"
  /\ pos' = 0
  /\ sent' = Append(sent, f.body)
  /\ UNCHANGED <<linkVars, faults, intact>>

(***************************************************************************)
(* The transmitter's steps: each puts byte b on the line.                  *)
(***************************************************************************)
SendStart(b) ==
  /\ phase = "Start"
  /\ b = Start(frame)[pos + 1]
  /\ IF pos + 1 < Len(Start(frame))
       THEN pos' = pos + 1 /\ phase' = "Start"
       ELSE pos' = 0 /\ phase' = "Content"

NextContent == Content(frame)[pos + 1]
AllSent == pos = Len(Content(frame))

SendPlain(b) ==
  /\ phase = "Content" /\ ~AllSent
  /\ ~NeedsEscape(NextContent)
  /\ b = NextContent
  /\ pos' = pos + 1
  /\ UNCHANGED phase

SendEscape(b) ==
  /\ phase = "Content" /\ ~AllSent
  /\ NeedsEscape(NextContent)
  /\ b = EscapeByte
  /\ phase' = "Escape"
  /\ UNCHANGED pos

SendEscapeCode(b) ==
  /\ phase = "Escape"
  /\ b = EscapeCode(NextContent)
  /\ pos' = pos + 1
  /\ phase' = "Content"

SendEndEscape(b) ==
  /\ phase = "Content" /\ AllSent
  /\ b = EscapeByte
  /\ phase' = "End"
  /\ UNCHANGED pos

SendEnd(b) ==
  /\ phase = "End"
  /\ b = EndByte
  /\ phase' = "Quiet"
  /\ UNCHANGED pos

SendByte(b) ==
  /\ \/ SendStart(b)
     \/ SendPlain(b)
     \/ SendEscape(b)
     \/ SendEscapeCode(b)
     \/ SendEndEscape(b)
     \/ SendEnd(b)
  /\ UNCHANGED <<frame, sent>>

(***************************************************************************)
(* The line (external): a byte arrives, is altered or lost, or noise adds  *)
(* one that nobody sent.  The end of a frame is whole when its escape byte *)
(* was the byte read last.                                                 *)
(***************************************************************************)
Arrives(b) ==
  /\ SendByte(b)
  /\ Push(b)
  /\ intact' = IF phase = "End" THEN prev = EscapeByte ELSE intact
  /\ UNCHANGED faults

Fault ==
  /\ faults < MaxFaults
  /\ faults' = faults + 1
  /\ intact' = FALSE

IsAltered(b) ==
  /\ Fault
  /\ SendByte(b)
  /\ \E n \in NoiseByte \ {b} : Push(n)

IsLost(b) ==
  /\ Fault
  /\ SendByte(b)
  /\ UNCHANGED linkVars

NoiseAdded ==
  /\ Fault
  /\ \E n \in NoiseByte : Push(n)
  /\ UNCHANGED sendVars

LineNext ==
  \/ \E body \in Bodies, to \in BOOLEAN : BeginFrame([to |-> to, body |-> body])
  \/ \E b \in Byte : Arrives(b) \/ IsAltered(b) \/ IsLost(b)
  \/ NoiseAdded

LineSpec == LineInit /\ [][LineNext]_lineVars
-----------------------------------------------------------------------------
\* The types of the transmitter's state; the receiver's are LinkTypeOK.
LineTypeOK ==
  /\ LinkTypeOK
  /\ frame \in [to : BOOLEAN, body : Bodies \cup {<<>>}]
  /\ phase \in Phases
  /\ phase # "Quiet" => frame.body \in Bodies
  /\ pos \in Nat
  /\ sent \in Seq(Bodies)
  /\ faults \in Nat
  /\ intact \in BOOLEAN

(***************************************************************************)
(* Re-synchronization (receive.rs:16): however badly the line behaved      *)
(* before, once an end delimiter has arrived whole the next frame is       *)
(* received, if it is not disturbed itself and the receiver's buffer can   *)
(* hold it.  So two undisturbed frames in a row lose at most the first.    *)
(***************************************************************************)
IntactFrameIsDelivered ==
  [][(phase = "End" /\ phase' = "Quiet" /\ intact /\ intact' /\ Fits(frame))
       => sink' = Append(sink, frame.body)]_lineVars

(***************************************************************************)
(* While nothing disturbs it, the receiver has unescaped exactly what the  *)
(* transmitter has escaped so far.                                         *)
(***************************************************************************)
BetweenStates == {"Idle", "Noise", "Giant"}
Synchronized ==
  intact =>
    CASE phase = "Quiet" -> state \in BetweenStates
      [] phase = "Start" ->
           state \in (IF Start(frame)[pos + 1] = StartByte
                        THEN {"StartOfFrame", "GiantEscape"} ELSE BetweenStates)
      [] phase = "Content" -> Fits(frame) =>
           state = "Frame" /\ buffer = SubSeq(Content(frame), 1, pos)
      [] phase = "Escape" -> Fits(frame) =>
           state = "FrameEscape" /\ buffer = SubSeq(Content(frame), 1, pos)
      [] phase = "End" -> Fits(frame) =>
           state = "FrameEscape" /\ buffer = Content(frame)

\* Where the transmitter stands in the part of the frame that goes out next.
Progress ==
  /\ phase = "Start" => pos < Len(Start(frame))
  /\ phase \in {"Content", "Escape"} => pos <= Len(Content(frame))
  /\ phase = "Escape" => ~AllSent /\ NeedsEscape(NextContent)
  /\ phase = "End" /\ intact => prev = EscapeByte

\* The inductive invariant behind the theorems about the line.
LineInv ==
  /\ LineTypeOK
  /\ LinkInv
  /\ Progress
  /\ Synchronized

(***************************************************************************)
(* With a checksum that tells every altered body from the ones sent, the   *)
(* link layer is a lossy link: see module LossyLink.                       *)
(***************************************************************************)
Lossy == INSTANCE LossyLink WITH Frames <- Bodies, received <- sink
LossyLinkSpec == Lossy!LossySpec
=============================================================================
