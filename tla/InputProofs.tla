----------------------------- MODULE InputProofs ----------------------------
(***************************************************************************)
(* How bytes come in.  Invariants of the link layer receiver for every     *)
(* stream of bytes, every frame size and every checksum function; its      *)
(* re-synchronization at the end of a line that alters, loses and adds     *)
(* bytes, for every set of frames and any number of faults; and what ties  *)
(* the variables of the reconnect loop that reads the bytes, for every     *)
(* command line.                                                           *)
(***************************************************************************)
EXTENDS LinkLine, Source, SequenceTheorems, TLAPS

(***************************************************************************)
(* Counting an event leaves a record of counters.                          *)
(***************************************************************************)
LEMMA CountedOnce ==
  ASSUME NEW c \in Counters
  PROVE  /\ [c EXCEPT !.frames = @ + 1] \in Counters
         /\ [c EXCEPT !.runts = @ + 1] \in Counters
         /\ [c EXCEPT !.giants = @ + 1] \in Counters
         /\ [c EXCEPT !.checksums = @ + 1] \in Counters
         /\ [c EXCEPT !.noise = @ + 1] \in Counters
BY DEF Counters

(***************************************************************************)
(* What a step of the receiver does to its state, by the case of push_u8   *)
(* it takes.  The later proofs only need these facts.                      *)
(***************************************************************************)
LEMMA LinkTypeStep ==
  ASSUME LinkTypeOK, NEW b \in Byte, Push(b)
  PROVE  LinkTypeOK'
<1> USE LinkConstants, LinkBytes, LinkUnescaped
<1>1. prev' \in Byte
  BY DEF Push
<1>2. ASSUME NEW next \in States, NEW buf \in Seq(Byte),
             Len(buf) <= MaxFrameSize, Become(next, buf)
      PROVE  LinkTypeOK'
  <2>1. state' \in States /\ buffer' \in Seq(Byte) /\ Len(buffer') <= MaxFrameSize
    BY <1>2 DEF Become
  <2>2. counters' \in Counters
    <3>1. counters \in Counters
      BY DEF LinkTypeOK
    <3> QED
      BY <1>2, <3>1, CountedOnce DEF Become
  <2>3. sink' = sink
    BY <1>2 DEF Become
  <2> QED
    BY <1>1, <2>1, <2>2, <2>3 DEF LinkTypeOK
<1>3. CASE BetweenFrames(b)
  BY <1>2, <1>3 DEF BetweenFrames, LinkTypeOK, States
<1>4. CASE StartOfFrame(b)
  BY <1>2, <1>4 DEF StartOfFrame, LinkTypeOK, States
<1>5. CASE InFrame(b)
  <2>1. HasRoom => Append(buffer, b) \in Seq(Byte) /\ Len(Append(buffer, b)) <= MaxFrameSize
    BY DEF HasRoom, LinkTypeOK
  <2> QED
    BY <1>2, <1>5, <2>1 DEF InFrame, LinkTypeOK, States
<1>6. CASE EndOfFrame(b)
  <2>1. state' \in States /\ buffer' \in Seq(Byte) /\ Len(buffer') <= MaxFrameSize
    BY <1>6 DEF EndOfFrame, States
  <2>2. ~IsRunt => BufferedBody \in Seq(Byte)
    <3> SUFFICES ASSUME ~IsRunt PROVE BufferedBody \in Seq(Byte)
      OBVIOUS
    <3>1. BodySize \in Int /\ BodySize <= Len(buffer)
      BY DEF LinkTypeOK, BodySize
    <3>2. \A i \in 1..BodySize : buffer[i] \in Byte
      BY <3>1 DEF LinkTypeOK
    <3> QED
      BY <3>1, <3>2, SubSeqProperties DEF BufferedBody
  <2>3. sink' \in Seq(Seq(Byte))
    <3>1. sink \in Seq(Seq(Byte))
      BY DEF LinkTypeOK
    <3>2. ~IsRunt => Append(sink, BufferedBody) \in Seq(Seq(Byte))
      BY <2>2, <3>1
    <3> QED
      BY <1>6, <3>1, <3>2 DEF EndOfFrame, ParseFrame
  <2>4. counters' \in Counters
    <3>1. counters \in Counters
      BY DEF LinkTypeOK
    <3> QED
      BY <1>6, <3>1, CountedOnce DEF EndOfFrame, ParseFrame
  <2> QED
    BY <1>1, <2>1, <2>3, <2>4 DEF LinkTypeOK
<1>7. CASE InFrameEscape(b)
  <2>1. IsEscapeCode(b) => Unescaped(b) \in Byte
    BY DEF IsEscapeCode
  <2>2. HasRoom /\ IsEscapeCode(b) =>
           /\ Append(buffer, Unescaped(b)) \in Seq(Byte)
           /\ Len(Append(buffer, Unescaped(b))) <= MaxFrameSize
    BY <2>1 DEF HasRoom, LinkTypeOK
  <2>3. <<>> \in Seq(Byte) /\ Len(<<>>) <= MaxFrameSize
    OBVIOUS
  <2> QED
    BY <1>2, <1>7, <2>2, <2>3 DEF InFrameEscape, States
<1>8. CASE InGiant(b)
  BY <1>2, <1>8 DEF InGiant, LinkTypeOK, States
<1>9. CASE InGiantEscape(b)
  BY <1>2, <1>9 DEF InGiantEscape, LinkTypeOK, States
<1> QED
  BY <1>3, <1>4, <1>5, <1>6, <1>7, <1>8, <1>9 DEF Push

(***************************************************************************)
(* The state and the buffer stay in step.                                  *)
(***************************************************************************)
LEMMA BufferStep ==
  ASSUME BufferOnlyInFrame, NEW b, Push(b)
  PROVE  BufferOnlyInFrame'
<1>1. CASE BetweenFrames(b)
  BY <1>1 DEF BetweenFrames, Become, BufferOnlyInFrame
<1>2. CASE StartOfFrame(b)
  BY <1>2 DEF StartOfFrame, Become, BufferOnlyInFrame
<1>3. CASE InFrame(b)
  BY <1>3 DEF InFrame, Become, BufferOnlyInFrame
<1>4. CASE EndOfFrame(b)
  BY <1>4 DEF EndOfFrame, BufferOnlyInFrame
<1>5. CASE InFrameEscape(b)
  BY <1>5 DEF InFrameEscape, Become, BufferOnlyInFrame
<1>6. CASE InGiant(b)
  BY <1>6 DEF InGiant, Become, BufferOnlyInFrame
<1>7. CASE InGiantEscape(b)
  BY <1>7 DEF InGiantEscape, Become, BufferOnlyInFrame
<1> QED
  BY <1>1, <1>2, <1>3, <1>4, <1>5, <1>6, <1>7 DEF Push

(***************************************************************************)
(* An escape byte is never taken for data.                                 *)
(***************************************************************************)
LEMMA EscapeStep ==
  ASSUME NEW b, Push(b)
  PROVE  EscapeByteIsNotData'
<1> SUFFICES ASSUME b = EscapeByte PROVE state' \notin {"Idle", "Frame"}
  BY DEF Push, EscapeByteIsNotData
<1>1. CASE BetweenFrames(b)
  BY <1>1 DEF BetweenFrames, Become, EscapeByte, Preamble
<1>2. CASE StartOfFrame(b)
  BY <1>2 DEF StartOfFrame, Become, EscapeByte, StartByte
<1>3. CASE InFrame(b)
  BY <1>3 DEF InFrame, Become
<1>4. CASE EndOfFrame(b)
  BY <1>4 DEF EndOfFrame, EscapeByte, EndByte
<1>5. CASE InFrameEscape(b)
  BY <1>5 DEF InFrameEscape, Become, EscapeByte, IsEscapeCode
<1>6. CASE InGiant(b)
  BY <1>6 DEF InGiant, Become
<1>7. CASE InGiantEscape(b)
  BY <1>7 DEF InGiantEscape, Become, EscapeByte, StartByte, EndByte
<1> QED
  BY <1>1, <1>2, <1>3, <1>4, <1>5, <1>6, <1>7 DEF Push

(***************************************************************************)
(* An end delimiter that arrives whole ends whatever was being received.   *)
(***************************************************************************)
LEMMA DelimiterStep ==
  ASSUME BufferOnlyInFrame, EscapeByteIsNotData, LinkTypeOK,
         prev = EscapeByte, Push(EndByte)
  PROVE  state' \in {"Idle", "Noise", "Giant"} /\ buffer' = <<>>
<1> USE DEF EndByte
<1>1. state \notin {"Idle", "Frame"}
  BY DEF EscapeByteIsNotData
<1>2. CASE BetweenFrames(EndByte)
  BY <1>1, <1>2 DEF BetweenFrames, Become, EscapeByte, Preamble, BufferOnlyInFrame
<1>3. CASE StartOfFrame(EndByte)
  BY <1>3 DEF StartOfFrame, Become, StartByte, BufferOnlyInFrame
<1>4. CASE InFrame(EndByte)
  BY <1>1, <1>4 DEF InFrame
<1>5. CASE EndOfFrame(EndByte)
  BY <1>5 DEF EndOfFrame
<1>6. CASE InFrameEscape(EndByte)
  BY <1>6 DEF InFrameEscape
<1>7. CASE InGiant(EndByte)
  BY <1>7 DEF InGiant, Become, EscapeByte, BufferOnlyInFrame
<1>8. CASE InGiantEscape(EndByte)
  BY <1>8 DEF InGiantEscape, Become, StartByte, BufferOnlyInFrame
<1> QED
  BY <1>2, <1>3, <1>4, <1>5, <1>6, <1>7, <1>8 DEF Push

(***************************************************************************)
(* What parse_frame_from_buffer hands on has a header and fits.            *)
(***************************************************************************)
LEMMA DeliveredStep ==
  ASSUME LinkTypeOK, DeliveredFramesFit, NEW b, Push(b)
  PROVE  DeliveredFramesFit'
<1>1. CASE sink' = sink
  BY <1>1 DEF DeliveredFramesFit
<1>2. CASE ~IsRunt /\ sink' = Append(sink, BufferedBody)
  <2>1. /\ BodySize \in Nat
        /\ BodySize >= HeaderSize
        /\ BodySize <= MaxFrameSize - CrcSize
    BY <1>2, LinkConstants DEF IsRunt, BodySize, LinkTypeOK
  <2>2. \A i \in 1..BodySize : buffer[i] \in Byte
    BY <2>1, LinkConstants DEF LinkTypeOK, BodySize
  <2>3. Len(BufferedBody) = BodySize
    BY <2>1, <2>2, SubSeqProperties DEF BufferedBody
  <2>4. Len(BufferedBody) \in HeaderSize..(MaxFrameSize - CrcSize)
    BY <2>1, <2>3, LinkConstants
  <2>5. /\ Len(sink') = Len(sink) + 1
        /\ \A i \in 1..Len(sink) : sink'[i] = sink[i]
        /\ sink'[Len(sink) + 1] = BufferedBody
    BY <1>2 DEF LinkTypeOK
  <2>6. Len(sink) \in Nat
    BY DEF LinkTypeOK
  <2>7. ASSUME NEW i \in 1..Len(sink')
        PROVE  Len(sink'[i]) \in HeaderSize..(MaxFrameSize - CrcSize)
    <3>1. CASE i \in 1..Len(sink)
      BY <3>1, <2>5 DEF DeliveredFramesFit
    <3>2. CASE i = Len(sink) + 1
      BY <3>2, <2>4, <2>5
    <3> QED
      BY <3>1, <3>2, <2>5, <2>6
  <2> QED
    BY <2>7 DEF DeliveredFramesFit
<1>3. sink' = sink \/ (~IsRunt /\ sink' = Append(sink, BufferedBody))
  BY DEF Push, BetweenFrames, StartOfFrame, InFrame, EndOfFrame, ParseFrame,
         InFrameEscape, InGiant, InGiantEscape, Become
<1> QED
  BY <1>1, <1>2, <1>3

(***************************************************************************)
(* Reading a byte preserves the inductive invariant.                       *)
(***************************************************************************)
LEMMA LinkInvPush ==
  ASSUME LinkInv, NEW b \in Byte, Push(b)
  PROVE  LinkInv'
BY LinkTypeStep, BufferStep, EscapeStep, DeliveredStep DEF LinkInv

LEMMA LinkInvInit == LinkInit => LinkInv
<1> SUFFICES ASSUME LinkInit PROVE LinkInv
  OBVIOUS
<1>1. LinkTypeOK
  BY LinkConstants, LinkBytes DEF LinkInit, LinkTypeOK, States, ZeroCounters, Counters
<1>2. BufferOnlyInFrame /\ EscapeByteIsNotData /\ DeliveredFramesFit
  BY DEF LinkInit, BufferOnlyInFrame, EscapeByteIsNotData, EscapeByte, DeliveredFramesFit
<1> QED
  BY <1>1, <1>2 DEF LinkInv

LEMMA LinkInvNext == LinkInv /\ [LinkNext]_linkVars => LinkInv'
<1> SUFFICES ASSUME LinkInv, [LinkNext]_linkVars PROVE LinkInv'
  OBVIOUS
<1>1. CASE \E b \in Byte : Push(b)
  BY <1>1, LinkInvPush
<1>2. CASE ResetCounters
  <2>1. LinkTypeOK'
    BY <1>2 DEF ResetCounters, LinkInv, LinkTypeOK, ZeroCounters, Counters
  <2> QED
    BY <1>2, <2>1 DEF ResetCounters, LinkInv, BufferOnlyInFrame, EscapeByteIsNotData,
                      DeliveredFramesFit
<1>3. CASE UNCHANGED linkVars
  BY <1>3 DEF linkVars, LinkInv, LinkTypeOK, BufferOnlyInFrame, EscapeByteIsNotData,
              DeliveredFramesFit
<1> QED
  BY <1>1, <1>2, <1>3 DEF LinkNext

(***************************************************************************)
(* The receiver's inductive invariant holds whatever bytes it reads.       *)
(***************************************************************************)
THEOREM LinkInvariant == LinkSpec => []LinkInv
BY LinkInvInit, LinkInvNext, PTL DEF LinkSpec

(***************************************************************************)
(* The receiver's fields keep their types and the buffer its bound         *)
(* (receive.rs: MAX_FRAME_SIZE is checked before each push).               *)
(***************************************************************************)
THEOREM LinkTypeCorrect == LinkSpec => []LinkTypeOK
<1>1. LinkInv => LinkTypeOK
  BY DEF LinkInv
<1> QED
  BY <1>1, LinkInvariant, PTL

(***************************************************************************)
(* No frame starts with bytes of an earlier one.                           *)
(***************************************************************************)
THEOREM BufferCorrect == LinkSpec => []BufferOnlyInFrame
<1>1. LinkInv => BufferOnlyInFrame
  BY DEF LinkInv
<1> QED
  BY <1>1, LinkInvariant, PTL

(***************************************************************************)
(* Frames that reach the sink have a header, and fit the buffer.           *)
(***************************************************************************)
THEOREM DeliveredCorrect == LinkSpec => []DeliveredFramesFit
<1>1. LinkInv => DeliveredFramesFit
  BY DEF LinkInv
<1> QED
  BY <1>1, LinkInvariant, PTL

(***************************************************************************)
(* The bytes of an end delimiter, 0x7e 0x08, leave the receiver between    *)
(* frames or in Giant, with nothing buffered, whatever came before.        *)
(***************************************************************************)
THEOREM DelimiterCorrect == LinkSpec => DelimiterSynchronizes
<1>1. LinkInv /\ [LinkNext]_linkVars =>
        [prev = EscapeByte /\ prev' = EndByte =>
           buffer' = <<>> /\ state' \in {"Idle", "Noise", "Giant"}]_linkVars
  <2> SUFFICES ASSUME LinkInv, LinkNext, prev = EscapeByte, prev' = EndByte
               PROVE  buffer' = <<>> /\ state' \in {"Idle", "Noise", "Giant"}
    OBVIOUS
  <2>1. PICK b \in Byte : Push(b)
    BY DEF LinkNext, ResetCounters, EscapeByte, EndByte
  <2>2. b = EndByte
    BY <2>1 DEF Push
  <2> QED
    BY <2>1, <2>2, DelimiterStep DEF LinkInv
<1> QED
  BY <1>1, LinkInvariant, PTL DEF LinkSpec, DelimiterSynchronizes
-----------------------------------------------------------------------------
(***************************************************************************)
(* Facts about the encoder: what it sends is a sequence of bytes, and      *)
(* unescaped_byte undoes escape.                                           *)
(***************************************************************************)
LEMMA ContentIsBytes ==
  ASSUME NEW f, f.body \in Bodies
  PROVE  /\ Content(f) \in Seq(Byte)
         /\ Len(Content(f)) = Len(f.body) + CrcSize
         /\ Len(f.body) >= HeaderSize
         /\ f.body \in Seq(Byte) /\ Crc(f.body) \in Seq(Byte)
         /\ Len(Crc(f.body)) = CrcSize
<1>1. /\ f.body \in Seq(Byte) /\ Len(f.body) >= HeaderSize
      /\ Crc(f.body) \in Seq(Byte) /\ Len(Crc(f.body)) = CrcSize
  BY LineConstants
<1>2. /\ f.body \o Crc(f.body) \in Seq(Byte)
      /\ Len(f.body \o Crc(f.body)) = Len(f.body) + Len(Crc(f.body))
  <2>1. \A s, t \in Seq(Byte) : s \o t \in Seq(Byte) /\ Len(s \o t) = Len(s) + Len(t)
    OBVIOUS
  <2> QED
    BY <1>1, <2>1, Zenon
<1> QED
  BY <1>1, <1>2 DEF Content

LEMMA StartBytes ==
  ASSUME NEW f, NEW i \in 1..Len(Start(f))
  PROVE  /\ Start(f)[i] \in {0, 255, EscapeByte, StartByte}
         /\ Len(Start(f)) \in Nat
         /\ Start(f)[i] = StartByte <=> i = Len(Start(f))
         /\ Start(f)[i] = EscapeByte <=> i + 1 = Len(Start(f))
         /\ Start(f)[1] \in {0, 255} /\ Len(Start(f)) > 2
BY DEF Start, EscapeByte, StartByte

LEMMA EscapeInverse ==
  ASSUME NEW b, NeedsEscape(b)
  PROVE  /\ EscapeCode(b) \in 0..6
         /\ Unescaped(EscapeCode(b)) = b
BY DEF NeedsEscape, EscapeCode

LEMMA EscapeByteNeedsEscape == NeedsEscape(EscapeByte)
<1>1. 0 \in 0..6 /\ Unescaped(0) = EscapeByte
  BY DEF Unescaped, EscapedBytes, EscapeByte
<1> QED
  BY <1>1 DEF NeedsEscape

(***************************************************************************)
(* A prefix of the content grows by the byte sent next.                    *)
(***************************************************************************)
LEMMA PrefixGrows ==
  ASSUME NEW c \in Seq(Byte), NEW n \in Nat, n < Len(c)
  PROVE  Append(SubSeq(c, 1, n), c[n + 1]) = SubSeq(c, 1, n + 1)
<1>1. 1 \in 1..Len(c) /\ n + 1 \in 1..Len(c)
  OBVIOUS
<1>2. SubSeq(c, 1, n + 1) = SubSeq(c, 1, (n + 1) - 1) \o <<c[n + 1]>>
  BY <1>1, SubSeqRecursiveSecond
<1>3. (n + 1) - 1 = n
  OBVIOUS
<1>4. SubSeq(c, 1, n) \in Seq(Byte) /\ c[n + 1] \in Byte
  BY <1>1
<1> QED
  BY <1>2, <1>3, <1>4

(***************************************************************************)
(* What the receiver does with a byte of each kind while it is in step.    *)
(***************************************************************************)
LEMMA PreambleStep ==
  ASSUME NEW b \in {0, 255}, state \in BetweenStates, Push(b)
  PROVE  state' \in BetweenStates
BY DEF BetweenStates, Push, BetweenFrames, StartOfFrame, InFrame, EndOfFrame,
       InFrameEscape, InGiant, InGiantEscape, Become, Preamble, EscapeByte

LEMMA StartEscapeStep ==
  ASSUME state \in BetweenStates, Push(EscapeByte)
  PROVE  state' \in {"StartOfFrame", "GiantEscape"}
BY DEF BetweenStates, Push, BetweenFrames, StartOfFrame, InFrame, EndOfFrame,
       InFrameEscape, InGiant, InGiantEscape, Become, Preamble, EscapeByte

LEMMA StartStep ==
  ASSUME BufferOnlyInFrame, state \in {"StartOfFrame", "GiantEscape"}, Push(StartByte)
  PROVE  state' = "Frame" /\ buffer' = <<>>
BY DEF BufferOnlyInFrame, Push, BetweenFrames, StartOfFrame, InFrame, EndOfFrame,
       InFrameEscape, InGiant, InGiantEscape, Become, StartByte, EndByte

LEMMA PlainStep ==
  ASSUME NEW b, b # EscapeByte, state = "Frame", HasRoom, Push(b)
  PROVE  state' = "Frame" /\ buffer' = Append(buffer, b)
BY DEF Push, BetweenFrames, StartOfFrame, InFrame, EndOfFrame,
       InFrameEscape, InGiant, InGiantEscape, Become

LEMMA EscapeInFrameStep ==
  ASSUME state = "Frame", Push(EscapeByte)
  PROVE  state' = "FrameEscape" /\ buffer' = buffer
BY DEF Push, BetweenFrames, StartOfFrame, InFrame, EndOfFrame,
       InFrameEscape, InGiant, InGiantEscape, Become

LEMMA EscapeCodeStep ==
  ASSUME NEW b \in 0..6, state = "FrameEscape", HasRoom, Push(b)
  PROVE  state' = "Frame" /\ buffer' = Append(buffer, Unescaped(b))
BY DEF Push, BetweenFrames, StartOfFrame, InFrame, EndOfFrame,
       InFrameEscape, InGiant, InGiantEscape, Become, IsEscapeCode, EndByte

(***************************************************************************)
(* A frame whose content is buffered is delivered when it ends.            *)
(***************************************************************************)
LEMMA DeliveryStep ==
  ASSUME LineTypeOK, phase = "End", state = "FrameEscape",
         buffer = Content(frame), Push(EndByte)
  PROVE  sink' = Append(sink, frame.body)
<1>1. frame.body \in Bodies
  BY DEF LineTypeOK
<1> DEFINE body == frame.body
           crc == Crc(frame.body)
<1>2. /\ body \in Seq(Byte) /\ crc \in Seq(Byte)
      /\ Len(crc) = CrcSize /\ Len(body) >= HeaderSize
      /\ buffer = body \o crc
      /\ Len(buffer) = Len(body) + CrcSize
  BY <1>1, ContentIsBytes DEF Content
<1> HIDE DEF body, crc
<1>3. BodySize = Len(body)
  BY <1>2, LinkConstants DEF BodySize
<1>4. BufferedBody = body
  <2>1. SubSeq(buffer, 1, Len(body)) = body
    BY <1>2
  <2> QED
    BY <2>1, <1>3 DEF BufferedBody
<1>5. BufferedCrc = crc
  <2>1. SubSeq(body \o crc, Len(body) + 1, Len(body) + Len(crc)) = crc
    BY <1>2
  <2> QED
    BY <2>1, <1>2, <1>3 DEF BufferedCrc
<1>6. ~IsRunt
  BY <1>2, LinkConstants DEF IsRunt
<1>7. ParseFrame
  BY DEF Push, BetweenFrames, StartOfFrame, InFrame, EndOfFrame, InFrameEscape,
         InGiant, InGiantEscape, EndByte
<1> QED
  BY <1>4, <1>5, <1>6, <1>7 DEF ParseFrame, body, crc

(***************************************************************************)
(* A byte that arrives keeps an undisturbed receiver in step.              *)
(***************************************************************************)
LEMMA ArrivesSynchronized ==
  ASSUME LineInv, NEW b \in Byte, Arrives(b)
  PROVE  Synchronized' /\ Progress'
<1> USE LinkConstants
<1> DEFINE content == Content(frame)
<1>1. /\ LineTypeOK /\ LinkTypeOK /\ BufferOnlyInFrame /\ EscapeByteIsNotData
      /\ Progress /\ Synchronized /\ Push(b) /\ SendByte(b) /\ frame' = frame
      /\ pos \in Nat /\ prev' = b
      /\ phase # "End" => intact' = intact
      /\ phase = "End" => intact' = (prev = EscapeByte)
  BY DEF LineInv, LinkInv, LineTypeOK, Arrives, SendByte, Push
<1>2. phase # "Quiet" /\ frame.body \in Bodies
  BY <1>1 DEF SendByte, SendStart, SendPlain, SendEscape, SendEscapeCode,
              SendEndEscape, SendEnd, LineTypeOK
<1>3. content \in Seq(Byte) /\ Len(content) \in Nat
  BY <1>2, ContentIsBytes
<1>4. Content(frame') = content /\ Start(frame') = Start(frame)
      /\ (Fits(frame') <=> Fits(frame))
  BY <1>1
<1>5. Fits(frame) <=> Len(content) <= MaxFrameSize
  BY DEF Fits
<1> HIDE DEF content
<1>6. CASE SendStart(b)
  <2>1. pos < Len(Start(frame)) /\ pos + 1 \in 1..Len(Start(frame))
        /\ b = Start(frame)[pos + 1] /\ phase = "Start"
    BY <1>1, <1>6 DEF SendStart, Progress, Start
  <2>2. CASE pos + 1 < Len(Start(frame))
    <3>1. phase' = "Start" /\ pos' = pos + 1
      BY <1>6, <2>2 DEF SendStart
    <3>2. Progress'
      BY <3>1, <2>2, <1>4 DEF Progress
    <3>3. ASSUME intact PROVE state' \in (IF Start(frame)[pos + 2] = StartByte
                        THEN {"StartOfFrame", "GiantEscape"} ELSE BetweenStates)
      <4>1. state \in BetweenStates
        BY <3>3, <1>1, <2>1, <2>2, StartBytes DEF Synchronized
      <4>2. CASE b = EscapeByte
        <5>1. Start(frame)[pos + 2] = StartByte
          BY <4>2, <2>1, <2>2, <1>1, StartBytes
        <5> QED
          BY <4>1, <4>2, <5>1, <1>1, StartEscapeStep
      <4>3. CASE b # EscapeByte
        <5>1. b \in {0, 255} /\ Start(frame)[pos + 2] # StartByte
          BY <4>3, <2>1, <2>2, <1>1, StartBytes
        <5> QED
          BY <4>1, <5>1, <1>1, PreambleStep
      <4> QED
        BY <4>2, <4>3
    <3>4. pos' + 1 = pos + 2
      BY <3>1, <1>1
    <3> QED
      BY <3>1, <3>2, <3>3, <3>4, <2>1, <1>1, <1>4 DEF Synchronized
  <2>3. CASE pos + 1 = Len(Start(frame))
    <3>1. phase' = "Content" /\ pos' = 0
      BY <1>6, <2>3 DEF SendStart
    <3>2. Progress'
      BY <3>1, <1>3, <1>4 DEF Progress, content
    <3>3. b = StartByte
      BY <2>1, <2>3, StartBytes
    <3>4. ASSUME intact PROVE state' = "Frame" /\ buffer' = SubSeq(content, 1, 0)
      <4>1. state \in {"StartOfFrame", "GiantEscape"}
        BY <3>3, <3>4, <1>1, <2>1 DEF Synchronized
      <4>2. SubSeq(content, 1, 0) = <<>>
        BY <1>3
      <4> QED
        BY <4>1, <4>2, <3>3, <1>1, StartStep
    <3> QED
      BY <3>1, <3>2, <3>4, <1>1, <1>4, <2>1 DEF Synchronized
  <2> QED
    BY <2>1, <2>2, <2>3, <1>1
<1>7. CASE SendPlain(b)
  <2>1. /\ phase = "Content" /\ phase' = "Content" /\ pos' = pos + 1
        /\ b = content[pos + 1] /\ pos < Len(content) /\ b # EscapeByte
    BY <1>1, <1>3, <1>7, EscapeByteNeedsEscape
       DEF SendPlain, NextContent, AllSent, Progress, content
  <2>2. Progress'
    BY <2>1, <1>1, <1>3, <1>4 DEF Progress, content
  <2>3. ASSUME intact, Fits(frame)
        PROVE  state' = "Frame" /\ buffer' = SubSeq(content, 1, pos + 1)
    <3>1. state = "Frame" /\ buffer = SubSeq(content, 1, pos)
      BY <2>1, <2>3, <1>1 DEF Synchronized, content
    <3>2. HasRoom
      BY <3>1, <2>1, <2>3, <1>1, <1>3, <1>5 DEF HasRoom
    <3> QED
      BY <3>1, <3>2, <2>1, <1>1, <1>3, PlainStep, PrefixGrows
  <2> QED
    BY <2>1, <2>2, <2>3, <1>1, <1>4 DEF Synchronized
<1>8. CASE SendEscape(b)
  <2>1. /\ phase = "Content" /\ phase' = "Escape" /\ pos' = pos
        /\ b = EscapeByte /\ ~AllSent /\ NeedsEscape(NextContent)
    BY <1>8 DEF SendEscape
  <2>2. Progress'
    BY <2>1, <1>1, <1>4 DEF Progress, AllSent, NextContent, content
  <2>3. ASSUME intact, Fits(frame)
        PROVE  state' = "FrameEscape" /\ buffer' = SubSeq(content, 1, pos)
    <3>1. state = "Frame" /\ buffer = SubSeq(content, 1, pos)
      BY <2>1, <2>3, <1>1 DEF Synchronized, content
    <3> QED
      BY <3>1, <2>1, <1>1, EscapeInFrameStep
  <2> QED
    BY <2>1, <2>2, <2>3, <1>1, <1>4 DEF Synchronized
<1>9. CASE SendEscapeCode(b)
  <2>1. /\ phase = "Escape" /\ phase' = "Content" /\ pos' = pos + 1
        /\ b \in 0..6 /\ Unescaped(b) = content[pos + 1] /\ pos < Len(content)
    BY <1>1, <1>3, <1>9, EscapeInverse
       DEF SendEscapeCode, NextContent, AllSent, Progress, content
  <2>2. Progress'
    BY <2>1, <1>1, <1>3, <1>4 DEF Progress, content
  <2>3. ASSUME intact, Fits(frame)
        PROVE  state' = "Frame" /\ buffer' = SubSeq(content, 1, pos + 1)
    <3>1. state = "FrameEscape" /\ buffer = SubSeq(content, 1, pos)
      BY <2>1, <2>3, <1>1 DEF Synchronized, content
    <3>2. HasRoom
      BY <3>1, <2>1, <2>3, <1>1, <1>3, <1>5 DEF HasRoom
    <3> QED
      BY <3>1, <3>2, <2>1, <1>1, <1>3, EscapeCodeStep, PrefixGrows
  <2> QED
    BY <2>1, <2>2, <2>3, <1>1, <1>4 DEF Synchronized
<1>10. CASE SendEndEscape(b)
  <2>1. /\ phase = "Content" /\ phase' = "End" /\ b = EscapeByte
        /\ pos = Len(content)
    BY <1>10 DEF SendEndEscape, AllSent, content
  <2>2. Progress'
    BY <2>1, <1>1 DEF Progress
  <2>3. ASSUME intact, Fits(frame)
        PROVE  state' = "FrameEscape" /\ buffer' = content
    <3>1. state = "Frame" /\ buffer = SubSeq(content, 1, pos)
      BY <2>1, <2>3, <1>1 DEF Synchronized, content
    <3>2. SubSeq(content, 1, Len(content)) = content
      BY <1>3, SubSeqFull
    <3> QED
      BY <3>1, <3>2, <2>1, <1>1, EscapeInFrameStep
  <2> QED
    BY <2>1, <2>2, <2>3, <1>1, <1>4 DEF Synchronized
<1>11. CASE SendEnd(b)
  <2>1. phase = "End" /\ phase' = "Quiet" /\ b = EndByte
    BY <1>11 DEF SendEnd
  <2>2. Progress'
    BY <2>1 DEF Progress
  <2>3. ASSUME prev = EscapeByte PROVE state' \in BetweenStates
    BY <2>1, <2>3, <1>1, DelimiterStep DEF BetweenStates
  <2> QED
    BY <2>1, <2>2, <2>3, <1>1 DEF Synchronized
<1> QED
  BY <1>1, <1>6, <1>7, <1>8, <1>9, <1>10, <1>11 DEF SendByte

(***************************************************************************)
(* The transmitter's own state keeps its types, whatever the line does.    *)
(***************************************************************************)
LEMMA SendByteTypes ==
  ASSUME LineTypeOK, NEW b, SendByte(b)
  PROVE  /\ frame' = frame /\ sent' = sent
         /\ phase' \in Phases /\ pos' \in Nat
         /\ frame.body \in Bodies
BY DEF LineTypeOK, SendByte, SendStart, SendPlain, SendEscape, SendEscapeCode,
       SendEndEscape, SendEnd, Phases

\* The facts of Progress that do not depend on how the line behaves.
LEMMA SendByteProgress ==
  ASSUME LineTypeOK, Progress, NEW b, SendByte(b), intact' = FALSE
  PROVE  Progress'
<1>1. /\ frame' = frame /\ pos \in Nat /\ frame.body \in Bodies
      /\ Content(frame') = Content(frame) /\ Start(frame') = Start(frame)
      /\ Len(Content(frame)) \in Nat
  <2>1. frame' = frame /\ frame.body \in Bodies
    BY SendByteTypes
  <2> QED
    BY <2>1, ContentIsBytes DEF LineTypeOK
<1>2. CASE SendStart(b)
  BY <1>1, <1>2 DEF SendStart, Progress, Start
<1>3. CASE SendPlain(b)
  BY <1>1, <1>3 DEF SendPlain, Progress, AllSent
<1>4. CASE SendEscape(b)
  BY <1>1, <1>4 DEF SendEscape, Progress, AllSent, NextContent
<1>5. CASE SendEscapeCode(b)
  BY <1>1, <1>5 DEF SendEscapeCode, Progress, AllSent
<1>6. CASE SendEndEscape(b)
  BY <1>6 DEF SendEndEscape, Progress
<1>7. CASE SendEnd(b)
  BY <1>7 DEF SendEnd, Progress
<1> QED
  BY <1>2, <1>3, <1>4, <1>5, <1>6, <1>7 DEF SendByte

LEMMA LineInvInit == LineInit => LineInv
<1> SUFFICES ASSUME LineInit PROVE LineInv
  OBVIOUS
<1>1. LinkInv
  BY LinkInvInit DEF LineInit
<1>2. LineTypeOK
  BY <1>1 DEF LineInit, LineTypeOK, LinkInv, Phases
<1>3. Progress /\ Synchronized
  BY DEF LineInit, LinkInit, Progress, Synchronized, BetweenStates
<1> QED
  BY <1>1, <1>2, <1>3 DEF LineInv

LEMMA LineInvNext == LineInv /\ [LineNext]_lineVars => LineInv'
<1> SUFFICES ASSUME LineInv, [LineNext]_lineVars PROVE LineInv'
  OBVIOUS
<1>0. LineTypeOK /\ LinkInv /\ LinkTypeOK /\ Progress /\ Synchronized
  BY DEF LineInv, LinkInv
<1>1. ASSUME NEW body \in Bodies, NEW to \in BOOLEAN,
             BeginFrame([to |-> to, body |-> body])
      PROVE  LineInv'
  <2>1. UNCHANGED linkVars /\ LinkInv'
    BY <1>0, <1>1 DEF BeginFrame, linkVars, LinkInv, LinkTypeOK, BufferOnlyInFrame,
                      EscapeByteIsNotData, DeliveredFramesFit
  <2>2. LineTypeOK'
    <3>1. sent' \in Seq(Bodies)
      BY <1>0, <1>1 DEF BeginFrame, LineTypeOK
    <3> QED
      BY <1>0, <1>1, <2>1, <3>1 DEF BeginFrame, LineTypeOK, Phases, LinkInv
  <2>3. Progress'
    BY <1>1 DEF BeginFrame, Progress, Start
  <2>4. Synchronized'
    <3>1. Start(frame')[1] # StartByte
      BY <1>1 DEF Start, StartByte
    <3> QED
      BY <1>0, <1>1, <2>1, <3>1 DEF BeginFrame, Synchronized, linkVars
  <2> QED
    BY <2>1, <2>2, <2>3, <2>4 DEF LineInv
<1>2. ASSUME NEW b \in Byte, Arrives(b)
      PROVE  LineInv'
  <2>1. LinkInv'
    BY <1>0, <1>2, LinkInvPush DEF Arrives
  <2>2. LineTypeOK'
    BY <1>0, <1>2, <2>1, SendByteTypes DEF Arrives, LineTypeOK, LinkInv
  <2> QED
    BY <1>2, <2>1, <2>2, ArrivesSynchronized DEF LineInv
<1>3. ASSUME NEW b \in Byte, IsAltered(b) \/ IsLost(b)
      PROVE  LineInv'
  <2>1. LinkInv'
    <3>1. CASE UNCHANGED linkVars
      BY <1>0, <3>1 DEF linkVars, LinkInv, LinkTypeOK, BufferOnlyInFrame,
                        EscapeByteIsNotData, DeliveredFramesFit
    <3>2. CASE \E n \in Byte : Push(n)
      BY <1>0, <3>2, LinkInvPush
    <3> QED
      BY <1>3, <3>1, <3>2, LineConstants DEF IsAltered, IsLost
  <2>2. /\ SendByte(b) /\ intact' = FALSE
        /\ faults' \in Nat
    BY <1>0, <1>3 DEF IsAltered, IsLost, Fault, LineTypeOK
  <2>3. LineTypeOK'
    BY <1>0, <2>1, <2>2, SendByteTypes DEF LineTypeOK, LinkInv
  <2>4. Progress' /\ Synchronized'
    BY <1>0, <2>2, SendByteProgress DEF Synchronized
  <2> QED
    BY <2>1, <2>3, <2>4 DEF LineInv
<1>4. CASE NoiseAdded
  <2>1. LinkInv'
    BY <1>0, <1>4, LinkInvPush, LineConstants DEF NoiseAdded
  <2>2. intact' = FALSE /\ faults' \in Nat /\ UNCHANGED sendVars
    BY <1>0, <1>4 DEF NoiseAdded, Fault, LineTypeOK
  <2>3. LineTypeOK'
    BY <1>0, <2>1, <2>2 DEF LineTypeOK, LinkInv, sendVars
  <2>4. Progress' /\ Synchronized'
    BY <1>0, <2>2 DEF Progress, Synchronized, sendVars, AllSent, NextContent
  <2> QED
    BY <2>1, <2>3, <2>4 DEF LineInv
<1>5. CASE UNCHANGED lineVars
  <2>1. LinkInv'
    BY <1>0, <1>5 DEF lineVars, linkVars, LinkInv, LinkTypeOK, BufferOnlyInFrame,
                      EscapeByteIsNotData, DeliveredFramesFit
  <2>2. LineTypeOK' /\ Progress'
    BY <1>0, <1>5, <2>1 DEF lineVars, linkVars, sendVars, LineTypeOK, LinkInv, Progress,
                            AllSent, NextContent
  <2>3. Synchronized'
    BY <1>0, <1>5 DEF lineVars, linkVars, sendVars, Synchronized
  <2> QED
    BY <2>1, <2>2, <2>3 DEF LineInv
<1> QED
  BY <1>1, <1>2, <1>3, <1>4, <1>5 DEF LineNext

(***************************************************************************)
(* Transmitter, line and receiver satisfy the inductive invariant for any  *)
(* number of frames and faults.                                            *)
(***************************************************************************)
THEOREM LineInvariant == LineSpec => []LineInv
BY LineInvInit, LineInvNext, PTL DEF LineSpec

(***************************************************************************)
(* As long as nothing disturbs the line, the receiver holds exactly what   *)
(* the transmitter has sent of the frame.                                  *)
(***************************************************************************)
THEOREM SynchronizedCorrect == LineSpec => []Synchronized
<1>1. LineInv => Synchronized
  BY DEF LineInv
<1> QED
  BY <1>1, LineInvariant, PTL

(***************************************************************************)
(* The receiver re-synchronizes: after an end delimiter that arrived       *)
(* whole, the next undisturbed frame that fits is delivered, whatever the  *)
(* frames are and however many faults came before.                         *)
(***************************************************************************)
THEOREM IntactFrameCorrect == LineSpec => IntactFrameIsDelivered
<1> DEFINE Step == (phase = "End" /\ phase' = "Quiet" /\ intact /\ intact' /\ Fits(frame))
                     => sink' = Append(sink, frame.body)
<1>1. LineInv /\ [LineNext]_lineVars => [Step]_lineVars
  <2> SUFFICES ASSUME LineInv, LineNext, phase = "End", phase' = "Quiet",
                      intact, intact', Fits(frame)
               PROVE  sink' = Append(sink, frame.body)
    OBVIOUS
  <2>1. LineTypeOK /\ Synchronized
    BY DEF LineInv
  <2>2. PICK b \in Byte : Arrives(b)
    BY DEF LineNext, BeginFrame, IsAltered, IsLost, NoiseAdded, Fault
  <2>3. b = EndByte
    BY <2>2 DEF Arrives, SendByte, SendStart, SendPlain, SendEscape, SendEscapeCode,
                SendEndEscape, SendEnd
  <2>4. state = "FrameEscape" /\ buffer = Content(frame)
    BY <2>1 DEF Synchronized
  <2> QED
    BY <2>1, <2>2, <2>3, <2>4, DeliveryStep DEF Arrives
<1> QED
  BY <1>1, LineInvariant, PTL DEF LineSpec, IntactFrameIsDelivered
-----------------------------------------------------------------------------
(***************************************************************************)
(* The reconnect loop: a round that does not count a failure leaves the    *)
(* limit kept.                                                             *)
(***************************************************************************)
LEMMA UncountedRound ==
  ASSUME SourceTypeOK, pc # "exited", UNCHANGED <<config, peer>>,
         retry' \in {retry, 0}, overdue' \in BOOLEAN, conn' \in ConnStates,
         pc' \in {"opening", "reading", "sleeping"},
         (conn' # "none") = (pc' = "reading")
  PROVE  SourceTypeOK'
<1>1. \A c \in Configs : c.limit \in Nat /\ RetryModulus \in Nat \ {0}
  BY ConfigAssumption DEF IsConfig
<1> QED
  BY <1>1 DEF SourceTypeOK, ConnStates, Peers

\* A round that does keeps it or ends the program.
LEMMA CountedRound ==
  ASSUME SourceTypeOK, pc # "exited", CountRetry, conn' = "none",
         UNCHANGED <<config, overdue, peer>>
  PROVE  SourceTypeOK'
<1> DEFINE next == (retry + 1) % RetryModulus
<1>1. /\ config.limit \in Nat /\ RetryModulus \in Nat \ {0}
      /\ config.limit < RetryModulus
  BY ConfigAssumption DEF IsConfig, SourceTypeOK
<1>2. next \in 0..RetryModulus - 1
  BY <1>1 DEF SourceTypeOK
<1>3. retry' = next /\ pc' = IF Exceeds(next) THEN "exited" ELSE "sleeping"
  BY DEF CountRetry
<1> HIDE DEF next
<1>4. pc' # "exited" /\ config.limit # 0 => retry' <= config.limit
  BY <1>1, <1>2, <1>3 DEF Exceeds
<1> QED
  BY <1>2, <1>3, <1>4 DEF SourceTypeOK, ConnStates

LEMMA SourceStep ==
  ASSUME SourceTypeOK, [Next]_vars
  PROVE  SourceTypeOK'
<1>1. CASE OpenFails
  <2>1. pc # "exited" /\ conn' = "none"
    BY <1>1 DEF OpenFails, SourceTypeOK
  <2> QED
    BY <1>1, <2>1, CountedRound DEF OpenFails
<1>2. CASE OpenSucceeds
  BY <1>2, UncountedRound DEF OpenSucceeds, ConnStates
<1>3. CASE ReadData
  BY <1>3, UncountedRound DEF ReadData, SourceTypeOK
<1>4. CASE ReadEnd
  BY <1>4, UncountedRound DEF ReadEnd, Break, SourceTypeOK, ConnStates
<1>5. CASE ReadTimedOutEarly
  BY <1>5, UncountedRound DEF ReadTimedOutEarly, SourceTypeOK, ConnStates
<1>6. CASE ReadTimedOutLate
  BY <1>6, CountedRound DEF ReadTimedOutLate
<1>7. CASE ReadError
  BY <1>7, UncountedRound DEF ReadError, Break, SourceTypeOK, ConnStates
<1>8. CASE Awake
  BY <1>8, UncountedRound DEF Awake, SourceTypeOK
<1>9. CASE Elapse
  BY <1>9, UncountedRound DEF Elapse, SourceTypeOK
<1>10. CASE PeerBecomes
  BY <1>10 DEF PeerBecomes, SourceTypeOK
<1>11. CASE PeerIsMissed
  BY <1>11, UncountedRound DEF PeerIsMissed, SourceTypeOK, ConnStates
<1>12. CASE PeerCloses
  BY <1>12, UncountedRound DEF PeerCloses, SourceTypeOK, ConnStates
<1>13. CASE PeerResets
  BY <1>13, UncountedRound DEF PeerResets, SourceTypeOK, ConnStates
<1>14. CASE UNCHANGED vars
  BY <1>14 DEF vars, SourceTypeOK
<1> QED
  BY <1>1, <1>2, <1>3, <1>4, <1>5, <1>6, <1>7, <1>8, <1>9, <1>10, <1>11, <1>12, <1>13,
     <1>14 DEF Next, Loop

(***************************************************************************)
(* Types, and that a connection is there exactly while it is read, and     *)
(* that a program that still runs has not used up its retries              *)
(* (main.rs:144, :178): for every limit below the width of the counter.    *)
(***************************************************************************)
THEOREM SourceTypesCorrect == Spec => []SourceTypeOK
<1>1. Init => SourceTypeOK
  <2>1. RetryModulus \in Nat \ {0} /\ \A c \in Configs : c.limit \in Nat
    BY ConfigAssumption DEF IsConfig
  <2> SUFFICES ASSUME Init PROVE SourceTypeOK
    OBVIOUS
  <2>2. config \in Configs /\ peer \in Peers /\ overdue \in BOOLEAN
    BY DEF Init
  <2>3. pc = "opening" /\ conn = "none" /\ retry = 0
    BY DEF Init
  <2>4. retry \in 0..RetryModulus - 1 /\ retry <= config.limit
    BY <2>1, <2>2, <2>3
  <2> QED
    BY <2>2, <2>3, <2>4 DEF SourceTypeOK, ConnStates
<1> QED
  BY <1>1, SourceStep, PTL DEF Spec
=============================================================================
