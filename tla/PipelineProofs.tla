--------------------------- MODULE PipelineProofs ---------------------------
(***************************************************************************)
(* What the receivers of the transport and the application layer make of   *)
(* any stream of frames, for every set of frames and gateways and every    *)
(* size of packet numbers; and what they make of a node table read, for    *)
(* every table, page size and set of gateways, every number of sequence    *)
(* numbers, and however many frames are lost.                              *)
(***************************************************************************)
EXTENDS Pipeline, Receivers, PacketPolls, NodeTableProofs, SequenceProofs

\* The inductive invariant: a packet number that is known is a packet number.
NumbersAreNumbers ==
  \A g \in DOMAIN rxPacketNumbers : rxPacketNumbers[g] \in PacketNumber

ReceiversInv == NumbersAreNumbers /\ ClockBeforeReports
-----------------------------------------------------------------------------
(***************************************************************************)
(* Arithmetic of packet numbers: a number is its high half times LoSize    *)
(* and its low half.                                                       *)
(***************************************************************************)
LEMMA Product ==
  ASSUME NEW a \in Int, NEW b \in Int, NEW c \in Nat, a <= b
  PROVE  a * c <= b * c
<1>1. (b - a) * c >= 0
  OBVIOUS
<1>2. (b - a) * c = (b * c) - (a * c)
  OBVIOUS
<1> QED
  BY <1>1, <1>2

LEMMA Digits ==
  ASSUME NEW size \in Nat \ {0}, NEW k \in Int, NEW t \in 0..size - 1
  PROVE  (k * size + t) % size = t
<1> DEFINE n == k * size + t
           d == n \div size
           r == n % size
<1>1. n \in Int
  OBVIOUS
<1>2. d \in Int /\ r \in 0..size - 1 /\ n = d * size + r
  <2> HIDE DEF n
  <2> QED
    BY <1>1
<1> HIDE DEF d, r
<1>3. (k - d) * size = r - t
  BY <1>2
<1>4. k - d < 1
  <2> SUFFICES ASSUME 1 <= k - d PROVE FALSE
    BY <1>2
  <2>1. 1 * size <= (k - d) * size
    BY <1>2, Product
  <2> QED
    BY <1>2, <1>3, <2>1
<1>5. k - d > -1
  <2> SUFFICES ASSUME k - d <= -1 PROVE FALSE
    BY <1>2
  <2>1. (k - d) * size <= (-1) * size
    BY <1>2, Product
  <2> QED
    BY <1>2, <1>3, <2>1
<1>6. k = d
  BY <1>2, <1>4, <1>5
<1> QED
  BY <1>2, <1>3, <1>6 DEF r

LEMMA Remainder ==
  ASSUME NEW a \in Nat, NEW m \in Nat, NEW size \in Nat \ {0}
  PROVE  ((a % size) + m) % size = (a + m) % size
<1> DEFINE q == a \div size
           r == a % size
           s == (r + m) \div size
           t == (r + m) % size
<1>1. q \in Int /\ r \in 0..size - 1 /\ a = q * size + r
  OBVIOUS
<1>2. s \in Int /\ t \in 0..size - 1 /\ r + m = s * size + t
  BY <1>1
<1> HIDE DEF q, r, s, t
<1>3. (q + s) * size = q * size + s * size /\ q * size \in Int /\ s * size \in Int
  BY <1>1, <1>2
<1>4. a + m = (q + s) * size + t
  BY <1>1, <1>2, <1>3
<1>5. ((q + s) * size + t) % size = t
  <2>1. q + s \in Int
    BY <1>1, <1>2
  <2> QED
    BY <1>2, <2>1, Digits
<1> QED
  BY <1>4, <1>5 DEF r, t

LEMMA Halves ==
  ASSUME NEW n \in PacketNumber
  PROVE  /\ n \div LoSize \in 0..HiSize - 1
         /\ n % LoSize \in 0..LoSize - 1
         /\ n = (n \div LoSize) * LoSize + (n % LoSize)
<1>1. LoSize \in Nat \ {0} /\ HiSize \in Nat \ {0}
  BY TransportConstants
<1>2. n \in Nat /\ n < HiSize * LoSize
  BY <1>1 DEF PacketNumber
<1> DEFINE hi == n \div LoSize
           lo == n % LoSize
<1>3. hi \in Int /\ lo \in 0..LoSize - 1 /\ n = hi * LoSize + lo
  BY <1>1, <1>2
<1> HIDE DEF hi, lo
<1>4. hi >= 0
  <2> SUFFICES ASSUME hi <= -1 PROVE FALSE
    BY <1>3
  <2>1. hi * LoSize <= (-1) * LoSize
    BY <1>1, <1>3, Product
  <2> QED
    BY <1>1, <1>2, <1>3, <2>1
<1>5. hi <= HiSize - 1
  <2> SUFFICES ASSUME HiSize <= hi PROVE FALSE
    BY <1>1, <1>3
  <2>1. HiSize * LoSize <= hi * LoSize
    BY <1>1, <1>3, Product
  <2> QED
    BY <1>1, <1>2, <1>3, <2>1
<1> QED
  BY <1>1, <1>3, <1>4, <1>5 DEF hi, lo

LEMMA NumberOfHalves ==
  ASSUME NEW hi \in 0..HiSize - 1, NEW lo \in 0..LoSize - 1
  PROVE  hi * LoSize + lo \in PacketNumber
<1>1. LoSize \in Nat \ {0} /\ HiSize \in Nat \ {0}
  BY TransportConstants
<1>2. hi * LoSize <= (HiSize - 1) * LoSize
  BY <1>1, Product
<1>3. (HiSize - 1) * LoSize = (LoSize * HiSize) - LoSize
  BY <1>1
<1>4. hi * LoSize \in Nat /\ LoSize * HiSize \in Nat
  BY <1>1
<1> QED
  BY <1>1, <1>2, <1>3, <1>4 DEF PacketNumber

\* The new high half is the old one or the next.
LEMMA InterpretedHalves ==
  ASSUME NEW newLo \in 0..LoSize - 1, NEW old \in PacketNumber
  PROVE  \E hi \in 0..HiSize - 1 :
           /\ InterpretPacketNumberLo(newLo, old) = hi * LoSize + newLo
           /\ hi = IF newLo >= old % LoSize THEN old \div LoSize
                   ELSE IF old \div LoSize = HiSize - 1 THEN 0 ELSE (old \div LoSize) + 1
<1> DEFINE hi == old \div LoSize
           next == (hi + 1) % HiSize
<1>1. hi \in 0..HiSize - 1 /\ HiSize \in Nat \ {0}
  BY Halves, TransportConstants
<1>2. InterpretPacketNumberLo(newLo, old)
        = (IF newLo >= old % LoSize THEN hi ELSE next) * LoSize + newLo
  BY DEF InterpretPacketNumberLo
<1> HIDE DEF hi
<1>3. next = IF hi = HiSize - 1 THEN 0 ELSE hi + 1
  BY <1>1
<1> QED
  BY <1>1, <1>2, <1>3 DEF hi

LEMMA InterpretedIsNumber ==
  ASSUME NEW newLo \in 0..LoSize - 1, NEW old \in PacketNumber
  PROVE  InterpretPacketNumberLo(newLo, old) \in PacketNumber
BY InterpretedHalves, NumberOfHalves

LEMMA AheadIsDistance ==
  ASSUME NEW from \in PacketNumber, NEW to \in PacketNumber
  PROVE  Ahead(from, to) = IF to >= from THEN to - from ELSE (to - from) + LoSize * HiSize
<1> DEFINE size == LoSize * HiSize
<1>1. size \in Nat \ {0}
  BY TransportConstants
<1>2. from \in 0..size - 1 /\ to \in 0..size - 1
  BY DEF PacketNumber
<1>3. Ahead(from, to) = ((to + size) - from) % size
  BY DEF Ahead
<1> HIDE DEF size
<1>4. CASE to >= from
  <2>1. (to + size) - from = (to - from) + size /\ to - from \in 0..size - 1
    BY <1>1, <1>2, <1>4
  <2>2. ((to - from) + size) % size = to - from
    BY <1>1, <2>1
  <2> QED
    BY <1>3, <1>4, <2>1, <2>2
<1>5. CASE to < from
  <2>1. (to + size) - from = (to - from) + size /\ (to - from) + size \in 0..size - 1
    BY <1>1, <1>2, <1>5
  <2>2. ((to - from) + size) % size = (to - from) + size
    BY <1>1, <2>1
  <2> QED
    BY <1>2, <1>3, <1>5, <2>1, <2>2 DEF size
<1> QED
  BY <1>2, <1>4, <1>5

(***************************************************************************)
(* interpret_packet_number_lo (transport.rs:83) finds the next number.     *)
(***************************************************************************)
LEMMA InterpretedIsNext ==
  ASSUME NEW newLo \in 0..LoSize - 1, NEW old \in PacketNumber,
         NEW n \in PacketNumber, n % LoSize = newLo
  PROVE  Ahead(old, InterpretPacketNumberLo(newLo, old)) <= Ahead(old, n)
<1> DEFINE new == InterpretPacketNumberLo(newLo, old)
           size == LoSize * HiSize
           oldHi == old \div LoSize
           oldLo == old % LoSize
           nHi == n \div LoSize
           apart == (nHi - oldHi) * LoSize
<1>1. LoSize \in Nat \ {0} /\ HiSize \in Nat \ {0} /\ size \in Nat
  BY TransportConstants
<1>2. PICK newHi \in 0..HiSize - 1 :
        /\ new = newHi * LoSize + newLo
        /\ newHi = IF newLo >= oldLo THEN oldHi
                   ELSE IF oldHi = HiSize - 1 THEN 0 ELSE oldHi + 1
  BY InterpretedHalves
<1>3. /\ oldHi \in 0..HiSize - 1 /\ oldLo \in 0..LoSize - 1 /\ nHi \in 0..HiSize - 1
      /\ old = oldHi * LoSize + oldLo
      /\ n = nHi * LoSize + newLo
  BY Halves
<1>4. /\ new \in PacketNumber
      /\ Ahead(old, new) = IF new >= old THEN new - old ELSE (new - old) + size
      /\ Ahead(old, n) = IF n >= old THEN n - old ELSE (n - old) + size
  <2>1. new \in PacketNumber
    BY InterpretedIsNumber
  <2> HIDE DEF new
  <2> QED
    BY <2>1, AheadIsDistance
<1> HIDE DEF new, size, oldHi, oldLo, nHi
<1>5. /\ apart \in Int /\ n - old = apart + (newLo - oldLo)
      /\ oldHi * LoSize \in Int /\ nHi * LoSize \in Int
  BY <1>1, <1>3
<1>6. apart + size = ((nHi - oldHi) + HiSize) * LoSize
  BY <1>1, <1>3 DEF size
<1>7. /\ nHi >= oldHi => apart >= 0
      /\ nHi > oldHi => apart >= LoSize
      /\ apart + size >= LoSize
      /\ nHi < oldHi => apart <= -LoSize
      /\ nHi <= oldHi => apart <= 0
  <2>1. ASSUME nHi >= oldHi PROVE apart >= 0
    <3>1. 0 * LoSize <= (nHi - oldHi) * LoSize
      BY <1>1, <1>3, <2>1, Product
    <3> QED
      BY <1>1, <3>1
  <2>2. ASSUME nHi > oldHi PROVE apart >= LoSize
    <3>1. 1 * LoSize <= (nHi - oldHi) * LoSize
      BY <1>1, <1>3, <2>2, Product
    <3> QED
      BY <1>1, <3>1
  <2>3. apart + size >= LoSize
    <3>1. 1 * LoSize <= ((nHi - oldHi) + HiSize) * LoSize
      BY <1>1, <1>3, Product
    <3> QED
      BY <1>1, <1>6, <3>1
  <2>4. ASSUME nHi < oldHi PROVE apart <= -LoSize
    <3>1. (nHi - oldHi) * LoSize <= (-1) * LoSize
      BY <1>1, <1>3, <2>4, Product
    <3> QED
      BY <1>1, <3>1
  <2>5. ASSUME nHi <= oldHi PROVE apart <= 0
    <3>1. (nHi - oldHi) * LoSize <= 0 * LoSize
      BY <1>1, <1>3, <2>5, Product
    <3> QED
      BY <1>1, <3>1
  <2> QED
    BY <2>1, <2>2, <2>3, <2>4, <2>5
<1> HIDE DEF apart
<1>8. CASE newLo >= oldLo
  <2>1. new - old = newLo - oldLo
    BY <1>2, <1>3, <1>5, <1>8
  <2>2. Ahead(old, new) = newLo - oldLo
    <3>1. new >= old
      BY <1>3, <1>4, <1>8, <2>1 DEF PacketNumber
    <3> QED
      BY <1>4, <2>1, <3>1
  <2>3. n >= old => apart >= 0
    BY <1>1, <1>3, <1>5, <1>7, <1>8 DEF PacketNumber
  <2>4. Ahead(old, n) >= newLo - oldLo
    <3> HIDE DEF new
    <3>1. CASE n >= old
      BY <1>1, <1>3, <1>4, <1>5, <2>3, <3>1
    <3>2. CASE ~(n >= old)
      <4>1. Ahead(old, n) = (apart + (newLo - oldLo)) + size
        BY <1>4, <1>5, <3>2
      <4> QED
        BY <1>1, <1>3, <1>5, <1>7, <4>1
    <3> QED
      BY <3>1, <3>2
  <2> QED
    BY <2>2, <2>4 DEF new
<1>9. CASE newLo < oldLo
  <2>1. \/ new - old = LoSize + (newLo - oldLo)
        \/ (new - old) + size = LoSize + (newLo - oldLo) /\ new - old < 0
    <3>1. CASE oldHi # HiSize - 1
      <4>1. new = (oldHi + 1) * LoSize + newLo
        BY <1>2, <1>3, <1>9, <3>1
      <4>2. (oldHi + 1) * LoSize = oldHi * LoSize + LoSize
        BY <1>1, <1>3
      <4> QED
        BY <1>1, <1>3, <1>5, <4>1, <4>2
    <3>2. CASE oldHi = HiSize - 1
      <4>1. new = newLo
        BY <1>1, <1>2, <1>3, <1>9, <3>2
      <4>2. oldHi * LoSize = size - LoSize
        BY <1>1, <3>2 DEF size
      <4>3. size - LoSize >= 0
        BY <1>1, <1>3, <4>2
      <4> QED
        BY <1>1, <1>3, <1>9, <4>1, <4>2, <4>3
    <3> QED
      BY <3>1, <3>2
  <2>2. Ahead(old, new) = LoSize + (newLo - oldLo)
    <3>1. new \in Int /\ old \in Int
      BY <1>4 DEF PacketNumber
    <3> HIDE DEF new
    <3>2. CASE new - old = LoSize + (newLo - oldLo)
      <4>1. new >= old
        BY <1>1, <1>3, <3>1, <3>2
      <4> QED
        BY <1>4, <3>2, <4>1
    <3>3. CASE (new - old) + size = LoSize + (newLo - oldLo) /\ new - old < 0
      <4>1. ~(new >= old)
        BY <3>1, <3>3
      <4> QED
        BY <1>4, <3>3, <4>1
    <3> QED
      BY <2>1, <3>2, <3>3
  <2>3. n >= old => nHi > oldHi
    BY <1>1, <1>3, <1>5, <1>7, <1>9 DEF PacketNumber
  <2>4. Ahead(old, n) >= LoSize + (newLo - oldLo)
    <3> HIDE DEF new
    <3>1. CASE n >= old
      <4>1. Ahead(old, n) = apart + (newLo - oldLo) /\ apart >= LoSize
        BY <1>4, <1>5, <1>7, <2>3, <3>1
      <4> QED
        BY <1>1, <1>3, <1>5, <4>1
    <3>2. CASE ~(n >= old)
      <4>1. Ahead(old, n) = (apart + (newLo - oldLo)) + size
        BY <1>4, <1>5, <3>2
      <4> QED
        BY <1>1, <1>3, <1>5, <1>7, <4>1
    <3> QED
      BY <3>1, <3>2
  <2> QED
    BY <2>2, <2>4 DEF new
<1> QED
  BY <1>3, <1>8, <1>9 DEF new
(***************************************************************************)
(* A number that is less than a circle of low halves ahead is completed to *)
(* itself.                                                                 *)
(***************************************************************************)
LEMMA InterpretedIsKept ==
  ASSUME NEW old \in PacketNumber, NEW ahead \in 0..LoSize - 1,
         NEW n, n = (old + ahead) % (LoSize * HiSize)
  PROVE  InterpretPacketNumberLo(n % LoSize, old) = n
<1> DEFINE hi == old \div LoSize
           lo == old % LoSize
           size == LoSize * HiSize
<1>1. LoSize \in Nat \ {0} /\ HiSize \in Nat \ {0} /\ size \in Nat \ {0}
  BY TransportConstants
<1>2. hi \in 0..HiSize - 1 /\ lo \in 0..LoSize - 1 /\ old = hi * LoSize + lo
  BY Halves
<1>3. ASSUME NEW newHi \in 0..HiSize - 1, NEW newLo \in 0..LoSize - 1,
             n = newHi * LoSize + newLo,
             newHi = IF newLo >= lo THEN hi ELSE IF hi = HiSize - 1 THEN 0 ELSE hi + 1
      PROVE  InterpretPacketNumberLo(n % LoSize, old) = n
  <2>1. n % LoSize = newLo
    <3>1. newHi \in Int
      OBVIOUS
    <3>2. (newHi * LoSize + newLo) % LoSize = newLo
      BY <1>1, <3>1, Digits
    <3> QED
      BY <1>3, <3>2
  <2>2. PICK h \in 0..HiSize - 1 :
          /\ InterpretPacketNumberLo(newLo, old) = h * LoSize + newLo
          /\ h = IF newLo >= lo THEN hi ELSE IF hi = HiSize - 1 THEN 0 ELSE hi + 1
    BY InterpretedHalves
  <2> QED
    BY <1>3, <2>1, <2>2
<1>4. \A m \in PacketNumber : m % size = m
  <2> SUFFICES ASSUME NEW m \in PacketNumber PROVE m % size = m
    OBVIOUS
  <2>1. m \in 0..size - 1
    BY DEF PacketNumber
  <2> HIDE DEF size
  <2>2. (0 * size + m) % size = m
    BY <1>1, <2>1, Digits
  <2> QED
    BY <1>1, <2>1, <2>2
<1>5. n = (old + ahead) % size
  OBVIOUS
<1> HIDE DEF hi, lo
<1>6. hi * LoSize \in Nat
  BY <1>1, <1>2
<1>7. CASE lo + ahead < LoSize
  <2>1. lo + ahead \in 0..LoSize - 1 /\ old + ahead = hi * LoSize + (lo + ahead)
    BY <1>1, <1>2, <1>6, <1>7
  <2>2. n = hi * LoSize + (lo + ahead)
    BY <1>2, <1>4, <1>5, <2>1, NumberOfHalves
  <2> QED
    BY <1>2, <1>3, <2>1, <2>2
<1>8. CASE lo + ahead >= LoSize
  <2> DEFINE low == (lo + ahead) - LoSize
  <2>1. low \in 0..LoSize - 1 /\ low < lo
    BY <1>1, <1>2, <1>8
  <2>2. old + ahead = (hi + 1) * LoSize + low
    <3>1. (hi + 1) * LoSize = hi * LoSize + LoSize
      BY <1>1, <1>2
    <3> QED
      BY <1>1, <1>2, <1>6, <3>1
  <2> HIDE DEF low
  <2>3. CASE hi # HiSize - 1
    <3>1. hi + 1 \in 0..HiSize - 1
      BY <1>1, <1>2, <2>3
    <3>2. n = (hi + 1) * LoSize + low
      BY <1>4, <1>5, <2>1, <2>2, <3>1, NumberOfHalves
    <3>3. hi + 1 = IF low >= lo THEN hi ELSE IF hi = HiSize - 1 THEN 0 ELSE hi + 1
      BY <1>2, <2>1, <2>3
    <3> QED
      BY <1>3, <2>1, <3>1, <3>2, <3>3
  <2>4. CASE hi = HiSize - 1
    <3>1. (hi + 1) * LoSize = size
      BY <1>1, <2>4
    <3>2. 0 \in 0..HiSize - 1 /\ 0 * LoSize + low = low
      BY <1>1, <2>1
    <3>3. low \in PacketNumber
      BY <2>1, <3>2, NumberOfHalves
    <3>4. (1 * size + low) % size = low
      <4>1. low \in 0..size - 1
        BY <3>3 DEF PacketNumber
      <4> HIDE DEF size
      <4> QED
        BY <1>1, <4>1, Digits
    <3>5. n = 0 * LoSize + low
      <4> HIDE DEF size
      <4> QED
        BY <1>1, <1>5, <2>2, <3>1, <3>2, <3>4
    <3> QED
      BY <1>2, <1>3, <2>1, <2>4, <3>2, <3>5
  <2> QED
    BY <2>3, <2>4
<1> QED
  BY <1>1, <1>2, <1>7, <1>8

-----------------------------------------------------------------------------
(***************************************************************************)
(* What one call leads to, besides itself.                                 *)
(***************************************************************************)
LEMMA ParsedTypes ==
  DOMAIN ParsedPackets = {"string_response", "topology_report", "power_report"}
BY DEF ParsedPackets

\* The calls of a response are of its gateway.
Ops == {"gateway_slot_counter_observed", "packet_received"} \cup STRING

CallsOf(g, slot) == [op : Ops, gateway : {g}, what : {slot} \cup Packet \cup Nat]

LEMMA PacketIsForwarded ==
  ASSUME NEW g, NEW slot, NEW packet \in Packet
  PROVE  Forwarded(Call("packet_received", g, packet)) \in Seq(CallsOf(g, slot))
<1> DEFINE call == Call("packet_received", g, packet)
           report == Call(packet.type, g, packet.node)
<1>1. call \in CallsOf(g, slot) /\ report \in CallsOf(g, slot)
  <2>1. packet.type \in Ops /\ packet.node \in Nat /\ "packet_received" \in Ops
    BY DEF Packet, Ops
  <2> DEFINE What == {slot} \cup Packet \cup Nat
  <2>2. packet \in What /\ packet.node \in What
    BY <2>1
  <2> HIDE DEF What
  <2>3. \A op \in Ops, what \in What :
          Call(op, g, what) \in [op : Ops, gateway : {g}, what : What]
    BY DEF Call
  <2>4. CallsOf(g, slot) = [op : Ops, gateway : {g}, what : What]
    BY DEF CallsOf, What
  <2> QED
    BY <2>1, <2>2, <2>3, <2>4
<1>2. OutcomeOf(call) = PacketReceived(g, packet)
  BY DEF OutcomeOf, Call
<1>3. PacketReceived(g, packet).calls \in {<<>>, <<report>>}
  BY DEF PacketReceived, Outcome, Nothing
<1>4. Forwarded(call) = <<call>> \o PacketReceived(g, packet).calls
  BY <1>2 DEF Forwarded
<1> HIDE DEF call, report
<1>5. <<call>> \in Seq(CallsOf(g, slot)) /\ <<report>> \in Seq(CallsOf(g, slot))
  BY <1>1
<1>6. PacketReceived(g, packet).calls \in Seq(CallsOf(g, slot))
  <2>1. <<>> \in Seq(CallsOf(g, slot))
    OBVIOUS
  <2> QED
    BY <1>3, <1>5, <2>1
<1>7. Forwarded(call) \in Seq(CallsOf(g, slot))
  BY <1>4, <1>5, <1>6, ConcatProperties
<1> QED
  BY <1>7 DEF call

\* Only a packet is read as a report.
LEMMA OthersAreNoReports ==
  ASSUME NEW call, call.op # "packet_received", call.op \notin DOMAIN ParsedPackets
  PROVE  \/ Forwarded(call) = <<call>>
         \/ \E further : /\ Forwarded(call) = <<call, further>>
                         /\ further.op \notin DOMAIN ParsedPackets
<1>1. \/ OutcomeOf(call).calls = <<>>
      \/ \E further : /\ OutcomeOf(call).calls = <<further>>
                      /\ further.op \in {"node_table_page", "string_request"}
  <2>1. OutcomeOf(call) = IF call.op = "command_executed"
                            THEN CommandExecuted(call.gateway, call.what) ELSE Nothing
    BY DEF OutcomeOf
  <2> DEFINE gateway == call.gateway
             executed == call.what
             page == Call("node_table_page", gateway,
                          [start |-> executed.request.start, page |-> executed.response.page])
             string == Call("string_request", gateway, {})
  <2>2. page.op = "node_table_page" /\ string.op = "string_request"
    BY DEF Call
  <2>3. Nothing.calls = <<>>
    BY DEF Nothing, Outcome
  <2>4. NodeTableCommand(gateway, executed.request, executed.response).calls \in {<<>>, <<page>>}
    BY DEF NodeTableCommand, Outcome
  <2>5. StringCommand(gateway, executed.request, executed.response).calls \in {<<>>, <<string>>}
    BY DEF StringCommand, Outcome
  <2>6. CommandExecuted(gateway, executed)
          \in {NodeTableCommand(gateway, executed.request, executed.response),
               StringCommand(gateway, executed.request, executed.response), Nothing}
    <3>1. ~(IsCommand(executed, "node_table") /\ IsCommand(executed, "string"))
      BY DEF IsCommand
    <3>2. CASE IsCommand(executed, "node_table")
      BY <3>1, <3>2 DEF CommandExecuted
    <3>3. CASE IsCommand(executed, "string")
      BY <3>1, <3>3 DEF CommandExecuted
    <3>4. CASE ~IsCommand(executed, "node_table") /\ ~IsCommand(executed, "string")
      BY <3>4 DEF CommandExecuted
    <3> QED
      BY <3>2, <3>3, <3>4
  <2>7. OutcomeOf(call).calls \in {<<>>, <<page>>, <<string>>}
    <3> HIDE DEF page, string
    <3> QED
      BY <2>1, <2>3, <2>4, <2>5, <2>6
  <2> HIDE DEF page, string
  <2> QED
    BY <2>2, <2>7
<1>2. Forwarded(call) = <<call>> \o OutcomeOf(call).calls
  BY DEF Forwarded
<1>3. CASE OutcomeOf(call).calls = <<>>
  BY <1>2, <1>3
<1>4. CASE \E further : /\ OutcomeOf(call).calls = <<further>>
                        /\ further.op \in {"node_table_page", "string_request"}
  <2>1. PICK further : /\ OutcomeOf(call).calls = <<further>>
                       /\ further.op \in {"node_table_page", "string_request"}
    BY <1>4
  <2>2. Forwarded(call) = <<call, further>>
    BY <1>2, <2>1, OneAndOther
  <2> QED
    BY <2>1, <2>2, ParsedTypes
<1> QED
  BY <1>1, <1>3, <1>4
-----------------------------------------------------------------------------
(***************************************************************************)
(* The calls of a response: the slot counter, then those of its packets.   *)
(***************************************************************************)
LEMMA ClockIsFirst ==
  ASSUME NEW f, f.body.packets \in Seq(Packet), Application(Received(f))
  PROVE  ClockBeforeReports'
<1> DEFINE g == f.gateway
           slot == f.body.slot
           clock == Call("gateway_slot_counter_observed", g, slot)
           packets == f.body.packets
           n == Len(packets)
           received == Received(f)
           W == CallsOf(g, slot)
           forwards == [i \in 1..Len(received) |-> Forwarded(received[i])]
<1>1. n \in Nat /\ \A i \in 1..n : packets[i] \in Packet
  OBVIOUS
<1>2. /\ Len(received) = n + 1
      /\ received[1] = clock
      /\ \A i \in 2..n + 1 : received[i] = Call("packet_received", g, packets[i - 1])
  <2> DEFINE other == PacketsReceived(f)
             All == {Call("packet_received", g, packets[i]) : i \in 1..n} \cup {clock}
  <2>1. /\ Len(other) = n /\ other \in Seq(All)
        /\ \A i \in 1..n : other[i] = Call("packet_received", g, packets[i])
    BY <1>1 DEF PacketsReceived
  <2>2. received = <<clock>> \o other
    BY DEF Received
  <2>3. <<clock>> \in Seq(All) /\ Len(<<clock>>) = 1 /\ <<clock>>[1] = clock
    OBVIOUS
  <2> HIDE DEF other, All, clock, received, n, packets
  <2>4. Len(received) = n + 1 /\ received[1] = clock
    BY <1>1, <2>1, <2>2, <2>3, ConcatProperties
  <2>5. ASSUME NEW i \in 2..n + 1
        PROVE  received[i] = Call("packet_received", g, packets[i - 1])
    <3>1. i - 1 \in 1..n /\ i > 1 /\ i <= 1 + n
      BY <1>1
    <3>2. received[i] = other[i - 1]
      BY <1>1, <2>1, <2>2, <2>3, <3>1, ConcatProperties
    <3> QED
      BY <2>1, <3>1, <3>2
  <2> QED
    BY <2>4, <2>5
<1>3. Forwarded(clock) = <<clock>>
  <2>1. clock.op = "gateway_slot_counter_observed"
    BY DEF Call
  <2> HIDE DEF clock
  <2>2. OutcomeOf(clock).calls = <<>>
    BY <2>1 DEF OutcomeOf, Nothing, Outcome
  <2>3. Forwarded(clock) = <<clock>> \o <<>>
    BY <2>2 DEF Forwarded
  <2>4. <<clock>> \in Seq({clock})
    OBVIOUS
  <2> QED
    BY <2>3, <2>4, ConcatEmptySeq
<1>4. clock \in W /\ clock.op = "gateway_slot_counter_observed"
  BY DEF Call, CallsOf, Ops
<1>5. appCalls' = FlattenSeq(forwards)
  BY DEF Application
<1> HIDE DEF received, packets, n, clock, W
<1>6. /\ Len(forwards) = n + 1
      /\ forwards[1] = <<clock>>
      /\ \A i \in 1..n + 1 : forwards[i] \in Seq(W)
  <2>1. forwards[1] = <<clock>>
    BY <1>1, <1>2, <1>3
  <2>2. <<clock>> \in Seq(W)
    BY <1>4
  <2>3. ASSUME NEW i \in 2..n + 1
        PROVE  forwards[i] \in Seq(W)
    <3>1. i - 1 \in 1..n /\ i \in 1..n + 1
      BY <1>1
    <3>2. packets[i - 1] \in Packet
      BY <1>1, <3>1
    <3>3. forwards[i] = Forwarded(Call("packet_received", g, packets[i - 1]))
      BY <1>2, <3>1
    <3> QED
      BY <3>2, <3>3, PacketIsForwarded DEF W
  <2>4. \A i \in 1..n + 1 : i = 1 \/ i \in 2..n + 1
    BY <1>1
  <2>5. Len(forwards) = n + 1
    BY <1>1, <1>2
  <2> HIDE DEF forwards
  <2> QED
    BY <2>1, <2>2, <2>3, <2>4, <2>5
<1> HIDE DEF forwards
<1>7. appCalls' \in Seq(W) /\ appCalls'[1] = clock
  <2>1. n + 1 \in Nat \ {0}
    BY <1>1
  <2>2. Len(<<clock>>) > 0 /\ <<clock>>[1] = clock
    OBVIOUS
  <2> QED
    BY <1>5, <1>6, <2>1, <2>2, FlattenedIsSeq
<1>8. ASSUME NEW i \in 1..Len(appCalls'), appCalls'[i].op \in DOMAIN ParsedPackets
      PROVE  \E j \in 1..i - 1 :
               /\ appCalls'[j].op = "gateway_slot_counter_observed"
               /\ appCalls'[j].gateway = appCalls'[i].gateway
  <2>1. Len(appCalls') \in Nat
    BY <1>7
  <2>2. i # 1
    BY <1>4, <1>7, <1>8, ParsedTypes
  <2>3. 1 \in 1..i - 1 /\ 1 \in 1..Len(appCalls')
    BY <2>1, <2>2
  <2>4. appCalls'[1] \in W /\ appCalls'[i] \in W
    BY <1>7, <2>3, ElementOfSeq
  <2>5. appCalls'[1].gateway = g /\ appCalls'[i].gateway = g
    BY <2>4 DEF W, CallsOf
  <2> QED
    BY <1>4, <1>7, <2>3, <2>5
<1> QED
  BY <1>8 DEF ClockBeforeReports

\* Whatever else a frame leads to holds no report.
LEMMA NoReports ==
  ASSUME NEW received,
         \/ received = <<>>
         \/ \E call : /\ received = <<call>>
                      /\ call.op # "packet_received"
                      /\ call.op \notin DOMAIN ParsedPackets,
         Application(received)
  PROVE  ClockBeforeReports'
<1> DEFINE forwards == [i \in 1..Len(received) |-> Forwarded(received[i])]
<1>1. appCalls' = FlattenSeq(forwards)
  BY DEF Application
<1>2. \A i \in 1..Len(appCalls') : appCalls'[i].op \notin DOMAIN ParsedPackets
  <2>1. CASE received = <<>>
    <3>1. forwards = <<>>
      BY <2>1
    <3> HIDE DEF forwards
    <3>2. appCalls' = <<>>
      BY <1>1, <3>1, FlattenNone
    <3> QED
      BY <3>2
  <2>2. ASSUME NEW call, received = <<call>>,
               call.op # "packet_received", call.op \notin DOMAIN ParsedPackets
        PROVE  \A i \in 1..Len(appCalls') : appCalls'[i].op \notin DOMAIN ParsedPackets
    <3>1. Len(received) = 1 /\ received[1] = call
      BY <2>2
    <3>2. Len(forwards) = 1 /\ forwards[1] = Forwarded(call)
      BY <3>1
    <3> HIDE DEF forwards
    <3>3. appCalls' = Forwarded(call)
      BY <1>1, <3>2, FlattenOne
    <3>4. CASE Forwarded(call) = <<call>>
      <4>1. Len(appCalls') = 1 /\ appCalls'[1] = call
        BY <3>3, <3>4
      <4> QED
        BY <2>2, <4>1
    <3>5. ASSUME NEW further, Forwarded(call) = <<call, further>>,
                 further.op \notin DOMAIN ParsedPackets
          PROVE  \A i \in 1..Len(appCalls') : appCalls'[i].op \notin DOMAIN ParsedPackets
      <4>1. Len(appCalls') = 2 /\ appCalls'[1] = call /\ appCalls'[2] = further
        BY <3>3, <3>5
      <4> QED
        BY <2>2, <3>5, <4>1
    <3> QED
      BY <2>2, <3>4, <3>5, OthersAreNoReports
  <2> QED
    BY <2>1, <2>2
<1> QED
  BY <1>2 DEF ClockBeforeReports
-----------------------------------------------------------------------------
(***************************************************************************)
(* What a frame does to the packet numbers.                                *)
(***************************************************************************)
LEMMA ReceivedIsNumber ==
  ASSUME NumbersAreNumbers, NEW f \in Frames, f.kind = "receive_response", f.valid,
         f.gateway \in DOMAIN rxPacketNumbers
  PROVE  ReceivedNumber(f) \in PacketNumber
<1>1. f.body.number \in IF f.body.short THEN 0..LoSize - 1 ELSE PacketNumber
  BY FramesAreFrames
<1>2. rxPacketNumbers[f.gateway] \in PacketNumber
  BY DEF NumbersAreNumbers
<1>3. CASE f.body.short
  BY <1>1, <1>2, <1>3, InterpretedIsNumber DEF ReceivedNumber
<1>4. CASE ~f.body.short
  BY <1>1, <1>4 DEF ReceivedNumber
<1> QED
  BY <1>3, <1>4

LEMMA InsertedNumber ==
  ASSUME NumbersAreNumbers, NEW g, NEW number \in PacketNumber,
         rxPacketNumbers' = Insert(rxPacketNumbers, g, number)
  PROVE  NumbersAreNumbers'
<1>1. DOMAIN rxPacketNumbers' = DOMAIN rxPacketNumbers \cup {g}
  BY DEF Insert
<1>2. ASSUME NEW h \in DOMAIN rxPacketNumbers'
      PROVE  rxPacketNumbers'[h] \in PacketNumber
  <2>1. rxPacketNumbers'[h] = IF h = g THEN number ELSE rxPacketNumbers[h]
    BY <1>1 DEF Insert
  <2> QED
    BY <1>1, <2>1 DEF NumbersAreNumbers
<1>3. PacketNumber' = PacketNumber
  BY DEF PacketNumber
<1> QED
  BY <1>2, <1>3 DEF NumbersAreNumbers

LEMMA SameNumbers ==
  ASSUME NumbersAreNumbers, UNCHANGED rxPacketNumbers
  PROVE  NumbersAreNumbers'
BY DEF NumbersAreNumbers, PacketNumber

(***************************************************************************)
(* One step for each handler.                                              *)
(***************************************************************************)
\* A frame whose calls are none or one that is neither a packet nor a report,
\* and that leaves the packet numbers alone.
LEMMA QuietStep ==
  ASSUME NumbersAreNumbers, UNCHANGED rxPacketNumbers,
         \/ calls' = <<>>
         \/ \E call : /\ calls' = <<call>>
                      /\ call.op # "packet_received"
                      /\ call.op \notin DOMAIN ParsedPackets,
         Application(calls')
  PROVE  ReceiversInv'
BY SameNumbers, NoReports DEF ReceiversInv

LEMMA FrameStep ==
  ASSUME ReceiversInv, NEW f \in Frames, Frame(f), Application(calls')
  PROVE  ReceiversInv'
<1> USE DEF ReceiversInv
<1>1. ASSUME NEW kind, NEW outcome, JustCount(kind, outcome)
      PROVE  ReceiversInv'
  BY <1>1, QuietStep DEF JustCount
<1>2. ASSUME Refuse(f)
      PROVE  ReceiversInv'
  BY <1>1, <1>2 DEF Refuse
<1>3. ASSUME NEW op, NEW what, NEW g, calls' = <<Call(op, g, what)>>,
             op # "packet_received", op \notin DOMAIN ParsedPackets,
             UNCHANGED rxPacketNumbers
      PROVE  ReceiversInv'
  <2>1. Call(op, g, what).op = op
    BY DEF Call
  <2> QED
    BY <1>3, <2>1, QuietStep
<1>4. CASE OnlyCounted(f)
  BY <1>1, <1>4 DEF OnlyCounted
<1>5. CASE Reported(f)
  <2>1. CASE Refuse(f)
    BY <1>2, <2>1
  <2>2. CASE calls' = <<Report(f)>> /\ UNCHANGED rxPacketNumbers
    <3>1. CASE f.kind = "version_response"
      BY <1>3, <2>2, <3>1, ParsedTypes DEF Report
    <3>2. CASE f.kind = "enumeration_end_response"
      BY <1>3, <2>2, <3>2, ParsedTypes DEF Report
    <3>3. CASE f.kind # "version_response" /\ f.kind # "enumeration_end_response"
      BY <1>3, <2>2, <3>3, ParsedTypes DEF Report
    <3> QED
      BY <3>1, <3>2, <3>3
  <2> QED
    BY <1>5, <2>1, <2>2 DEF Reported
<1>6. CASE EnumerationStartRequest(f)
  BY <1>2, <1>3, <1>6, ParsedTypes DEF EnumerationStartRequest
<1>7. CASE ReceiveRequest(f)
  <2>1. CASE Refuse(f)
    BY <1>2, <2>1
  <2>2. CASE /\ f.valid /\ f.kind = "receive_request"
             /\ calls' = <<Call("gateway_slot_counter_captured", f.gateway, {})>>
             /\ rxPacketNumbers' = Insert(rxPacketNumbers, f.gateway, f.body)
    <3>1. f.body \in PacketNumber
      BY <2>2, FramesAreFrames
    <3>2. NumbersAreNumbers'
      BY <2>2, <3>1, InsertedNumber
    <3> DEFINE call == Call("gateway_slot_counter_captured", f.gateway, {})
    <3>3. call.op # "packet_received" /\ call.op \notin DOMAIN ParsedPackets
      BY ParsedTypes DEF Call
    <3> HIDE DEF call
    <3>4. ClockBeforeReports'
      BY <2>2, <3>3, NoReports DEF call
    <3> QED
      BY <3>2, <3>4
  <2> QED
    BY <1>7, <2>1, <2>2 DEF ReceiveRequest
<1>8. CASE ReceiveResponse(f)
  <2>1. CASE Refuse(f)
    BY <1>2, <2>1
  <2>2. CASE JustCount(f.kind, "unknown_gateway")
    BY <1>1, <2>2
  <2>3. CASE /\ f.kind = "receive_response" /\ f.valid
             /\ f.gateway \in DOMAIN rxPacketNumbers
             /\ rxPacketNumbers' = Insert(rxPacketNumbers, f.gateway, ReceivedNumber(f))
             /\ calls' = Received(f)
    <3>1. ReceivedNumber(f) \in PacketNumber
      BY <2>3, ReceivedIsNumber
    <3>2. NumbersAreNumbers'
      BY <2>3, <3>1, InsertedNumber
    <3>3. f.body.packets \in Seq(Packet)
      BY <2>3, FramesAreFrames
    <3>4. Application(Received(f))
      BY <2>3
    <3>5. ClockBeforeReports'
      BY <3>3, <3>4, ClockIsFirst
    <3> QED
      BY <3>2, <3>5
  <2> QED
    BY <1>8, <2>1, <2>2, <2>3 DEF ReceiveResponse
<1>9. CASE CommandRequest(f)
  BY <1>2, <1>9, QuietStep DEF CommandRequest
<1>10. CASE CommandResponse(f)
  BY <1>1, <1>2, <1>3, <1>10, ParsedTypes DEF CommandResponse, Execution
<1> QED
  BY <1>4, <1>5, <1>6, <1>7, <1>8, <1>9, <1>10 DEF Frame
-----------------------------------------------------------------------------
(***************************************************************************)
(* The packet numbers a receiver keeps are packet numbers, whatever frames *)
(* it hears, and what a frame leads to has its slot counter first.         *)
(***************************************************************************)
THEOREM ReceiversInvariant == ReceiversSpec => []ReceiversInv
<1>1. ReceiversInit => ReceiversInv
  <2> SUFFICES ASSUME ReceiversInit PROVE ReceiversInv
    OBVIOUS
  <2>1. DOMAIN rxPacketNumbers = {}
    BY DEF ReceiversInit, TransportInit
  <2>2. Len(appCalls) = 0
    BY DEF ReceiversInit, ApplicationInit
  <2> QED
    BY <2>1, <2>2 DEF ReceiversInv, NumbersAreNumbers, ClockBeforeReports
<1>2. ReceiversInv /\ [ReceiversNext]_receiversVars => ReceiversInv'
  <2> SUFFICES ASSUME ReceiversInv, [ReceiversNext]_receiversVars PROVE ReceiversInv'
    OBVIOUS
  <2>1. ASSUME NEW f \in Frames, Overhear(f)
        PROVE  ReceiversInv'
    BY <2>1, FrameStep DEF Overhear
  <2>2. ASSUME ResetCounters, Application(<<>>)
        PROVE  ReceiversInv'
    <3>1. calls' = <<>> /\ UNCHANGED rxPacketNumbers
      BY <2>2 DEF ResetCounters
    <3> QED
      BY <2>2, <3>1, QuietStep DEF ReceiversInv
  <2>3. ASSUME UNCHANGED receiversVars
        PROVE  ReceiversInv'
    <3>1. UNCHANGED <<rxPacketNumbers, appCalls>>
      BY <2>3 DEF receiversVars, transportVars, applicationVars
    <3>2. NumbersAreNumbers'
      BY <3>1, SameNumbers DEF ReceiversInv
    <3>3. ClockBeforeReports'
      BY <3>1 DEF ReceiversInv, ClockBeforeReports
    <3> QED
      BY <3>2, <3>3 DEF ReceiversInv
  <2> QED
    BY <2>1, <2>2, <2>3 DEF ReceiversNext
<1> QED
  BY <1>1, <1>2, PTL DEF ReceiversSpec

(***************************************************************************)
(* A report reaches the observer after the slot counter of the response it *)
(* came with, whatever packets and commands are heard                      *)
(* (gateway/transport/receiver.rs:220 before 222, and nothing that the     *)
(* application layer receiver adds to the calls gets in between).          *)
(***************************************************************************)
THEOREM ClockFirstCorrect == ReceiversSpec => []ClockBeforeReports
BY ReceiversInvariant, PTL DEF ReceiversInv

(***************************************************************************)
(* For every size of the halves of a packet number, the number a short     *)
(* response is completed to (gateway/transport.rs:83) is the next one with *)
(* that low half on the circle of packet numbers, the wrap from the        *)
(* highest to 0 included.                                                  *)
(***************************************************************************)
THEOREM CompletionCorrect == ReceiversSpec => CompletedNumbersAreNext
<1> DEFINE Completed(f) ==
             f.gateway \in DOMAIN rxPacketNumbers /\ ReceiveResponse(f) =>
               \A n \in PacketNumber :
                 n % LoSize = f.body.number =>
                   Ahead(rxPacketNumbers[f.gateway], rxPacketNumbers'[f.gateway])
                     <= Ahead(rxPacketNumbers[f.gateway], n)
           Step == \A f \in AbridgedResponses : Completed(f)
<1>1. ReceiversInv => Step
  <2> SUFFICES ASSUME NumbersAreNumbers, NEW f \in AbridgedResponses,
                      f.gateway \in DOMAIN rxPacketNumbers, ReceiveResponse(f),
                      NEW n \in PacketNumber, n % LoSize = f.body.number
               PROVE  Ahead(rxPacketNumbers[f.gateway], rxPacketNumbers'[f.gateway])
                        <= Ahead(rxPacketNumbers[f.gateway], n)
    BY DEF ReceiversInv
  <2>1. f \in Frames /\ f.kind = "receive_response" /\ ~f.to /\ f.valid /\ f.body.short
    BY DEF AbridgedResponses
  <2>2. f.body.number \in 0..LoSize - 1
    BY <2>1, FramesAreFrames
  <2>3. rxPacketNumbers[f.gateway] \in PacketNumber
    BY DEF NumbersAreNumbers
  <2>4. rxPacketNumbers' = Insert(rxPacketNumbers, f.gateway, ReceivedNumber(f))
    BY <2>1 DEF ReceiveResponse
  <2>5. rxPacketNumbers'[f.gateway]
          = InterpretPacketNumberLo(f.body.number, rxPacketNumbers[f.gateway])
    BY <2>1, <2>4 DEF Insert, ReceivedNumber
  <2> QED
    BY <2>2, <2>3, <2>5, InterpretedIsNext
<1>2. ReceiversInv => [Step]_receiversVars
  BY <1>1
<1>3. [][Step]_receiversVars => CompletedNumbersAreNext
  BY PTL DEF CompletedNumbersAreNext
<1> QED
  BY <1>2, <1>3, ReceiversInvariant, PTL
-----------------------------------------------------------------------------
(***************************************************************************)
(* The inductive invariant of the polls.                                   *)
(***************************************************************************)
PollsInv ==
  /\ NumbersAreNumbers
  /\ DOMAIN rxPacketNumbers \subseteq Gateway
  /\ packetNumber \in [Gateway -> PacketNumber]
  /\ passed \in [Gateway -> Nat]
  /\ astray \in [Gateway -> BOOLEAN]
  /\ NumbersAreKept

\* Packets that pass are counted on both sides.
LEMMA NumbersGoOn ==
  ASSUME NEW number \in PacketNumber, NEW before \in Nat, NEW gone \in Nat
  PROVE  /\ (number + (before + gone)) % (LoSize * HiSize)
              = (((number + before) % (LoSize * HiSize)) + gone) % (LoSize * HiSize)
         /\ (number + gone) % (LoSize * HiSize) \in PacketNumber
         /\ (number + 0) % (LoSize * HiSize) = number
<1> DEFINE size == LoSize * HiSize
<1>1. size \in Nat \ {0} /\ PacketNumber = 0..size - 1
  BY TransportConstants DEF PacketNumber
<1> HIDE DEF size
<1>2. number \in 0..size - 1 /\ number + before \in Nat
  BY <1>1
<1>3. (number + (before + gone)) % size = (((number + before) % size) + gone) % size
  <2>1. number + (before + gone) = (number + before) + gone
    BY <1>2
  <2>2. (((number + before) % size) + gone) % size = ((number + before) + gone) % size
    BY <1>1, <1>2, Remainder
  <2> QED
    BY <2>1, <2>2, Zenon
<1>4. (number + gone) % size \in 0..size - 1
  BY <1>1, <1>2
<1>5. (0 * size + number) % size = number
  BY <1>1, <1>2, Digits
<1>6. (number + 0) % size = number
  BY <1>1, <1>2, <1>5
<1> QED
  BY <1>1, <1>3, <1>4, <1>6 DEF size

LEMMA PollKeepsInv ==
  ASSUME PollsInv, NEW g \in Gateway, Poll(g)
  PROVE  PollsInv'
<1>1. PICK overheard \in BOOLEAN :
        /\ IF overheard
             THEN /\ ReceiveRequest(PollFrame(g))
                  /\ passed' = [passed EXCEPT ![g] = 0]
                  /\ astray' = [astray EXCEPT ![g] = FALSE]
             ELSE UNCHANGED <<transportVars, passed, astray>>
        /\ UNCHANGED packetNumber
  BY DEF Poll
<1>2. CASE ~overheard
  BY <1>1, <1>2, SameNumbers DEF PollsInv, NumbersAreKept, transportVars
<1>3. CASE overheard
  <2>1. packetNumber[g] \in PacketNumber
    BY DEF PollsInv
  <2>2. rxPacketNumbers' = Insert(rxPacketNumbers, g, packetNumber[g])
    BY <1>1, <1>3 DEF ReceiveRequest, PollFrame
  <2>3. NumbersAreNumbers'
    BY <2>1, <2>2, InsertedNumber DEF PollsInv
  <2>4. ASSUME NEW h \in DOMAIN rxPacketNumbers', ~astray'[h]
        PROVE  (rxPacketNumbers'[h] + passed'[h]) % (LoSize * HiSize) = packetNumber'[h]
    <3>0. h \in Gateway
      BY <2>2 DEF Insert, PollsInv
    <3>1. CASE h = g
      <4>1. rxPacketNumbers'[h] = packetNumber[g] /\ passed'[h] = 0
        BY <1>1, <1>3, <2>2, <3>1 DEF Insert, PollsInv
      <4> QED
        BY <1>1, <2>1, <3>1, <4>1, NumbersGoOn
    <3>2. CASE h # g
      <4>1. /\ h \in DOMAIN rxPacketNumbers /\ rxPacketNumbers'[h] = rxPacketNumbers[h]
            /\ passed'[h] = passed[h] /\ astray'[h] = astray[h]
        BY <1>1, <1>3, <2>2, <3>0, <3>2 DEF Insert, PollsInv
      <4> QED
        BY <1>1, <2>4, <4>1 DEF PollsInv, NumbersAreKept
    <3> QED
      BY <3>1, <3>2
  <2>5. DOMAIN rxPacketNumbers' \subseteq Gateway
    BY <2>2 DEF Insert, PollsInv
  <2>6. passed' \in [Gateway -> Nat] /\ astray' \in [Gateway -> BOOLEAN]
    <3>1. /\ passed \in [Gateway -> Nat] /\ passed' = [passed EXCEPT ![g] = 0]
          /\ astray \in [Gateway -> BOOLEAN] /\ astray' = [astray EXCEPT ![g] = FALSE]
      BY <1>1, <1>3 DEF PollsInv
    <3> QED
      BY <3>1
  <2>7. NumbersAreKept'
    BY <2>4 DEF NumbersAreKept
  <2>8. packetNumber' \in [Gateway -> PacketNumber']
    BY <1>1 DEF PollsInv, PacketNumber
  <2> QED
    BY <2>3, <2>5, <2>6, <2>7, <2>8 DEF PollsInv
<1> QED
  BY <1>2, <1>3

LEMMA AnswerKeepsInv ==
  ASSUME PollsInv, NEW g \in Gateway, Answer(g)
  PROVE  PollsInv'
<1>1. PICK arrived, overheard, short \in BOOLEAN, packets \in 0..MaxPackets :
        LET gone == IF arrived THEN packets ELSE 0
        IN  /\ packetNumber' = [packetNumber EXCEPT ![g] = (@ + gone) % (LoSize * HiSize)]
            /\ IF overheard
                 THEN /\ ReceiveResponse(AnswerFrame(g, short, packets))
                      /\ passed' = [passed EXCEPT ![g] = gone]
                      /\ astray' = [astray EXCEPT ![g] = short /\ (@ \/ passed[g] >= LoSize)]
                 ELSE /\ passed' = [passed EXCEPT ![g] = @ + gone]
                      /\ UNCHANGED <<transportVars, astray>>
  BY DEF Answer
<1> DEFINE gone == IF arrived THEN packets ELSE 0
           f == AnswerFrame(g, short, packets)
           size == LoSize * HiSize
<1>2. gone \in Nat
  BY PollConstants
<1>3. /\ packetNumber' = [packetNumber EXCEPT ![g] = (packetNumber[g] + gone) % size]
      /\ overheard =>
           /\ ReceiveResponse(f)
           /\ passed' = [passed EXCEPT ![g] = gone]
           /\ astray' = [astray EXCEPT ![g] = short /\ (astray[g] \/ passed[g] >= LoSize)]
      /\ ~overheard =>
           /\ passed' = [passed EXCEPT ![g] = passed[g] + gone]
           /\ UNCHANGED <<transportVars, astray>>
  BY <1>1
<1> HIDE DEF gone
<1>4. /\ packetNumber \in [Gateway -> PacketNumber] /\ passed \in [Gateway -> Nat]
      /\ astray \in [Gateway -> BOOLEAN] /\ DOMAIN rxPacketNumbers \subseteq Gateway
      /\ NumbersAreNumbers /\ NumbersAreKept
  BY DEF PollsInv
<1>5. (packetNumber[g] + gone) % size \in PacketNumber
  BY <1>2, <1>4, NumbersGoOn
<1>6. packetNumber' \in [Gateway -> PacketNumber'] /\ passed' \in [Gateway -> Nat]
  <2>1. packetNumber' \in [Gateway -> PacketNumber]
    <3> HIDE DEF size
    <3> QED
      BY <1>3, <1>4, <1>5
  <2>2. passed' \in [Gateway -> Nat]
    BY <1>2, <1>3, <1>4
  <2> QED
    BY <2>1, <2>2 DEF PacketNumber
<1>7. astray' \in [Gateway -> BOOLEAN]
  <2>1. CASE ~overheard
    BY <1>3, <1>4, <2>1
  <2>2. CASE overheard
    <3>1. (short /\ (astray[g] \/ passed[g] >= LoSize)) \in BOOLEAN
      OBVIOUS
    <3> QED
      BY <1>3, <1>4, <2>2, <3>1
  <2> QED
    BY <2>1, <2>2
<1>8. ASSUME NEW h \in Gateway, h # g
      PROVE  /\ packetNumber'[h] = packetNumber[h] /\ passed'[h] = passed[h]
             /\ astray'[h] = astray[h]
  BY <1>3, <1>4, <1>8
<1>9. /\ packetNumber'[g] = (packetNumber[g] + gone) % size
      /\ overheard => /\ passed'[g] = gone
                      /\ astray'[g] = (short /\ (astray[g] \/ passed[g] >= LoSize))
      /\ ~overheard => passed'[g] = passed[g] + gone /\ astray'[g] = astray[g]
  BY <1>3, <1>4
<1>10. CASE overheard /\ g \in DOMAIN rxPacketNumbers
  <2>1. rxPacketNumbers' = Insert(rxPacketNumbers, g, ReceivedNumber(f))
    BY <1>3, <1>10 DEF ReceiveResponse, AnswerFrame, Refuse, JustCount
  <2> DEFINE old == rxPacketNumbers[g]
  <2>2. old \in PacketNumber /\ packetNumber[g] \in PacketNumber
    BY <1>4, <1>10 DEF NumbersAreNumbers
  <2>3. ReceivedNumber(f) = IF short THEN InterpretPacketNumberLo(packetNumber[g] % LoSize, old)
                                     ELSE packetNumber[g]
    BY DEF ReceivedNumber, AnswerFrame
  <2>4. ReceivedNumber(f) \in PacketNumber
    BY <2>2, <2>3, Halves, InterpretedIsNumber
  <2>5. ~astray'[g] => ReceivedNumber(f) = packetNumber[g]
    <3> SUFFICES ASSUME short, ~astray[g], ~(passed[g] >= LoSize)
                 PROVE  ReceivedNumber(f) = packetNumber[g]
      BY <1>9, <1>10, <2>3
    <3>1. passed[g] \in 0..LoSize - 1
      BY <1>4, TransportConstants
    <3>2. packetNumber[g] = (old + passed[g]) % size
      BY <1>4, <1>10 DEF NumbersAreKept
    <3>3. InterpretPacketNumberLo(packetNumber[g] % LoSize, old) = packetNumber[g]
      BY <2>2, <3>1, <3>2, InterpretedIsKept
    <3> QED
      BY <2>3, <3>3
  <2>6. NumbersAreNumbers'
    BY <1>4, <2>1, <2>4, InsertedNumber
  <2>7. DOMAIN rxPacketNumbers' \subseteq Gateway
    BY <1>4, <2>1 DEF Insert
  <2>8. ASSUME NEW h \in DOMAIN rxPacketNumbers', ~astray'[h]
        PROVE  (rxPacketNumbers'[h] + passed'[h]) % size = packetNumber'[h]
    <3>1. h \in Gateway
      BY <2>7
    <3>2. CASE h = g
      <4>1. rxPacketNumbers'[h] = ReceivedNumber(f)
        BY <2>1, <3>2 DEF Insert
      <4> HIDE DEF size
      <4> QED
        BY <1>9, <1>10, <2>5, <2>8, <3>2, <4>1
    <3>3. CASE h # g
      <4>1. h \in DOMAIN rxPacketNumbers /\ rxPacketNumbers'[h] = rxPacketNumbers[h]
        BY <2>1, <3>3 DEF Insert
      <4> QED
        BY <1>4, <1>8, <2>8, <3>1, <3>3, <4>1 DEF NumbersAreKept
    <3> QED
      BY <3>2, <3>3
  <2> QED
    BY <1>6, <1>7, <2>6, <2>7, <2>8 DEF PollsInv, NumbersAreKept
<1>11. CASE ~(overheard /\ g \in DOMAIN rxPacketNumbers)
  <2>1. UNCHANGED rxPacketNumbers
    BY <1>3, <1>11 DEF ReceiveResponse, AnswerFrame, Refuse, JustCount, transportVars
  <2>2. NumbersAreNumbers' /\ DOMAIN rxPacketNumbers' \subseteq Gateway
    BY <1>4, <2>1, SameNumbers
  <2>3. ASSUME NEW h \in DOMAIN rxPacketNumbers', ~astray'[h]
        PROVE  (rxPacketNumbers'[h] + passed'[h]) % size = packetNumber'[h]
    <3>1. h \in Gateway /\ h \in DOMAIN rxPacketNumbers /\ rxPacketNumbers'[h] = rxPacketNumbers[h]
      BY <2>1, <2>2
    <3>2. CASE h = g
      <4>1. ~overheard /\ ~astray[g] /\ passed'[g] = passed[g] + gone
        BY <1>9, <1>11, <2>3, <3>1, <3>2
      <4>2. (rxPacketNumbers[g] + passed[g]) % size = packetNumber[g]
        BY <1>4, <3>1, <3>2, <4>1 DEF NumbersAreKept
      <4>3. rxPacketNumbers[g] \in PacketNumber /\ passed[g] \in Nat
        BY <1>4, <3>1, <3>2 DEF NumbersAreNumbers
      <4>4. (rxPacketNumbers[g] + (passed[g] + gone)) % size
              = (((rxPacketNumbers[g] + passed[g]) % size) + gone) % size
        <5>1. ASSUME NEW number \in PacketNumber, NEW before \in Nat
              PROVE  (number + (before + gone)) % (LoSize * HiSize)
                       = (((number + before) % (LoSize * HiSize)) + gone) % (LoSize * HiSize)
          BY <1>2, NumbersGoOn
        <5> QED
          BY <4>3, <5>1
      <4> HIDE DEF size
      <4> QED
        BY <1>9, <3>1, <3>2, <4>1, <4>2, <4>4
    <3>3. CASE h # g
      BY <1>4, <1>8, <2>3, <3>1, <3>3 DEF NumbersAreKept
    <3> QED
      BY <3>2, <3>3
  <2> QED
    BY <1>6, <1>7, <2>2, <2>3 DEF PollsInv, NumbersAreKept
<1> QED
  BY <1>10, <1>11

(***************************************************************************)
(* Unless a circle of low halves goes by unheard, the number kept is the   *)
(* controller's up to the packets since (transport.rs:83, receiver.rs:218).*)
(***************************************************************************)
THEOREM PollsCorrect == PollsSpec => []NumbersAreKept
<1>1. PollsInit => PollsInv
  BY DEF PollsInit, TransportInit, PollsInv, NumbersAreNumbers, NumbersAreKept
<1>2. PollsInv /\ [PollsNext]_pollsVars => PollsInv'
  <2> SUFFICES ASSUME PollsInv, [PollsNext]_pollsVars PROVE PollsInv'
    OBVIOUS
  <2>1. CASE UNCHANGED pollsVars
    BY <2>1 DEF pollsVars, transportVars, PollsInv, NumbersAreNumbers, NumbersAreKept, PacketNumber
  <2> QED
    BY <2>1, PollKeepsInv, AnswerKeepsInv DEF PollsNext
<1>3. PollsInv => NumbersAreKept
  BY DEF PollsInv
<1> QED
  BY <1>1, <1>2, <1>3, PTL DEF PollsSpec
-----------------------------------------------------------------------------
(***************************************************************************)
(* A page is one of NodeTableReader's: the first nodes from its start on,  *)
(* as many as fit in a page.                                               *)
(***************************************************************************)
LEMMA FirstNode ==
  ASSUME NEW S \in SUBSET NodeID, S # {}
  PROVE  \E first \in S : \A n \in S : first <= n
<1> DEFINE Mirrored == {(MaxNode + 1) - n : n \in S}
<1>1. \A n \in S : n \in 1..MaxNode
  BY DEF NodeID
<1>2. Mirrored \in SUBSET NodeID /\ Mirrored # {}
  <2>1. \A n \in S : (MaxNode + 1) - n \in NodeID
    BY <1>1, NodeTableConstants DEF NodeID
  <2> QED
    BY <2>1
<1> DEFINE last == Max(Mirrored)
<1>3. last \in Mirrored /\ \A m \in Mirrored : m <= last
  BY <1>2, LastNode
<1>4. PICK first \in S : last = (MaxNode + 1) - first
  BY <1>3
<1> HIDE DEF last
<1>5. ASSUME NEW n \in S PROVE first <= n
  <2>1. (MaxNode + 1) - n <= (MaxNode + 1) - first
    BY <1>3, <1>4
  <2> QED
    BY <1>1, <2>1, NodeTableConstants
<1> QED
  BY <1>5

LEMMA NodesAreFinite ==
  ASSUME gatewayTable \in Tables, NEW start
  PROVE  /\ NodesFrom(start) \in SUBSET NodeID
         /\ IsFiniteSet(NodesFrom(start))
<1>1. DOMAIN gatewayTable \in SUBSET NodeID
  BY DEF Tables
<1>2. \A n \in NodesFrom(start) : n \in Nat /\ n <= MaxNode
  BY <1>1, NodeTableConstants DEF NodesFrom, NodeID
<1> QED
  BY <1>1, <1>2, NodeTableConstants, FS_BoundedSetOfNaturals DEF NodesFrom

LEMMA PageFits ==
  ASSUME gatewayTable \in Tables, NEW start, PageSize \in Nat \ {0}
  PROVE  /\ IsFiniteSet(PageNodes(start))
         /\ Cardinality(PageNodes(start)) <= PageSize
<1> DEFINE S == NodesFrom(start)
           P == PageNodes(start)
           Before(n) == {m \in S : m < n}
<1>1. S \in SUBSET NodeID /\ IsFiniteSet(S)
  BY NodesAreFinite
<1>2. P \in SUBSET S /\ \A n \in P : Cardinality(Before(n)) < PageSize
  BY DEF PageNodes
<1> HIDE DEF P, S
<1>3. IsFiniteSet(P)
  BY <1>1, <1>2, FS_Subset
<1>4. CASE P = {}
  BY <1>3, <1>4, FS_EmptySet DEF P
<1>5. CASE P # {}
  <2> DEFINE last == Max(P)
  <2>1. last \in P /\ \A n \in P : n <= last
    BY <1>1, <1>2, <1>5, LastNode
  <2> HIDE DEF last
  <2>2. P \subseteq Before(last) \cup {last}
    <3> SUFFICES ASSUME NEW n \in P, n # last PROVE n < last
      BY <1>2
    <3>1. n \in NodeID /\ last \in NodeID /\ n <= last
      BY <1>1, <1>2, <2>1
    <3> QED
      BY <3>1, NodeTableConstants DEF NodeID
  <2>3. IsFiniteSet(Before(last)) /\ Cardinality(Before(last)) \in Nat
    BY <1>1, FS_Subset, FS_CardinalityType
  <2>4. last \notin Before(last)
    BY <1>1, <1>2, <2>1, NodeTableConstants DEF NodeID
  <2>5. /\ IsFiniteSet(Before(last) \cup {last})
        /\ Cardinality(Before(last) \cup {last}) = Cardinality(Before(last)) + 1
    <3> HIDE DEF Before
    <3> QED
      BY <2>3, <2>4, FS_AddElement
  <2>6. Cardinality(P) <= Cardinality(Before(last) \cup {last}) /\ Cardinality(P) \in Nat
    BY <1>3, <2>2, <2>5, FS_Subset, FS_CardinalityType
  <2>7. Cardinality(Before(last)) < PageSize
    BY <1>2, <2>1
  <2> HIDE DEF Before
  <2>8. Cardinality(P) <= PageSize
    BY <2>3, <2>5, <2>6, <2>7
  <2> QED
    BY <1>3, <2>8 DEF P
<1> QED
  BY <1>4, <1>5

LEMMA PageIsFirstNodes ==
  ASSUME gatewayTable \in Tables, NEW start, PageSize \in Nat \ {0}
  PROVE  /\ PageNodes(start) \subseteq NodesFrom(start)
         /\ \A n \in PageNodes(start) : \A m \in NodesFrom(start) :
              m < n => m \in PageNodes(start)
         /\ NodesFrom(start) # {} => PageNodes(start) # {}
<1> DEFINE S == NodesFrom(start)
           Before(n) == {m \in S : m < n}
<1>1. S \in SUBSET NodeID /\ IsFiniteSet(S)
  BY NodesAreFinite
<1>2. PageNodes(start) = {n \in S : Cardinality(Before(n)) < PageSize}
  BY DEF PageNodes
<1> HIDE DEF S
<1>3. \A n \in S : n \in Nat
  BY <1>1 DEF NodeID
<1>4. ASSUME NEW n \in PageNodes(start), NEW m \in S, m < n
      PROVE  m \in PageNodes(start)
  <2>1. Before(m) \subseteq Before(n)
    BY <1>2, <1>3, <1>4
  <2>2. IsFiniteSet(Before(n)) /\ IsFiniteSet(Before(m))
    BY <1>1, FS_Subset
  <2> HIDE DEF Before
  <2>3. /\ Cardinality(Before(m)) <= Cardinality(Before(n))
        /\ Cardinality(Before(m)) \in Nat /\ Cardinality(Before(n)) \in Nat
    BY <2>1, <2>2, FS_Subset, FS_CardinalityType
  <2>4. Cardinality(Before(n)) < PageSize
    BY <1>2
  <2> QED
    BY <1>2, <2>3, <2>4
<1>5. ASSUME S # {} PROVE PageNodes(start) # {}
  <2>1. PICK first \in S : \A n \in S : first <= n
    BY <1>1, <1>5, FirstNode
  <2>2. Before(first) = {}
    BY <1>3, <2>1
  <2>3. Cardinality(Before(first)) = 0
    BY <2>2, FS_EmptySet
  <2> HIDE DEF Before
  <2> QED
    BY <1>2, <2>3
<1> QED
  BY <1>2, <1>4, <1>5 DEF S
-----------------------------------------------------------------------------
(***************************************************************************)
(* The calls of a frame, where it led to none or to one.                   *)
(***************************************************************************)
LEMMA NothingIsForwarded ==
  ASSUME Application(<<>>)
  PROVE  Len(appCalls') = 0
<1> DEFINE outcomes == [i \in 1..Len(<<>>) |-> Forwarded(<<>>[i])]
<1>1. appCalls' = FlattenSeq(outcomes)
  BY DEF Application
<1>2. Len(outcomes) = 0
  OBVIOUS
<1> QED
  BY <1>1, <1>2 DEF FlattenSeq

LEMMA OneIsForwarded ==
  ASSUME NEW call, Application(<<call>>)
  PROVE  appCalls' = Forwarded(call)
<1> DEFINE outcomes == [i \in 1..Len(<<call>>) |-> Forwarded(<<call>>[i])]
<1>1. appCalls' = FlattenSeq(outcomes)
  BY DEF Application
<1>2. Len(outcomes) = 1 /\ outcomes[1] = Forwarded(call)
  OBVIOUS
<1> HIDE DEF outcomes
<1> QED
  BY <1>1, <1>2, FlattenOne

(***************************************************************************)
(* What hearing a request does (transport/receiver.rs:236).                *)
(***************************************************************************)
LEMMA RequestPasses ==
  ASSUME NEW g, NEW c, Overhear(RequestFrame(g, c))
  PROVE  /\ commandsAwaitingResponse' = Insert(commandsAwaitingResponse, KeyOf(g, c), c.request)
         /\ Len(appCalls') = 0
<1> DEFINE f == RequestFrame(g, c)
<1>1. /\ f.kind = "command_request" /\ f.to /\ f.valid /\ f.gateway = g
      /\ f.body.sequence = c.number % Sequences /\ f.body.request = c.request
  BY DEF RequestFrame
<1> HIDE DEF f
<1>2. CommandRequest(f)
  BY <1>1 DEF Overhear, Frame, OnlyCounted, Reported, EnumerationStartRequest, ReceiveRequest,
              ReceiveResponse, CommandResponse, CountedKinds, ReportedKinds, f
<1>3. /\ commandsAwaitingResponse' = Insert(commandsAwaitingResponse, KeyOf(g, c), c.request)
      /\ calls' = <<>>
  BY <1>1, <1>2 DEF CommandRequest, KeyOf
<1>4. Application(<<>>)
  BY <1>3 DEF Overhear
<1> QED
  BY <1>3, <1>4, NothingIsForwarded

(***************************************************************************)
(* What hearing a response does (transport/receiver.rs:279).               *)
(***************************************************************************)
LEMMA ResponsePasses ==
  ASSUME NEW g, NEW c, NEW key, key = KeyOf(g, c), Overhear(ResponseFrame(g, c))
  PROVE  /\ DOMAIN commandsAwaitingResponse' = DOMAIN commandsAwaitingResponse \ {key}
         /\ \A k \in DOMAIN commandsAwaitingResponse' :
              commandsAwaitingResponse'[k] = commandsAwaitingResponse[k]
         /\ key \notin DOMAIN commandsAwaitingResponse => Len(appCalls') = 0
         /\ key \in DOMAIN commandsAwaitingResponse =>
              appCalls' = Forwarded(Call("command_executed", g,
                                         [request |-> commandsAwaitingResponse[key],
                                          response |-> Response(c.request)]))
<1> DEFINE f == ResponseFrame(g, c)
           execution == Call("command_executed", g,
                             [request |-> commandsAwaitingResponse[key],
                              response |-> Response(c.request)])
<1>1. /\ f.kind = "command_response" /\ ~f.to /\ f.valid /\ f.gateway = g
      /\ f.body.sequence = c.number % Sequences /\ f.body.response = Response(c.request)
  BY DEF ResponseFrame
<1>2. Overhear(f)
  OBVIOUS
<1> HIDE DEF f
<1>3. CommandResponse(f)
  BY <1>1, <1>2 DEF Overhear, Frame, OnlyCounted, Reported, EnumerationStartRequest,
                    ReceiveRequest, ReceiveResponse, CommandRequest, CountedKinds, ReportedKinds
<1>4. IsAwaited(f) <=> key \in DOMAIN commandsAwaitingResponse
  BY <1>1 DEF IsAwaited, KeyOf
<1>5. CASE key \notin DOMAIN commandsAwaitingResponse
  <2>1. commandsAwaitingResponse' = commandsAwaitingResponse /\ calls' = <<>>
    BY <1>1, <1>3, <1>4, <1>5 DEF CommandResponse, JustCount
  <2>2. Application(<<>>)
    BY <1>2, <2>1 DEF Overhear
  <2> QED
    BY <1>5, <2>1, <2>2, NothingIsForwarded
<1>6. CASE key \in DOMAIN commandsAwaitingResponse
  <2>1. commandsAwaitingResponse' = Answered(f) /\ calls' = <<Execution(f)>>
    BY <1>1, <1>3, <1>4, <1>6 DEF CommandResponse
  <2>2. Execution(f) = execution
    BY <1>1 DEF Execution, KeyOf
  <2>3. Application(<<execution>>)
    BY <1>2, <2>1, <2>2 DEF Overhear
  <2>4. appCalls' = Forwarded(execution)
    <3> HIDE DEF execution
    <3> QED
      BY <2>3, OneIsForwarded
  <2>5. /\ DOMAIN commandsAwaitingResponse' = DOMAIN commandsAwaitingResponse \ {key}
        /\ \A k \in DOMAIN commandsAwaitingResponse' :
             commandsAwaitingResponse'[k] = commandsAwaitingResponse[k]
    BY <1>1, <2>1 DEF Answered, Restrict, KeyOf
  <2> QED
    BY <1>6, <2>4, <2>5
<1> QED
  BY <1>5, <1>6
-----------------------------------------------------------------------------
(***************************************************************************)
(* What the calls of a frame do to the builder (observer.rs:354).          *)
(***************************************************************************)
LEMMA NoPageIsHanded ==
  ASSUME NodeTablePages, Len(appCalls') = 0
  PROVE  UNCHANGED <<builder, published>>
<1>1. {i \in 1..Len(appCalls') :
         appCalls'[i].op = "node_table_page" /\ appCalls'[i].gateway = Reading} = {}
  OBVIOUS
<1> QED
  BY <1>1 DEF NodeTablePages

LEMMA OneAndOne ==
  ASSUME NEW a, NEW b
  PROVE  <<a>> \o <<b>> = <<a, b>>
<1> DEFINE S == {a, b}
           s == <<a>> \o <<b>>
           t == <<a, b>>
<1>1. <<a>> \in Seq(S) /\ <<b>> \in Seq(S)
  OBVIOUS
<1>2. s \in Seq(S) /\ Len(s) = 2 /\ s[1] = a /\ s[2] = b
  BY <1>1
<1>3. t \in Seq(S) /\ Len(t) = 2 /\ t[1] = a /\ t[2] = b
  OBVIOUS
<1> HIDE DEF s, t, S
<1>4. \A i \in 1..Len(s) : s[i] = t[i]
  BY <1>2, <1>3
<1>5. s = t
  BY <1>2, <1>3, <1>4, SeqEqual
<1> QED
  BY <1>5 DEF s, t

LEMMA PageIsHanded ==
  ASSUME NodeTablePages, NEW g, NEW request \in Request, NEW response, response.valid = TRUE,
         appCalls' = Forwarded(Call("command_executed", g,
                                    [request |-> request, response |-> response]))
  PROVE  IF g = Reading /\ request.type = "node_table" /\ response.type = "node_table"
           THEN /\ builder' = AfterPush(builder, request.start, response.page)
                /\ published' = IF Publishes(builder, request.start, response.page)
                                  THEN Collected(builder, request.start) ELSE published
           ELSE UNCHANGED <<builder, published>>
<1> DEFINE executed == [request |-> request, response |-> response]
           execution == Call("command_executed", g, executed)
           page == Call("node_table_page", g, [start |-> request.start, page |-> response.page])
           handed == {i \in 1..Len(appCalls') :
                        appCalls'[i].op = "node_table_page" /\ appCalls'[i].gateway = Reading}
<1>1. execution.op = "command_executed" /\ execution.gateway = g /\ execution.what = executed
  BY DEF Call
<1>2. request.valid = TRUE
  BY PipelineConstants
<1>3. OutcomeOf(execution) = CommandExecuted(g, executed)
  BY <1>1 DEF OutcomeOf
<1>4. appCalls' = <<execution>> \o OutcomeOf(execution).calls
  BY DEF Forwarded
<1>5. executed.request = request /\ executed.response = response
  OBVIOUS
<1>6. CASE request.type = "node_table" /\ response.type = "node_table"
  <2>1. IsCommand(executed, "node_table")
    BY <1>6 DEF IsCommand
  <2>2. OutcomeOf(execution).calls = <<page>>
    <3>1. CommandExecuted(g, executed) = NodeTableCommand(g, request, response)
      BY <1>5, <2>1 DEF CommandExecuted, IsCommand
    <3>2. NodeTableCommand(g, request, response) = Outcome("none", <<page>>)
      BY <1>2 DEF NodeTableCommand
    <3> HIDE DEF page, execution
    <3> QED
      BY <1>3, <3>1, <3>2 DEF Outcome
  <2>3. appCalls' = <<execution, page>>
    <3> HIDE DEF page, execution
    <3> QED
      BY <1>4, <2>2, OneAndOne
  <2>4. page.op = "node_table_page" /\ page.gateway = g
    BY DEF Call
  <2>5. page.what.start = request.start /\ page.what.page = response.page
    BY DEF Call
  <2> HIDE DEF page, execution
  <2>6. Len(appCalls') = 2 /\ appCalls'[1] = execution /\ appCalls'[2] = page
    BY <2>3
  <2>7. CASE g = Reading
    <3>1. handed = {2}
      BY <1>1, <2>4, <2>6, <2>7
    <3>2. (CHOOSE i \in handed : TRUE) = 2
      BY <3>1
    <3>3. /\ builder' = AfterPush(builder, page.what.start, page.what.page)
          /\ published' = IF Publishes(builder, page.what.start, page.what.page)
                            THEN Collected(builder, page.what.start) ELSE published
      BY <2>6, <3>1, <3>2 DEF NodeTablePages
    <3> QED
      BY <1>6, <2>5, <2>7, <3>3
  <2>8. CASE g # Reading
    <3>1. handed = {}
      BY <1>1, <2>4, <2>6, <2>8
    <3> QED
      BY <2>8, <3>1 DEF NodeTablePages
  <2> QED
    BY <2>7, <2>8
<1>7. CASE ~(request.type = "node_table" /\ response.type = "node_table")
  <2>1. ~IsCommand(executed, "node_table")
    BY <1>7 DEF IsCommand
  <2>2. OutcomeOf(execution).calls \in {<<>>, <<Call("string_request", g, {})>>}
    BY <1>3, <2>1 DEF CommandExecuted, StringCommand, Nothing, Outcome
  <2>3. \A i \in 1..Len(appCalls') : appCalls'[i].op # "node_table_page"
    <3>1. CASE OutcomeOf(execution).calls = <<>>
      <4>1. appCalls' = <<execution>>
        <5> HIDE DEF execution
        <5> QED
          BY <1>4, <3>1
      <4> HIDE DEF execution
      <4> QED
        BY <1>1, <4>1
    <3>2. CASE OutcomeOf(execution).calls = <<Call("string_request", g, {})>>
      <4> DEFINE string == Call("string_request", g, {})
      <4>1. string.op = "string_request"
        BY DEF Call
      <4>2. OutcomeOf(execution).calls = <<string>>
        BY <3>2
      <4> HIDE DEF execution, string
      <4>3. appCalls' = <<execution, string>>
        BY <1>4, <4>2, OneAndOne
      <4> QED
        BY <1>1, <4>1, <4>3
    <3> QED
      BY <2>2, <3>1, <3>2
  <2>4. handed = {}
    BY <2>3
  <2> QED
    BY <1>7, <2>4 DEF NodeTablePages
<1> QED
  BY <1>6, <1>7
-----------------------------------------------------------------------------
(***************************************************************************)
(* The invariant, by what becomes of the stored requests.                  *)
(***************************************************************************)
LEMMA KeysOfGateways ==
  ASSUME NEW g, NEW h, NEW c, NEW d, KeyOf(g, c) = KeyOf(h, d)
  PROVE  g = h
BY DEF KeyOf

LEMMA CursorMovesOn ==
  ASSUME gatewayTable \in Tables, cursor \in 0..MaxNode
  PROVE  (IF PageNodes(cursor) = {} THEN 0 ELSE Successor(Max(PageNodes(cursor)))) \in 0..MaxNode
<1> DEFINE nodes == PageNodes(cursor)
<1>1. nodes \in SUBSET NodeID
  BY NodesAreFinite DEF PageNodes
<1> HIDE DEF nodes
<1>2. CASE nodes = {}
  BY <1>2, NodeTableConstants DEF nodes
<1>3. CASE nodes # {}
  <2>1. Max(nodes) \in NodeID
    BY <1>1, <1>3, LastNode
  <2> QED
    BY <1>3, <2>1, NodeTableConstants DEF Successor, NodeID, nodes
<1> QED
  BY <1>2, <1>3

LEMMA SendKeepsInv ==
  ASSUME PipelineInv, NEW g \in Gateway, NEW c \in [number : Nat, request : Request],
         SendRequest(g, c),
         command' = [command EXCEPT ![g] = c],
         open' = [open EXCEPT ![g] = TRUE],
         open[g] => c = command[g],
         g = Reading /\ c.request.type = "node_table" => c.request.start = cursor
  PROVE  /\ PipelineInv'
         /\ UNCHANGED tableVars
<1> USE DEF PipelineInv
<1>1. PICK arrived \in BOOLEAN, overheard \in BOOLEAN :
        /\ due' = [due EXCEPT ![g] = arrived]
        /\ IF overheard THEN Overhear(RequestFrame(g, c)) /\ NodeTablePages
                        ELSE UNCHANGED <<transportVars, applicationVars, builder, published>>
        /\ requestHeard' = [requestHeard EXCEPT ![g] = overheard \/ (@ /\ open[g])]
        /\ UNCHANGED <<gatewayTable, cursor>>
  BY DEF SendRequest
<1> DEFINE key == KeyOf(g, c)
<1>2. UNCHANGED <<builder, published>>
  <2>1. CASE overheard
    BY <1>1, <2>1, RequestPasses, NoPageIsHanded
  <2> QED
    BY <1>1, <2>1
<1>3. IF overheard
        THEN /\ DOMAIN commandsAwaitingResponse' = DOMAIN commandsAwaitingResponse \cup {key}
             /\ commandsAwaitingResponse'[key] = c.request
             /\ \A k \in DOMAIN commandsAwaitingResponse :
                  k # key => commandsAwaitingResponse'[k] = commandsAwaitingResponse[k]
        ELSE commandsAwaitingResponse' = commandsAwaitingResponse
  <2>1. CASE overheard
    <3>1. commandsAwaitingResponse' = Insert(commandsAwaitingResponse, key, c.request)
      BY <1>1, <2>1, RequestPasses
    <3> HIDE DEF key
    <3> QED
      BY <2>1, <3>1 DEF Insert
  <2> QED
    BY <1>1, <2>1 DEF transportVars
<1> HIDE DEF key
<1>4. c.request \in Request
  OBVIOUS
<1>5. PipelineTypes'
  <2>1. /\ command' \in [Gateway -> [number : Nat, request : Request]]
        /\ open' \in [Gateway -> BOOLEAN]
        /\ due' \in [Gateway -> BOOLEAN]
        /\ requestHeard' \in [Gateway -> BOOLEAN]
    BY <1>1 DEF PipelineTypes
  <2>2. \A k \in DOMAIN commandsAwaitingResponse' : commandsAwaitingResponse'[k] \in Request
    BY <1>3, <1>4 DEF PipelineTypes
  <2> QED
    BY <1>1, <2>1, <2>2 DEF PipelineTypes
<1>6. DueIsAwaited'
  BY <1>1 DEF DueIsAwaited, PipelineTypes
<1>7. AsksAtCursor'
  BY <1>1 DEF AsksAtCursor, PipelineTypes
<1>8. HeardWaits'
  <2> SUFFICES ASSUME NEW h \in Gateway, requestHeard'[h],
                      KeyOf(h, command'[h]) \in DOMAIN commandsAwaitingResponse'
               PROVE  commandsAwaitingResponse'[KeyOf(h, command'[h])] = command'[h].request
    BY DEF HeardWaits, KeyOf
  <2>1. CASE h # g
    <3>1. requestHeard[h] /\ command'[h] = command[h]
      BY <1>1, <2>1 DEF PipelineTypes
    <3>2. KeyOf(h, command[h]) # key
      BY <2>1, KeysOfGateways DEF key
    <3>3. /\ KeyOf(h, command[h]) \in DOMAIN commandsAwaitingResponse
          /\ commandsAwaitingResponse'[KeyOf(h, command[h])]
               = commandsAwaitingResponse[KeyOf(h, command[h])]
      BY <1>3, <3>1, <3>2
    <3> QED
      BY <3>1, <3>3 DEF HeardWaits
  <2>2. CASE h = g
    <3>1. command'[h] = c /\ KeyOf(h, command'[h]) = key
      BY <2>2 DEF PipelineTypes, key
    <3>2. CASE overheard
      BY <1>3, <3>1, <3>2
    <3>3. CASE ~overheard
      <4>1. requestHeard[g] /\ open[g]
        BY <1>1, <2>2, <3>3 DEF PipelineTypes
      <4> QED
        BY <1>3, <2>2, <3>1, <3>3, <4>1 DEF HeardWaits, key
    <3> QED
      BY <3>2, <3>3
  <2> QED
    BY <2>1, <2>2
<1> QED
  BY <1>1, <1>2, <1>5, <1>6, <1>7, <1>8 DEF tableVars
-----------------------------------------------------------------------------
(***************************************************************************)
(* NodeTableReader's builder is the pipeline's.                            *)
(***************************************************************************)
LEMMA ReaderPushes ==
  ASSUME NEW b, NEW start, NEW page
  PROVE  /\ Reader!AfterPush(b, start, page) = AfterPush(b, start, page)
         /\ Reader!Publishes(b, start, page) = Publishes(b, start, page)
         /\ Reader!Collected(b, start) = Collected(b, start)
<1>1. Reader!EmptyTable = EmptyTable /\ Reader!NewBuilder = NewBuilder
  BY DEF Reader!EmptyTable, EmptyTable, Reader!NewBuilder, NewBuilder
<1>2. Reader!Collected(b, start) = Collected(b, start)
  BY <1>1 DEF Reader!Collected, Collected, Reader!Continues, Continues
<1>3. Reader!Ignores(b, start) = Ignores(b, start)
  BY DEF Reader!Ignores, Ignores, Reader!Continues, Continues
<1>4. Reader!Publishes(b, start, page) = Publishes(b, start, page)
  BY <1>3 DEF Reader!Publishes, Publishes, Reader!EndsTable, EndsTable
<1>5. Reader!Merged(b, start, page) = Merged(b, start, page)
  BY <1>2 DEF Reader!Merged, Merged
<1>6. \A table : Reader!Continued(table) = Continued(table)
  BY <1>1 DEF Reader!Continued, Continued, Reader!Successor, Successor, Reader!Max, Max
<1>7. Reader!AfterPush(b, start, page) = AfterPush(b, start, page)
  BY <1>1, <1>3, <1>4, <1>5, <1>6 DEF Reader!AfterPush, AfterPush
<1> QED
  BY <1>2, <1>4, <1>7

LEMMA ReaderAdvances ==
  ASSUME NEW nodes
  PROVE  Reader!Successor(Reader!Max(nodes)) = Successor(Max(nodes))
BY DEF Reader!Successor, Successor, Reader!Max, Max

LEMMA ReaderCounts == \A S : Reader!Cardinality(S) = Cardinality(S)
BY DEF Reader!Cardinality, Cardinality

LEMMA ReaderTables == Reader!Tables = Tables /\ \A n : Reader!NodesFrom(n) = NodesFrom(n)
BY DEF Reader!Tables, Tables, Reader!NodeID, NodeID, Reader!NodesFrom, NodesFrom

LEMMA PageIsReaders ==
  ASSUME gatewayTable \in Tables
  PROVE  PageNodes(cursor) \in Reader!PageNodes
BY PipelineConstants, PageFits, PageIsFirstNodes, ReaderCounts, ReaderTables
   DEF Reader!PageNodes

(***************************************************************************)
(* What a response does to the builder: nothing, or it hands it the page   *)
(* at the cursor, at the start address of the request that was stored.     *)
(***************************************************************************)
PageAt(start) == [entries |-> [n \in PageNodes(start) |-> gatewayTable[n]], bad |-> FALSE]

HandsPage(request) ==
  /\ builder' = AfterPush(builder, request.start, PageAt(cursor))
  /\ published' = IF Publishes(builder, request.start, PageAt(cursor))
                    THEN Collected(builder, request.start) ELSE published

LEMMA ResponseHandsPage ==
  ASSUME PipelineInv, NEW g \in Gateway, due[g],
         NEW c, c = command[g], NEW key, key = KeyOf(g, c),
         Overhear(ResponseFrame(g, c)), NodeTablePages
  PROVE  \/ UNCHANGED <<builder, published>>
         \/ /\ g = Reading /\ c.request.type = "node_table"
            /\ key \in DOMAIN commandsAwaitingResponse
            /\ HandsPage(commandsAwaitingResponse[key])
<1> DEFINE request == commandsAwaitingResponse[key]
           response == Response(c.request)
<1>1. c.request \in Request
  BY DEF PipelineInv, PipelineTypes
<1>2. CASE key \notin DOMAIN commandsAwaitingResponse
  BY <1>2, ResponsePasses, NoPageIsHanded
<1>3. CASE key \in DOMAIN commandsAwaitingResponse
  <2>1. request \in Request
    BY <1>3 DEF PipelineInv, PipelineTypes
  <2>2. appCalls' = Forwarded(Call("command_executed", g,
                                   [request |-> request, response |-> response]))
    BY <1>3, ResponsePasses
  <2>3. response.valid = TRUE /\ response.type = c.request.type
    BY DEF Response
  <2> HIDE DEF request, response
  <2>4. IF g = Reading /\ request.type = "node_table" /\ response.type = "node_table"
          THEN /\ builder' = AfterPush(builder, request.start, response.page)
               /\ published' = IF Publishes(builder, request.start, response.page)
                                 THEN Collected(builder, request.start) ELSE published
          ELSE UNCHANGED <<builder, published>>
    BY <2>1, <2>2, <2>3, PageIsHanded
  <2>5. CASE g = Reading /\ request.type = "node_table" /\ response.type = "node_table"
    <3>1. open[g]
      BY DEF PipelineInv, DueIsAwaited
    <3>2. c.request.start = cursor
      BY <2>3, <2>5, <3>1 DEF PipelineInv, AsksAtCursor
    <3>3. response.page = PageAt(cursor)
      BY <2>3, <2>5, <3>2 DEF response, Response, PageAt
    <3> QED
      BY <1>3, <2>3, <2>4, <2>5, <3>3 DEF HandsPage, request
  <2> QED
    BY <2>4, <2>5
<1> QED
  BY <1>2, <1>3

(***************************************************************************)
(* A response keeps the invariant.                                         *)
(***************************************************************************)
LEMMA RespondKeepsInv ==
  ASSUME PipelineInv, NEW g \in Gateway, Respond(g)
  PROVE  PipelineInv'
<1> DEFINE key == KeyOf(g, command[g])
<1>1. PICK arrived \in BOOLEAN, overheard \in BOOLEAN :
        /\ due[g]
        /\ due' = [due EXCEPT ![g] = FALSE]
        /\ open' = [open EXCEPT ![g] = ~arrived]
        /\ IF arrived THEN Advance(g) ELSE UNCHANGED cursor
        /\ IF overheard THEN Overhear(ResponseFrame(g, command[g])) /\ NodeTablePages
                        ELSE UNCHANGED <<transportVars, applicationVars, builder, published>>
        /\ UNCHANGED <<gatewayTable, command, requestHeard>>
  BY DEF Respond
<1>2. /\ DOMAIN commandsAwaitingResponse' \subseteq DOMAIN commandsAwaitingResponse
      /\ \A k \in DOMAIN commandsAwaitingResponse' :
           commandsAwaitingResponse'[k] = commandsAwaitingResponse[k]
  <2>1. CASE overheard
    <3>1. Overhear(ResponseFrame(g, command[g]))
      BY <1>1, <2>1
    <3> QED
      BY <3>1, ResponsePasses
  <2> QED
    BY <1>1, <2>1 DEF transportVars
<1>3. cursor' \in 0..MaxNode
  BY <1>1, CursorMovesOn DEF Advance, PipelineInv, PipelineTypes
<1>4. PipelineTypes'
  BY <1>1, <1>2, <1>3 DEF PipelineInv, PipelineTypes
<1>5. DueIsAwaited'
  BY <1>1 DEF PipelineInv, DueIsAwaited, PipelineTypes
<1>6. AsksAtCursor'
  <2> SUFFICES ASSUME open'[Reading], command[Reading].request.type = "node_table"
               PROVE  command[Reading].request.start = cursor'
    BY <1>1 DEF AsksAtCursor
  <2>1. open[Reading] /\ command[Reading].request.start = cursor
    BY <1>1, PipelineConstants DEF PipelineInv, PipelineTypes, DueIsAwaited, AsksAtCursor
  <2>2. cursor' = cursor
    BY <1>1, PipelineConstants DEF Advance, PipelineInv, PipelineTypes
  <2> QED
    BY <2>1, <2>2
<1>7. HeardWaits'
  BY <1>1, <1>2 DEF PipelineInv, HeardWaits, KeyOf
<1> QED
  BY <1>4, <1>5, <1>6, <1>7 DEF PipelineInv

LEMMA IssueKeepsInv ==
  ASSUME PipelineInv, NEW g \in Gateway, NEW request \in Request, Issue(g, request),
         g = Reading /\ request.type = "node_table" => request.start = cursor
  PROVE  PipelineInv' /\ UNCHANGED tableVars
<1> DEFINE c == [number |-> command[g].number + 1, request |-> request]
<1>1. command[g] \in [number : Nat, request : Request]
  BY DEF PipelineInv, PipelineTypes
<1>2. c \in [number : Nat, request : Request] /\ c.request = request
  BY <1>1
<1>3. /\ ~open[g]
      /\ command' = [command EXCEPT ![g] = c]
      /\ open' = [open EXCEPT ![g] = TRUE]
      /\ SendRequest(g, command'[g])
  BY DEF Issue
<1>4. command'[g] = c
  BY <1>3 DEF PipelineInv, PipelineTypes
<1> HIDE DEF c
<1> QED
  BY <1>2, <1>3, <1>4, SendKeepsInv

LEMMA RetryKeepsInv ==
  ASSUME PipelineInv, NEW g \in Gateway, Retry(g)
  PROVE  PipelineInv' /\ UNCHANGED tableVars
<1> DEFINE c == command[g]
<1>1. open[g] /\ SendRequest(g, c) /\ UNCHANGED <<command, open>>
  BY DEF Retry
<1>2. c \in [number : Nat, request : Request]
  BY DEF PipelineInv, PipelineTypes
<1>3. /\ command' = [command EXCEPT ![g] = c]
      /\ open' = [open EXCEPT ![g] = TRUE]
  BY <1>1 DEF PipelineInv, PipelineTypes
<1>4. g = Reading /\ c.request.type = "node_table" => c.request.start = cursor
  BY <1>1 DEF PipelineInv, AsksAtCursor
<1>5. open[g] => c = command[g]
  OBVIOUS
<1> HIDE DEF c
<1> QED
  BY <1>1, <1>2, <1>3, <1>4, <1>5, SendKeepsInv

LEMMA RequestsAreRequests ==
  ASSUME NEW type \in {"node_table", "string"}, NEW start \in 0..MaxNode
  PROVE  RequestOf(type, start) \in Request
BY PipelineConstants DEF RequestOf

LEMMA PipelineInitially == PipelineInit => PipelineInv
<1> SUFFICES ASSUME PipelineInit PROVE PipelineInv
  OBVIOUS
<1>1. 0 \in 0..MaxNode
  BY NodeTableConstants
<1>2. RequestOf("string", 0) \in Request
  BY <1>1, RequestsAreRequests
<1>3. DOMAIN commandsAwaitingResponse = {}
  BY DEF PipelineInit, TransportInit
<1>4. PipelineTypes
  BY <1>1, <1>2, <1>3 DEF PipelineInit, PipelineTypes
<1> QED
  BY <1>3, <1>4, PipelineConstants
     DEF PipelineInit, PipelineInv, DueIsAwaited, AsksAtCursor, HeardWaits

(***************************************************************************)
(* The steps that do not hand anything to the builder.                     *)
(***************************************************************************)
LEMMA OtherSteps ==
  ASSUME PipelineInv,
         \/ AskForPage
         \/ \E g \in Gateway : SendString(g) \/ Retry(g)
  PROVE  PipelineInv' /\ UNCHANGED tableVars
<1>1. CASE AskForPage
  <2>1. cursor \in 0..MaxNode
    BY DEF PipelineInv, PipelineTypes
  <2>2. RequestOf("node_table", cursor) \in Request
    BY <2>1, RequestsAreRequests
  <2>3. RequestOf("node_table", cursor).start = cursor
    BY DEF RequestOf
  <2> QED
    BY <1>1, <2>2, <2>3, PipelineConstants, IssueKeepsInv DEF AskForPage
<1>2. ASSUME NEW g \in Gateway, SendString(g)
      PROVE  PipelineInv' /\ UNCHANGED tableVars
  <2>1. RequestOf("string", 0) \in Request
    BY NodeTableConstants, RequestsAreRequests
  <2>2. RequestOf("string", 0).type = "string"
    BY DEF RequestOf
  <2> QED
    BY <1>2, <2>1, <2>2, IssueKeepsInv DEF SendString
<1>3. ASSUME NEW g \in Gateway, Retry(g)
      PROVE  PipelineInv' /\ UNCHANGED tableVars
  BY <1>3, RetryKeepsInv
<1> QED
  BY <1>1, <1>2, <1>3

LEMMA RestartKeepsInv == PipelineInv /\ RestartRead => PipelineInv'
BY NodeTableConstants
   DEF PipelineInv, PipelineTypes, DueIsAwaited, AsksAtCursor, HeardWaits, KeyOf,
       RestartRead, transportVars, controllerVars

LEMMA StutterKeepsInv == PipelineInv /\ UNCHANGED pipelineVars => PipelineInv'
BY DEF PipelineInv, PipelineTypes, DueIsAwaited, AsksAtCursor, HeardWaits, KeyOf,
       pipelineVars, transportVars, tableVars, controllerVars

(***************************************************************************)
(* The invariant holds, however many frames are lost.                      *)
(***************************************************************************)
THEOREM PipelineInvariant == PipelineSpec => []PipelineInv
<1>1. PipelineInv /\ [PipelineNext]_pipelineVars => PipelineInv'
  BY OtherSteps, RespondKeepsInv, RestartKeepsInv, StutterKeepsInv DEF PipelineNext
<1> QED
  BY <1>1, PipelineInitially, PTL DEF PipelineSpec
-----------------------------------------------------------------------------
(***************************************************************************)
(* A response that was heard, and whose request was, is one of             *)
(* NodeTableReader's steps, or none.                                       *)
(***************************************************************************)
LEMMA RespondIsReaders ==
  ASSUME PipelineInv, NEW g \in Gateway, Respond(g), trusted'
  PROVE  Reader!ReaderNext \/ UNCHANGED tableVars
<1> DEFINE c == command[g]
           key == KeyOf(g, c)
           nodes == PageNodes(cursor)
<1>1. PICK arrived \in BOOLEAN, overheard \in BOOLEAN :
        /\ due[g]
        /\ IF arrived THEN Advance(g) ELSE UNCHANGED cursor
        /\ IF overheard THEN Overhear(ResponseFrame(g, c)) /\ NodeTablePages
                        ELSE UNCHANGED <<transportVars, applicationVars, builder, published>>
        /\ trusted' = (overheard => requestHeard[g])
        /\ UNCHANGED gatewayTable
  BY DEF Respond
<1>2. nodes \in Reader!PageNodes
  BY PageIsReaders DEF PipelineInv, PipelineTypes
<1>3. \/ g = Reading /\ c.request.type = "node_table" /\ arrived /\ Reader!Advance(nodes)
      \/ UNCHANGED cursor
  BY <1>1, ReaderAdvances DEF Advance, Reader!Advance
<1>4. CASE UNCHANGED <<builder, published>>
  <2>1. UNCHANGED tableVars \/ Reader!MissPage(nodes)
    BY <1>1, <1>3, <1>4 DEF tableVars, Reader!MissPage
  <2> QED
    BY <1>2, <2>1 DEF Reader!ReaderNext
<1>5. CASE ~UNCHANGED <<builder, published>>
  <2>1. overheard
    BY <1>1, <1>5
  <2>2. /\ g = Reading /\ c.request.type = "node_table"
        /\ key \in DOMAIN commandsAwaitingResponse
        /\ HandsPage(commandsAwaitingResponse[key])
    <3> HIDE DEF c, key
    <3>1. Overhear(ResponseFrame(g, c)) /\ NodeTablePages /\ due[g]
      BY <1>1, <2>1
    <3> QED
      BY <1>5, <3>1, ResponseHandsPage DEF c, key
  <2>3. commandsAwaitingResponse[key] = c.request
    BY <1>1, <2>1, <2>2 DEF PipelineInv, HeardWaits
  <2>4. c.request.start = cursor
    BY <1>1, <2>2, PipelineConstants DEF PipelineInv, DueIsAwaited, AsksAtCursor
  <2>5. Reader!HandPage(Reader!Page(nodes))
    <3>1. Reader!Page(nodes) = PageAt(cursor)
      BY DEF Reader!Page, Reader!Part, PageAt
    <3> HIDE DEF c, key, nodes
    <3> QED
      BY <1>1, <2>2, <2>3, <2>4, <3>1, ReaderPushes DEF HandsPage, Reader!HandPage, PageAt
  <2>6. Reader!ReadPage(nodes) \/ Reader!RepeatPage(nodes)
    BY <1>3, <2>5 DEF Reader!ReadPage, Reader!RepeatPage
  <2> QED
    BY <1>2, <2>6 DEF Reader!ReaderNext
<1> QED
  BY <1>4, <1>5

LEMMA RestartIsReaders == RestartRead => Reader!ReaderNext
BY DEF RestartRead, Reader!ReaderNext, Reader!RestartRead

LEMMA InitIsReaders == PipelineInit => Reader!ReaderInit
BY ReaderTables DEF PipelineInit, Reader!ReaderInit, Reader!NewBuilder, Reader!EmptyTable,
                    NewBuilder, EmptyTable

(***************************************************************************)
(* ReaderIsImplemented, for any table and number of faults: while what is  *)
(* heard is paired with a request that was heard (receiver.rs:291), the    *)
(* receivers hand the builder just the pages of NodeTableReader.           *)
(***************************************************************************)
THEOREM ReaderCorrect == PipelineSpec => ReaderIsImplemented
<1>1. PipelineInv /\ [PipelineNext]_pipelineVars
        => [trusted' => Reader!ReaderNext \/ UNCHANGED tableVars]_pipelineVars
  BY OtherSteps, RespondIsReaders, RestartIsReaders DEF PipelineNext
<1> QED
  BY <1>1, InitIsReaders, PipelineInvariant, PTL DEF PipelineSpec, ReaderIsImplemented

(***************************************************************************)
(* So a pipeline that hears no response without its request implements     *)
(* NodeTableReader, and what NodeTableReaderProofs says of the tables that *)
(* are published there holds of it.                                        *)
(***************************************************************************)
THEOREM TrustedIsReader == PipelineSpec /\ []trusted => Reader!ReaderSpec
<1>1. PipelineInv /\ trusted' /\ [PipelineNext]_pipelineVars
        => [Reader!ReaderNext]_Reader!readerVars
  <2> SUFFICES ASSUME PipelineInv, trusted', [PipelineNext]_pipelineVars
               PROVE  Reader!ReaderNext \/ UNCHANGED Reader!readerVars
    OBVIOUS
  <2>1. CASE UNCHANGED tableVars
    BY <2>1 DEF tableVars, Reader!readerVars
  <2>2. CASE PipelineNext
    BY <2>1, <2>2, OtherSteps, RespondIsReaders, RestartIsReaders DEF PipelineNext
  <2>3. CASE UNCHANGED pipelineVars
    BY <2>1, <2>3 DEF pipelineVars
  <2> QED
    BY <2>2, <2>3
<1> QED
  BY <1>1, InitIsReaders, PipelineInvariant, PTL DEF PipelineSpec, Reader!ReaderSpec

LEMMA RespondPublishesAtTheEnd ==
  ASSUME PipelineInv, NEW g \in Gateway, Respond(g), published' # published
  PROVE  NodesFrom(cursor) = {}
<1> DEFINE key == KeyOf(g, command[g])
           request == commandsAwaitingResponse[key]
<1>1. due[g] /\ Overhear(ResponseFrame(g, command[g])) /\ NodeTablePages
  BY DEF Respond
<1>2. HandsPage(request)
  BY <1>1, ResponseHandsPage
<1>3. Publishes(builder, request.start, PageAt(cursor))
  <2> HIDE DEF request
  <2> QED
    BY <1>2 DEF HandsPage
<1>4. PageNodes(cursor) = {}
  <2> HIDE DEF request
  <2> QED
    BY <1>3 DEF Publishes, EndsTable, PageAt
<1> QED
  BY <1>4, PipelineConstants, PageIsFirstNodes DEF PipelineInv, PipelineTypes

(***************************************************************************)
(* PublishedAtTheEnd, also for what was paired with the wrong request: an  *)
(* empty page means that there are no more nodes.                          *)
(***************************************************************************)
THEOREM PublishingCorrect == PipelineSpec => PublishedAtTheEnd
<1>1. PipelineInv /\ [PipelineNext]_pipelineVars
        => [published' # published => NodesFrom(cursor) = {}]_pipelineVars
  <2>1. RestartRead => published' = published
    BY DEF RestartRead
  <2> QED
    BY <2>1, OtherSteps, RespondPublishesAtTheEnd DEF PipelineNext, tableVars
<1> QED
  BY <1>1, PipelineInvariant, PTL DEF PipelineSpec, PublishedAtTheEnd
-----------------------------------------------------------------------------
(***************************************************************************)
(* What is proved of the tables that NodeTableReader publishes holds of    *)
(* the pipeline.  Proved is the instance Reader once more, with its        *)
(* theorems.                                                               *)
(***************************************************************************)
Proved == INSTANCE NodeTableReaderProofs
            WITH spoilt <- FALSE, BadPages <- FALSE, MaxFaults <- 0, faults <- 0, heard <- FALSE

LEMMA SameBuilder ==
  /\ Reader!NewBuilder = Proved!NewBuilder
  /\ \A b, start, page :
       /\ Reader!AfterPush(b, start, page) = Proved!AfterPush(b, start, page)
       /\ Reader!Publishes(b, start, page) = Proved!Publishes(b, start, page)
       /\ Reader!Collected(b, start) = Proved!Collected(b, start)
<1>1. Reader!EmptyTable = Proved!EmptyTable /\ Reader!NewBuilder = Proved!NewBuilder
  BY DEF Reader!EmptyTable, Proved!EmptyTable, Reader!NewBuilder, Proved!NewBuilder
<1> SUFFICES ASSUME NEW b, NEW start, NEW page
             PROVE  /\ Reader!AfterPush(b, start, page) = Proved!AfterPush(b, start, page)
                    /\ Reader!Publishes(b, start, page) = Proved!Publishes(b, start, page)
                    /\ Reader!Collected(b, start) = Proved!Collected(b, start)
  BY <1>1
<1>2. Reader!Collected(b, start) = Proved!Collected(b, start)
  BY <1>1 DEF Reader!Collected, Proved!Collected, Reader!Continues, Proved!Continues
<1>3. Reader!Ignores(b, start) = Proved!Ignores(b, start)
  BY DEF Reader!Ignores, Proved!Ignores, Reader!Continues, Proved!Continues
<1>4. Reader!Publishes(b, start, page) = Proved!Publishes(b, start, page)
  BY <1>3 DEF Reader!Publishes, Proved!Publishes, Reader!EndsTable, Proved!EndsTable
<1>5. Reader!Merged(b, start, page) = Proved!Merged(b, start, page)
  BY <1>2 DEF Reader!Merged, Proved!Merged
<1>6. \A table : Reader!Continued(table) = Proved!Continued(table)
  BY <1>1 DEF Reader!Continued, Proved!Continued, Reader!Successor, Proved!Successor,
              Reader!Max, Proved!Max
<1>7. Reader!AfterPush(b, start, page) = Proved!AfterPush(b, start, page)
  BY <1>1, <1>3, <1>4, <1>5, <1>6 DEF Reader!AfterPush, Proved!AfterPush
<1> QED
  BY <1>2, <1>4, <1>7

LEMMA SameSteps == Reader!ReaderNext => Proved!ReaderNext
<1>1. Reader!PageNodes = Proved!PageNodes
  <2>1. \A S : Reader!Cardinality(S) = Proved!Cardinality(S)
    BY DEF Reader!Cardinality, Proved!Cardinality
  <2>2. \A n : Reader!NodesFrom(n) = Proved!NodesFrom(n)
    BY DEF Reader!NodesFrom, Proved!NodesFrom
  <2> QED
    BY <2>1, <2>2 DEF Reader!PageNodes, Proved!PageNodes
<1>2. \A page : Reader!HandPage(page) = Proved!HandPage(page)
  BY SameBuilder DEF Reader!HandPage, Proved!HandPage
<1>3. \A nodes : Reader!Page(nodes) = Proved!Page(nodes)
  BY DEF Reader!Page, Proved!Page, Reader!Part, Proved!Part
<1>4. \A nodes : Reader!Advance(nodes) = Proved!Advance(nodes)
  BY DEF Reader!Advance, Proved!Advance, Reader!Successor, Proved!Successor,
         Reader!Max, Proved!Max
<1> QED
  BY <1>1, <1>2, <1>3, <1>4
  DEF Reader!ReaderNext, Reader!ReadPage, Reader!MissPage, Reader!RepeatPage,
      Reader!SpoiltPage, Reader!RestartRead,
      Proved!ReaderNext, Proved!ReadPage, Proved!MissPage, Proved!RepeatPage,
      Proved!SpoiltPage, Proved!RestartRead

LEMMA ReaderPublishes == Reader!ReaderSpec => Reader!PublishedHasNoHoles
<1>1. NoTable \notin Proved!Tables
  BY PipelineConstants DEF Tables, Proved!Tables, NodeID, Proved!NodeID
<1>2. Proved!ReaderSpec => Proved!PublishedHasNoHoles
  BY <1>1, PipelineConstants, NodeTableConstants, Proved!PublishedCorrect
     DEF Proved!ReaderConstants, Proved!NodeTableConstants
<1>3. Reader!ReaderInit => Proved!ReaderInit
  BY SameBuilder DEF Reader!ReaderInit, Proved!ReaderInit, Reader!Tables, Proved!Tables,
                     Reader!NodeID, Proved!NodeID
<1>4. [Reader!ReaderNext]_Reader!readerVars => [Proved!ReaderNext]_Proved!readerVars
  BY SameSteps DEF Reader!readerVars, Proved!readerVars
<1>5. [published' # published /\ ~FALSE =>
         \E lowest \in 0..MaxNode + 1 :
           published' = Proved!Part(Proved!NodesFrom(lowest))]_Proved!readerVars
      => [published' # published /\ ~FALSE =>
            \E lowest \in 0..MaxNode + 1 :
              published' = Reader!Part(Reader!NodesFrom(lowest))]_Reader!readerVars
  BY DEF Proved!readerVars, Reader!readerVars, Reader!Part, Proved!Part,
         Reader!NodesFrom, Proved!NodesFrom
<1>6. Proved!PublishedHasNoHoles => Reader!PublishedHasNoHoles
  BY <1>5, PTL DEF Proved!PublishedHasNoHoles, Reader!PublishedHasNoHoles
<1> QED
  BY <1>2, <1>3, <1>4, <1>6, PTL DEF Reader!ReaderSpec, Proved!ReaderSpec

(***************************************************************************)
(* However requests and responses are lost and sent again, as long as no   *)
(* response is heard whose request was missed, every table that comes out  *)
(* of the two receivers and the builder (observer/node_table.rs:108) is    *)
(* the gateway's from some node on.                                        *)
(***************************************************************************)
THEOREM PipelineTablesCorrect == PipelineSpec /\ []trusted => Reader!PublishedHasNoHoles
BY TrustedIsReader, ReaderPublishes, PTL
=============================================================================
