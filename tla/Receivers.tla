------------------------------ MODULE Receivers -----------------------------
(***************************************************************************)
(* TransportReceiver and Application on any stream of frames, of every     *)
(* kind and going both ways, some of them malformed.                       *)
(***************************************************************************)
EXTENDS Application

CONSTANT Frames   \* the frames that can be on the line

Packet == [type : STRING, node : Nat, valid : BOOLEAN]

\* What a frame says is of the size its kind gives it: the two halves of a
\* packet number are bytes, and behind the status are packets.
ASSUME FramesAreFrames ==
  \A f \in Frames :
    f.valid =>
      /\ f.kind = "receive_request" => f.body \in PacketNumber
      /\ f.kind = "receive_response" =>
           /\ f.body.number \in IF f.body.short THEN 0..LoSize - 1 ELSE PacketNumber
           /\ f.body.packets \in Seq(Packet)

receiversVars == <<transportVars, applicationVars>>

ReceiversInit == TransportInit /\ ApplicationInit

ReceiversNext ==
  \/ \E f \in Frames : Overhear(f)
  \/ ResetCounters /\ Application(<<>>)

ReceiversSpec == ReceiversInit /\ [][ReceiversNext]_receiversVars
-----------------------------------------------------------------------------
(***************************************************************************)
(* The low half of a packet number is completed to the next number there   *)
(* is: of all numbers with this low half the one closest after the number  *)
(* known so far, the numbers forming a circle (transport.rs:83).           *)
(***************************************************************************)
Ahead(from, to) == ((to + LoSize * HiSize) - from) % (LoSize * HiSize)

AbridgedResponses ==
  {f \in Frames : f.kind = "receive_response" /\ ~f.to /\ f.valid /\ f.body.short}

CompletedNumbersAreNext ==
  [][\A f \in AbridgedResponses :
       f.gateway \in DOMAIN rxPacketNumbers /\ ReceiveResponse(f) =>
         LET old == rxPacketNumbers[f.gateway]
             new == rxPacketNumbers'[f.gateway]
         IN  \A n \in PacketNumber :
               n % LoSize = f.body.number => Ahead(old, new) <= Ahead(old, n)
    ]_receiversVars

(***************************************************************************)
(* A report reaches the observer after the slot counter of the response it *)
(* came with (receiver.rs:220 before 222): that is what brings the slot    *)
(* clock up to the time the report is dated with.                          *)
(***************************************************************************)
ClockBeforeReports ==
  \A i \in 1..Len(appCalls) :
    appCalls[i].op \in DOMAIN ParsedPackets =>
      \E j \in 1..i - 1 :
        /\ appCalls[j].op = "gateway_slot_counter_observed"
        /\ appCalls[j].gateway = appCalls[i].gateway
=============================================================================
