-------------------------- MODULE TransportReceiver -------------------------
(***************************************************************************)
(* The gateway transport layer receiver (gateway/transport/receiver.rs):   *)
(* it overhears the frames between a controller and its gateways, pairs    *)
(* each command response with the request it answers, and reports what it  *)
(* learned to its sink.                                                    *)
(*                                                                         *)
(* A frame is                                                              *)
(*   [kind, to, gateway, valid, body]                                      *)
(* where to says whether it goes to the gateway or comes from it, valid    *)
(* whether its payload has the size and form of its kind, and body is what *)
(* that payload says.  What is abstracted: commands, responses, packets,   *)
(* addresses and versions are values of sets the receiver never looks      *)
(* into.                                                                   *)
(***************************************************************************)
EXTENDS Naturals, Sequences, Functions

CONSTANTS
  Gateway,    \* GatewayID
  Zero,       \* GatewayID::ZERO
  Sequence,   \* CommandSequenceNumber
  Request,    \* a command request: packet type and data
  LoSize,     \* the low half of a packet number: 256 values in the code
  HiSize      \* the high half: 256 values in the code

ASSUME TransportConstants ==
  /\ Zero \in Gateway
  /\ LoSize \in Nat \ {0}
  /\ HiSize \in Nat \ {0}

PacketNumber == 0..(LoSize * HiSize - 1)

VARIABLES
  rxPacketNumbers,           \* by gateway, of those a request was heard to
  commandSequenceNumbers,    \* by gateway, of those a command was heard to
  commandsAwaitingResponse,  \* requests, by gateway and sequence number
  counters,                  \* by kind of frame and outcome
  calls                      \* the calls of the sink that the last frame led to

transportVars ==
  <<rxPacketNumbers, commandSequenceNumbers, commandsAwaitingResponse, counters, calls>>

(***************************************************************************)
(* The kinds of frames: those that are only counted, those that just tell  *)
(* the sink something about one gateway, and those with handlers below.    *)
(***************************************************************************)
CountedKinds ==
  {"ping_request", "ping_response", "enumeration_start_response",
   "enumeration_request", "assign_gateway_id_request",
   "assign_gateway_id_response", "identify_request", "version_request",
   "enumeration_end_request", "unhandled"}

ReportedKinds ==
  {"identify_response", "enumeration_response", "version_response",
   "enumeration_end_response"}

Kinds == CountedKinds \cup ReportedKinds \cup
  {"receive_request", "receive_response", "command_request",
   "command_response", "enumeration_start_request"}

Counter ==
  (Kinds \X {"accepted", "invalid"}) \cup
  {<<"command_request", "retransmitted">>, <<"command_response", "retransmitted">>,
   <<"receive_response", "unknown_gateway">>,
   <<"packet", "accepted">>, <<"packet", "too_short">>}

TransportInit ==
  /\ rxPacketNumbers = <<>>
  /\ commandSequenceNumbers = <<>>
  /\ commandsAwaitingResponse = <<>>
  /\ counters = [c \in Counter |-> 0]
  /\ calls = <<>>

\* The map m with v for k.
Insert(m, k, v) == [x \in DOMAIN m \cup {k} |-> IF x = k THEN v ELSE m[x]]

Call(op, gateway, what) == [op |-> op, gateway |-> gateway, what |-> what]

(***************************************************************************)
(* What most handlers come down to: count the frame and call the sink.     *)
(***************************************************************************)
CountAs(kind, outcome) ==
  counters' = [counters EXCEPT ![<<kind, outcome>>] = @ + 1]

JustCount(kind, outcome) ==
  /\ CountAs(kind, outcome)
  /\ calls' = <<>>
  /\ UNCHANGED <<rxPacketNumbers, commandSequenceNumbers, commandsAwaitingResponse>>

\* A frame that goes the wrong way, or whose payload is malformed.
Refuse(f) == JustCount(f.kind, "invalid")

OnlyCounted(f) ==
  /\ f.kind \in CountedKinds
  /\ JustCount(f.kind, "accepted")

\* identify_response, enumeration_response, version_response and the end of
\* an enumeration, whose payload does not matter
Report(f) ==
  CASE f.kind = "version_response" -> Call("gateway_version_observed", f.gateway, f.body)
    [] f.kind = "enumeration_end_response" -> Call("enumeration_ended", f.gateway, {})
    [] OTHER -> Call("gateway_identity_observed", f.gateway, f.body)

Reported(f) ==
  LET good == ~f.to /\ (f.valid \/ f.kind = "enumeration_end_response")
  IN  /\ f.kind \in ReportedKinds
      /\ \/ ~good /\ Refuse(f)
         \/ /\ good
            /\ CountAs(f.kind, "accepted")
            /\ calls' = <<Report(f)>>
            /\ UNCHANGED <<rxPacketNumbers, commandSequenceNumbers, commandsAwaitingResponse>>

EnumerationStartRequest(f) ==
  LET good == f.to /\ f.gateway = Zero /\ f.valid /\ f.body.to
  IN  /\ f.kind = "enumeration_start_request"
      /\ \/ ~good /\ Refuse(f)
         \/ /\ good
            /\ CountAs(f.kind, "accepted")
            /\ calls' = <<Call("enumeration_started", f.body.gateway, {})>>
            /\ UNCHANGED <<rxPacketNumbers, commandSequenceNumbers, commandsAwaitingResponse>>

(***************************************************************************)
(* Polling for packets.  A response gives its packet number in full or     *)
(* just the low half, to be completed from the number known so far.  The   *)
(* increment of the high half panics on overflow in a debug build and      *)
(* wraps, as here, in a release build.                                     *)
(***************************************************************************)
\* Mutant: the number of a gateway that is known is not replaced.
ReceiveRequestKeepsFirst(f) ==
  /\ f.kind = "receive_request"
  /\ \/ ~(f.to /\ f.valid) /\ Refuse(f)
     \/ /\ f.to /\ f.valid
        /\ calls' = <<Call("gateway_slot_counter_captured", f.gateway, {})>>
        /\ CountAs(f.kind, "accepted")
        /\ rxPacketNumbers' =
             IF f.gateway \in DOMAIN rxPacketNumbers THEN rxPacketNumbers
               ELSE Insert(rxPacketNumbers, f.gateway, f.body)
        /\ UNCHANGED <<commandSequenceNumbers, commandsAwaitingResponse>>

ReceiveRequest(f) ==
  /\ f.kind = "receive_request"
  /\ \/ ~(f.to /\ f.valid) /\ Refuse(f)
     \/ /\ f.to /\ f.valid
        /\ calls' = <<Call("gateway_slot_counter_captured", f.gateway, {})>>
        /\ CountAs(f.kind, "accepted")
        /\ rxPacketNumbers' = Insert(rxPacketNumbers, f.gateway, f.body)
        /\ UNCHANGED <<commandSequenceNumbers, commandsAwaitingResponse>>

\* interpret_packet_number_lo
InterpretPacketNumberLo(newLo, old) ==
  LET oldHi == old \div LoSize
      newHi == IF newLo >= old % LoSize THEN oldHi ELSE (oldHi + 1) % HiSize
  IN  newHi * LoSize + newLo

ReceivedNumber(f) ==
  IF f.body.short THEN InterpretPacketNumberLo(f.body.number, rxPacketNumbers[f.gateway])
                  ELSE f.body.number

PacketsReceived(f) ==
  [i \in 1..Len(f.body.packets) |-> Call("packet_received", f.gateway, f.body.packets[i])]

\* Mutant: the slot counter is observed after the packets.
ReceivedPacketsFirst(f) ==
  Append(PacketsReceived(f), Call("gateway_slot_counter_observed", f.gateway, f.body.slot))

Received(f) ==
  <<Call("gateway_slot_counter_observed", f.gateway, f.body.slot)>> \o PacketsReceived(f)

\* body.packets are the packets that are whole, body.cut tells whether bytes
\* are left behind them that are not a packet.
ReceiveResponse(f) ==
  LET known == f.gateway \in DOMAIN rxPacketNumbers
  IN  /\ f.kind = "receive_response"
      /\ \/ f.to /\ Refuse(f)
         \/ ~f.to /\ ~known /\ JustCount(f.kind, "unknown_gateway")
         \/ ~f.to /\ known /\ ~f.valid /\ Refuse(f)
         \/ /\ ~f.to /\ known /\ f.valid
            /\ rxPacketNumbers' = Insert(rxPacketNumbers, f.gateway, ReceivedNumber(f))
            /\ calls' = Received(f)
            /\ counters' =
                 [counters EXCEPT ![<<f.kind, "accepted">>] = @ + 1,
                                  ![<<"packet", "accepted">>] = @ + Len(f.body.packets),
                                  ![<<"packet", "too_short">>] = @ + IF f.body.cut THEN 1 ELSE 0]
            /\ UNCHANGED <<commandSequenceNumbers, commandsAwaitingResponse>>

(***************************************************************************)
(* Commands.  A request is remembered until its response is heard: what is *)
(* left to be answered is told by gateway and sequence number.             *)
(***************************************************************************)
IsRetransmission(f) ==
  /\ f.gateway \in DOMAIN commandSequenceNumbers
  /\ commandSequenceNumbers[f.gateway] = f.body.sequence

\* Mutant: a request heard again does not replace the one waiting.
CommandRequestKeepsFirst(f) ==
  /\ f.kind = "command_request"
  /\ \/ ~(f.to /\ f.valid) /\ Refuse(f)
     \/ /\ f.to /\ f.valid
        /\ commandsAwaitingResponse' =
             IF <<f.gateway, f.body.sequence>> \in DOMAIN commandsAwaitingResponse
               THEN commandsAwaitingResponse
               ELSE Insert(commandsAwaitingResponse, <<f.gateway, f.body.sequence>>,
                           f.body.request)
        /\ commandSequenceNumbers' =
             Insert(commandSequenceNumbers, f.gateway, f.body.sequence)
        /\ CountAs(f.kind, IF IsRetransmission(f) THEN "retransmitted" ELSE "accepted")
        /\ calls' = <<>>
        /\ UNCHANGED rxPacketNumbers

CommandRequest(f) ==
  /\ f.kind = "command_request"
  /\ \/ ~(f.to /\ f.valid) /\ Refuse(f)
     \/ /\ f.to /\ f.valid
        /\ commandsAwaitingResponse' =
             Insert(commandsAwaitingResponse, <<f.gateway, f.body.sequence>>, f.body.request)
        /\ commandSequenceNumbers' =
             Insert(commandSequenceNumbers, f.gateway, f.body.sequence)
        /\ CountAs(f.kind, IF IsRetransmission(f) THEN "retransmitted" ELSE "accepted")
        /\ calls' = <<>>
        /\ UNCHANGED rxPacketNumbers

IsAwaited(f) == <<f.gateway, f.body.sequence>> \in DOMAIN commandsAwaitingResponse

\* Mutant: the request is looked up, not removed.
AnsweredForGood(f) == commandsAwaitingResponse

\* Mutant: the request is taken, but not its entry.
AnsweredInPlace(f) ==
  [k \in DOMAIN commandsAwaitingResponse |->
     IF k = <<f.gateway, f.body.sequence>> THEN 0 ELSE commandsAwaitingResponse[k]]

Answered(f) == Restrict(commandsAwaitingResponse,
                        DOMAIN commandsAwaitingResponse \ {<<f.gateway, f.body.sequence>>})

\* Mutant: the response is paired with any request to its gateway.
ExecutionOfAny(f) ==
  Call("command_executed", f.gateway,
       [request |-> commandsAwaitingResponse[CHOOSE k \in DOMAIN commandsAwaitingResponse :
                                               k[1] = f.gateway],
        response |-> f.body.response])

Execution(f) ==
  Call("command_executed", f.gateway,
       [request |-> commandsAwaitingResponse[<<f.gateway, f.body.sequence>>],
        response |-> f.body.response])

CommandResponse(f) ==
  /\ f.kind = "command_response"
  /\ \/ f.to /\ Refuse(f)
     \/ ~f.to /\ ~f.valid /\ Refuse(f)
     \/ ~f.to /\ f.valid /\ ~IsAwaited(f) /\ JustCount(f.kind, "retransmitted")
     \/ /\ ~f.to /\ f.valid /\ IsAwaited(f)
        /\ commandsAwaitingResponse' = Answered(f)
        /\ CountAs(f.kind, "accepted")
        /\ calls' = <<Execution(f)>>
        /\ UNCHANGED <<rxPacketNumbers, commandSequenceNumbers>>

\* link::Sink::frame
Frame(f) ==
  \/ OnlyCounted(f)
  \/ Reported(f)
  \/ EnumerationStartRequest(f)
  \/ ReceiveRequest(f)
  \/ ReceiveResponse(f)
  \/ CommandRequest(f)
  \/ CommandResponse(f)

ResetCounters ==
  /\ counters' = [c \in Counter |-> 0]
  /\ calls' = <<>>
  /\ UNCHANGED <<rxPacketNumbers, commandSequenceNumbers, commandsAwaitingResponse>>
-----------------------------------------------------------------------------
\* The types of the receiver's fields.
TransportTypeOK ==
  /\ \E known \in SUBSET Gateway : rxPacketNumbers \in [known -> PacketNumber]
  /\ \E known \in SUBSET Gateway : commandSequenceNumbers \in [known -> Sequence]
  /\ \E open \in SUBSET (Gateway \X Sequence) :
       commandsAwaitingResponse \in [open -> Request]
  /\ counters \in [Counter -> Nat]
=============================================================================
