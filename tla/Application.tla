----------------------------- MODULE Application ----------------------------
(***************************************************************************)
(* The PV application layer receiver (pv/application/receiver.rs): the     *)
(* sink of the transport receiver.  It forwards every call to its own sink *)
(* and adds what it reads out of packets and of executed commands.         *)
(*                                                                         *)
(* Requests and responses are                                              *)
(*   [type, valid, start, page]                                            *)
(* where type is the command they belong to (node_table standing for       *)
(* NODE_TABLE_REQUEST and NODE_TABLE_RESPONSE, string for STRING_REQUEST   *)
(* and STRING_RESPONSE), valid says whether the bytes have the form it     *)
(* asks for, start is the address a node table request asks for, and page *)
(* what a node table response holds.  A packet is [type, node, valid],     *)
(* with node 0 for an address that is no node id.                          *)
(***************************************************************************)
EXTENDS TransportReceiver, SequencesExt

VARIABLES
  appCounters,  \* Counters
  appCalls      \* the calls of the sink that the last frame led to

applicationVars == <<appCounters, appCalls>>

\* The packets that are parsed, with the counters of those that can be read
\* and of those that cannot.  The call is named for the type.
ParsedPackets ==
  [string_response |-> [good |-> "string_responses", bad |-> "invalid_string_responses"],
   topology_report |-> [good |-> "topology_reports", bad |-> "invalid_topology_reports"],
   power_report    |-> [good |-> "power_reports",    bad |-> "invalid_power_reports"]]

AppCounter ==
  {ParsedPackets[type].good : type \in DOMAIN ParsedPackets}
    \cup {ParsedPackets[type].bad : type \in DOMAIN ParsedPackets}
    \cup {"invalid_received_packet_node_ids", "invalid_node_table_requests",
          "invalid_node_table_responses", "invalid_string_commands", "string_commands"}

ApplicationInit ==
  /\ appCounters = [name \in AppCounter |-> 0]
  /\ appCalls = <<>>

\* What a call leads to besides being forwarded: a counter, or none, and calls.
Outcome(counter, further) == [counter |-> counter, calls |-> further]
Nothing == Outcome("none", <<>>)

PacketReceived(gateway, packet) ==
  CASE packet.node = 0 -> Outcome("invalid_received_packet_node_ids", <<>>)
    [] packet.node # 0 /\ packet.type \notin DOMAIN ParsedPackets -> Nothing
    [] OTHER ->
         IF packet.valid
           THEN Outcome(ParsedPackets[packet.type].good, <<Call(packet.type, gateway, packet.node)>>)
           ELSE Outcome(ParsedPackets[packet.type].bad, <<>>)

\* The start address in the response is not looked at.
NodeTableCommand(gateway, request, response) ==
  CASE ~request.valid -> Outcome("invalid_node_table_requests", <<>>)
    [] request.valid /\ ~response.valid -> Outcome("invalid_node_table_responses", <<>>)
    [] OTHER ->
         Outcome("none",
                 <<Call("node_table_page", gateway, [start |-> request.start, page |-> response.page])>>)

StringCommand(gateway, request, response) ==
  IF request.valid /\ response.valid
    THEN Outcome("string_commands", <<Call("string_request", gateway, {})>>)
    ELSE Outcome("invalid_string_commands", <<>>)

\* Mutant: the response's type is not compared.
IsCommandByRequest(executed, type) == executed.request.type = type

IsCommand(executed, type) ==
  executed.request.type = type /\ executed.response.type = type

CommandExecuted(gateway, executed) ==
  CASE IsCommand(executed, "node_table") ->
         NodeTableCommand(gateway, executed.request, executed.response)
    [] IsCommand(executed, "string") ->
         StringCommand(gateway, executed.request, executed.response)
    [] OTHER -> Nothing

OutcomeOf(call) ==
  CASE call.op = "packet_received"  -> PacketReceived(call.gateway, call.what)
    [] call.op = "command_executed" -> CommandExecuted(call.gateway, call.what)
    [] OTHER -> Nothing

Forwarded(call) == <<call>> \o OutcomeOf(call).calls

(***************************************************************************)
(* The calls of one frame.                                                 *)
(***************************************************************************)
Application(received) ==
  /\ appCalls' = FlattenSeq([i \in 1..Len(received) |-> Forwarded(received[i])])
  /\ appCounters' =
       [name \in AppCounter |->
          appCounters[name] + Cardinality({i \in 1..Len(received) :
                                             OutcomeOf(received[i]).counter = name})]

\* A frame on its way through both receivers.
Overhear(f) == Frame(f) /\ Application(calls')
=============================================================================
