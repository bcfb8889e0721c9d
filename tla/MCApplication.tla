---------------------------- MODULE MCApplication ---------------------------
(***************************************************************************)
(* The receivers on one of two lines: of Receivers, with MaxFrames frames  *)
(* of any kind at most, or of PacketPolls, with MaxPolls requests of one   *)
(* gateway for packets, and its responses.                                 *)
(***************************************************************************)
EXTENDS Receivers, PacketPolls

CONSTANTS
  MaxFrames,  \* bound: frames heard
  MaxPolls    \* bound: requests and responses for packets sent

VARIABLES
  polling,  \* which of the two lines it is
  frames    \* how many frames there were

mcVars == <<pollsVars, applicationVars, polling, frames>>

Message(type, valid) == [type |-> type, valid |-> valid, start |-> 0, page |-> {}]

Messages == {Message("node_table", TRUE), Message("node_table", FALSE),
             Message("string", TRUE), Message("network_status", TRUE)}

Packets == [type : DOMAIN ParsedPackets \cup {"other"}, node : {1}, valid : BOOLEAN]
             \cup [type : {"power_report"}, node : {0}, valid : {TRUE}]

MCFrame(kind, bodies) ==
  [kind : {kind}, to : BOOLEAN, gateway : Gateway, valid : BOOLEAN, body : bodies]

ShortStatus ==
  [short : {TRUE}, number : 0..LoSize - 1, slot : {0}, packets : {<<>>}, cut : {FALSE}]

FullStatus ==
  [short : {FALSE}, number : {LoSize * HiSize - 1}, slot : {0},
   packets : {<<p, p>> : p \in Packets}, cut : {TRUE}]

MCFrames ==
  UNION {MCFrame(kind, {{}}) : kind \in CountedKinds \cup ReportedKinds}
    \cup MCFrame("enumeration_start_request", [to : BOOLEAN, gateway : Gateway])
    \cup MCFrame("receive_request", {0, LoSize + 1, LoSize * HiSize - 1})
    \cup MCFrame("receive_response", ShortStatus \cup FullStatus)
    \cup MCFrame("command_request", [sequence : Sequence, request : Messages])
    \cup MCFrame("command_response", [sequence : Sequence, response : Messages])

\* Where any frame can come, no number kept is expected to be the controller's.
MCInit ==
  /\ PollsInit
  /\ ApplicationInit
  /\ polling \in BOOLEAN
  /\ \A g \in Gateway : g = Zero \/ ~polling => packetNumber[g] = 0
  /\ frames = 0

AnyFrame ==
  /\ ~polling
  /\ frames < MaxFrames
  /\ ReceiversNext
  /\ astray' = [g \in Gateway |-> TRUE]
  /\ UNCHANGED <<packetNumber, polled, passed>>

PacketPoll ==
  /\ polling
  /\ frames < MaxPolls
  /\ \E g \in Gateway \ {Zero} : Poll(g) \/ Answer(g)
  /\ UNCHANGED applicationVars

MCNext ==
  /\ AnyFrame \/ PacketPoll
  /\ frames' = frames + 1
  /\ UNCHANGED polling

MCSpec == MCInit /\ [][MCNext]_mcVars
=============================================================================
