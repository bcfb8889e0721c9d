----------------------------- MODULE PacketPolls ----------------------------
(***************************************************************************)
(* A controller polling its gateways for the packets they received, with a *)
(* transport layer receiver listening in that misses any of the frames     *)
(* (external, docs/protocol.md:228).  A response repeats the number of the *)
(* request, often only its low half; the controller's number goes on by    *)
(* the packets of a response that arrives, and is asked for again if none  *)
(* does.                                                                   *)
(***************************************************************************)
EXTENDS TransportReceiver

CONSTANT MaxPackets   \* packets in a response at most

ASSUME PollConstants == MaxPackets \in Nat

VARIABLES
  packetNumber,  \* by gateway, the number the controller asks with (external)
  polled,        \* by gateway, whether it is about to respond (external)
  passed,        \* history: by gateway, the packets that arrived since the
                 \* number of the frame that was heard last
  astray         \* history: by gateway, whether a low half was heard more than
                 \* its circle behind, and no whole number since

pollsVars == <<transportVars, packetNumber, polled, passed, astray>>

PollsInit ==
  /\ TransportInit
  /\ packetNumber \in [Gateway -> PacketNumber]
  /\ polled = [g \in Gateway |-> FALSE]
  /\ passed = [g \in Gateway |-> 0]
  /\ astray = [g \in Gateway |-> FALSE]

PollFrame(g) ==
  [kind |-> "receive_request", to |-> TRUE, gateway |-> g, valid |-> TRUE,
   body |-> packetNumber[g]]

AnswerFrame(g, short, packets) ==
  [kind |-> "receive_response", to |-> FALSE, gateway |-> g, valid |-> TRUE,
   body |-> [short |-> short,
             number |-> IF short THEN packetNumber[g] % LoSize ELSE packetNumber[g],
             slot |-> 0, packets |-> [i \in 1..packets |-> "packet"], cut |-> FALSE]]

Poll(g) ==
  \E arrived, overheard \in BOOLEAN :
    /\ polled' = [polled EXCEPT ![g] = arrived]
    /\ IF overheard
         THEN /\ ReceiveRequest(PollFrame(g))
              /\ passed' = [passed EXCEPT ![g] = 0]
              /\ astray' = [astray EXCEPT ![g] = FALSE]
         ELSE UNCHANGED <<transportVars, passed, astray>>
    /\ UNCHANGED packetNumber

Answer(g) ==
  \E arrived, overheard, short \in BOOLEAN, packets \in 0..MaxPackets :
    LET gone == IF arrived THEN packets ELSE 0
    IN  /\ polled[g]
        /\ polled' = [polled EXCEPT ![g] = FALSE]
        /\ packetNumber' = [packetNumber EXCEPT ![g] = (@ + gone) % (LoSize * HiSize)]
        /\ IF overheard
             THEN /\ ReceiveResponse(AnswerFrame(g, short, packets))
                  /\ passed' = [passed EXCEPT ![g] = gone]
                  /\ astray' = [astray EXCEPT ![g] = short /\ (@ \/ passed[g] >= LoSize)]
             ELSE /\ passed' = [passed EXCEPT ![g] = @ + gone]
                  /\ UNCHANGED <<transportVars, astray>>

PollsNext == \E g \in Gateway : Poll(g) \/ Answer(g)

PollsSpec == PollsInit /\ [][PollsNext]_pollsVars
-----------------------------------------------------------------------------
(***************************************************************************)
(* The number kept of a gateway (receiver.rs:192, 218), with the packets   *)
(* that arrived since, is the number the controller asks with: a response  *)
(* that is interpreted with the number of an earlier request, the frames   *)
(* between having been missed, is interpreted rightly.  Unless a whole     *)
(* circle of low halves went by between two frames that were heard: then   *)
(* the high half is behind, until a frame has the whole number again.      *)
(***************************************************************************)
NumbersAreKept ==
  \A g \in DOMAIN rxPacketNumbers :
    ~astray[g] => (rxPacketNumbers[g] + passed[g]) % (LoSize * HiSize) = packetNumber[g]
=============================================================================
