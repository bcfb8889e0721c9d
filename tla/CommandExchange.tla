--------------------------- MODULE CommandExchange --------------------------
(***************************************************************************)
(* A controller sending commands to its gateways, with a transport layer   *)
(* receiver listening in.  Frames get lost: between controller and gateway *)
(* (the request is then sent again, and the gateway replays its response,  *)
(* docs/protocol.md:364), and for the receiver, whether or not they reach  *)
(* the one they are meant for.                                             *)
(*                                                                         *)
(* Controller and gateways are external.  A gateway's commands are numbered *)
(* 1, 2, ...; the number stands for the request as well as for the         *)
(* response, and its sequence number is what it leaves modulo Sequences.   *)
(***************************************************************************)
EXTENDS TransportReceiver

CONSTANTS
  Sequences,    \* how many sequence numbers there are: 254 in use
  MaxCommands,  \* bound: commands to a gateway
  MaxLosses     \* bound: frames lost

ASSUME ExchangeConstants ==
  /\ Sequences \in Nat \ {0}
  /\ Sequence = 0..Sequences - 1
  /\ MaxCommands \in Nat
  /\ Request = 1..MaxCommands
  /\ MaxLosses \in Nat

VARIABLES
  command,    \* by gateway, the command the controller sent last (external)
  open,       \* by gateway, whether it still waits for the response (external)
  due,        \* by gateway, whether the gateway is about to respond (external)
  losses,     \* history: frames that somebody missed so far
  heard,      \* history: how often the receiver heard each request
  executed,   \* history: how often it reported each request as executed
  reports     \* history: the pairs of request and response it reported

controllerVars == <<command, open, due>>
historyVars == <<losses, heard, executed, reports>>
exchangeVars == <<transportVars, controllerVars, historyVars>>

SequenceOf(c) == c % Sequences

RequestFrame(g, c) ==
  [kind |-> "command_request", to |-> TRUE, gateway |-> g, valid |-> TRUE,
   body |-> [sequence |-> SequenceOf(c), request |-> c]]

ResponseFrame(g, c) ==
  [kind |-> "command_response", to |-> FALSE, gateway |-> g, valid |-> TRUE,
   body |-> [sequence |-> SequenceOf(c), response |-> c]]

ExchangeInit ==
  /\ TransportInit
  /\ command = [g \in Gateway |-> 0]
  /\ open = [g \in Gateway |-> FALSE]
  /\ due = [g \in Gateway |-> FALSE]
  /\ losses = 0
  /\ heard = [g \in Gateway |-> [c \in Request |-> 0]]
  /\ executed = [g \in Gateway |-> [c \in Request |-> 0]]
  /\ reports = {}

Lose(arrived, overheard) ==
  /\ losses' = losses + (IF arrived THEN 0 ELSE 1) + (IF overheard THEN 0 ELSE 1)
  /\ losses' <= MaxLosses

(***************************************************************************)
(* A request goes out, for the first time or again, and may arrive and be  *)
(* overheard.                                                              *)
(***************************************************************************)
SendRequest(g, c) ==
  \E arrived, overheard \in BOOLEAN :
    /\ Lose(arrived, overheard)
    /\ due' = [due EXCEPT ![g] = arrived]
    /\ IF overheard
         THEN /\ CommandRequest(RequestFrame(g, c))
              /\ heard' = [heard EXCEPT ![g][c] = @ + 1]
         ELSE UNCHANGED <<transportVars, heard>>
    /\ UNCHANGED <<executed, reports>>

IssueCommand(g) ==
  /\ ~open[g]
  /\ command[g] < MaxCommands
  /\ command' = [command EXCEPT ![g] = @ + 1]
  /\ open' = [open EXCEPT ![g] = TRUE]
  /\ SendRequest(g, command[g] + 1)

RetryCommand(g) ==
  /\ open[g]
  /\ ~due[g]
  /\ SendRequest(g, command[g])
  /\ UNCHANGED <<command, open>>

Respond(g) ==
  \E arrived, overheard \in BOOLEAN :
    /\ due[g]
    /\ Lose(arrived, overheard)
    /\ due' = [due EXCEPT ![g] = FALSE]
    /\ open' = [open EXCEPT ![g] = ~arrived]
    /\ IF overheard
         THEN LET f == ResponseFrame(g, command[g])
                  call == Execution(f).what
              IN  /\ CommandResponse(f)
                  /\ IF IsAwaited(f)
                       THEN /\ executed' = [executed EXCEPT ![g][call.request] = @ + 1]
                            /\ reports' = reports \cup {<<g, call.request, call.response>>}
                       ELSE UNCHANGED <<executed, reports>>
         ELSE UNCHANGED <<transportVars, executed, reports>>
    /\ UNCHANGED <<command, heard>>

ExchangeNext == \E g \in Gateway : IssueCommand(g) \/ RetryCommand(g) \/ Respond(g)

ExchangeSpec == ExchangeInit /\ [][ExchangeNext]_exchangeVars
-----------------------------------------------------------------------------
\* The types of the state; the receiver's are TransportTypeOK.
ExchangeTypeOK ==
  /\ TransportTypeOK
  /\ command \in [Gateway -> 0..MaxCommands]
  /\ open \in [Gateway -> BOOLEAN]
  /\ due \in [Gateway -> BOOLEAN]
  /\ losses \in Nat
  /\ heard \in [Gateway -> [Request -> Nat]]
  /\ executed \in [Gateway -> [Request -> Nat]]
  /\ reports \subseteq Gateway \X Request \X Request

\* Request c of gateway g waits for its response.
Waits(g, c) ==
  \E s \in Sequence :
    /\ <<g, s>> \in DOMAIN commandsAwaitingResponse
    /\ commandsAwaitingResponse[<<g, s>>] = c

(***************************************************************************)
(* However requests and responses are lost and repeated, a request is      *)
(* reported as executed no more often than it was heard (receiver.rs:296   *)
(* takes it out of commands_awaiting_response), and once less while it     *)
(* still waits.                                                            *)
(***************************************************************************)
ExecutionsWereRequested ==
  \A g \in Gateway, c \in Request :
    executed[g][c] + (IF Waits(g, c) THEN 1 ELSE 0) <= heard[g][c]

(***************************************************************************)
(* A response is reported with the request it answers if that request was  *)
(* heard at all.  If it was not, what it is reported with may be an older  *)
(* request that has the same sequence number.                              *)
(***************************************************************************)
ReportsArePaired ==
  \A r \in reports :
    LET g == r[1]
        request == r[2]
        response == r[3]
    IN  /\ request <= response
        /\ SequenceOf(request) = SequenceOf(response)

HeardIsPaired ==
  [][\A r \in reports' \ reports : heard[r[1]][r[3]] > 0 => r[2] = r[3]]_exchangeVars
=============================================================================
