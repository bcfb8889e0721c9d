------------------------------ MODULE Pipeline ------------------------------
(***************************************************************************)
(* From the frames of a node table read to the published table: a          *)
(* controller sends commands to its gateways, one of which it asks for its *)
(* node table, and the receivers of the transport and the application      *)
(* layer and the node table builder listen in.  Frames get lost as in      *)
(* CommandExchange.  What the builder is handed depends on how the         *)
(* transport receiver pairs responses with requests.                       *)
(*                                                                         *)
(* Controller and gateways are external.                                   *)
(***************************************************************************)
EXTENDS Application, NodeTable

CONSTANTS
  Reading,      \* the gateway whose node table is read
  NoTable,      \* gateway_node_tables has no entry for it yet
  PageSize,     \* entries in a page at most
  Sequences,    \* how many sequence numbers there are: 254 in use
  MaxCommands,  \* bound: commands to a gateway
  MaxLosses     \* bound: frames that somebody misses

ASSUME PipelineConstants ==
  /\ Reading \in Gateway
  /\ PageSize \in Nat \ {0}
  /\ NoTable \notin Tables
  /\ Sequences \in Nat \ {0}
  /\ Sequence = 0..Sequences - 1
  /\ Request = [type : {"node_table", "string"}, valid : {TRUE}, start : 0..MaxNode]

VARIABLES
  gatewayTable,  \* the node table of the gateway (external)
  cursor,        \* where the controller's next page starts (external)
  builder,       \* the gateway's NodeTableBuilder
  published,     \* the gateway's entry in gateway_node_tables
  command,       \* by gateway, the command sent last: number, request (external)
  open,          \* by gateway, whether it still waits for the response (external)
  due,           \* by gateway, whether the gateway is about to respond (external)
  requestHeard,  \* history: by gateway, whether the receiver heard that command
  trusted,       \* history: no response was heard just now, or its request was
  losses         \* history: frames that somebody missed so far

tableVars == <<gatewayTable, cursor, builder, published>>
controllerVars == <<command, open, due>>
pipelineVars == <<transportVars, applicationVars, tableVars, controllerVars,
                  requestHeard, trusted, losses>>

RequestOf(type, start) == [type |-> type, valid |-> TRUE, start |-> start]

PipelineInit ==
  /\ TransportInit
  /\ ApplicationInit
  /\ gatewayTable \in Tables
  /\ cursor = 0
  /\ builder = NewBuilder
  /\ published = NoTable
  /\ command = [g \in Gateway |-> [number |-> 0, request |-> RequestOf("string", 0)]]
  /\ open = [g \in Gateway |-> FALSE]
  /\ due = [g \in Gateway |-> FALSE]
  /\ requestHeard = [g \in Gateway |-> FALSE]
  /\ trusted = TRUE
  /\ losses = 0

NodesFrom(start) == {n \in DOMAIN gatewayTable : n >= start}

\* A gateway answers with its first entries from the start address on.
PageNodes(start) ==
  {n \in NodesFrom(start) : Cardinality({m \in NodesFrom(start) : m < n}) < PageSize}

Response(request) ==
  LET nodes == IF request.type = "node_table" THEN PageNodes(request.start) ELSE {}
  IN  [type |-> request.type, valid |-> TRUE,
       page |-> [entries |-> [n \in nodes |-> gatewayTable[n]], bad |-> FALSE]]

RequestFrame(g, c) ==
  [kind |-> "command_request", to |-> TRUE, gateway |-> g, valid |-> TRUE,
   body |-> [sequence |-> c.number % Sequences, request |-> c.request]]

ResponseFrame(g, c) ==
  [kind |-> "command_response", to |-> FALSE, gateway |-> g, valid |-> TRUE,
   body |-> [sequence |-> c.number % Sequences, response |-> Response(c.request)]]

\* Observer::node_table_page, for the calls that the last frame led to.
NodeTablePages ==
  LET handed == {i \in 1..Len(appCalls') :
                   appCalls'[i].op = "node_table_page" /\ appCalls'[i].gateway = Reading}
  IN  IF handed = {}
        THEN UNCHANGED <<builder, published>>
        ELSE LET call == appCalls'[CHOOSE i \in handed : TRUE].what
             IN  /\ builder' = AfterPush(builder, call.start, call.page)
                 /\ published' = IF Publishes(builder, call.start, call.page)
                                   THEN Collected(builder, call.start) ELSE published

Lose(arrived, overheard) ==
  /\ losses' = losses + (IF arrived THEN 0 ELSE 1) + (IF overheard THEN 0 ELSE 1)
  /\ losses' <= MaxLosses

SendRequest(g, c) ==
  \E arrived, overheard \in BOOLEAN :
    /\ Lose(arrived, overheard)
    /\ due' = [due EXCEPT ![g] = arrived]
    /\ IF overheard THEN Overhear(RequestFrame(g, c)) /\ NodeTablePages
                    ELSE UNCHANGED <<transportVars, applicationVars, builder, published>>
    /\ requestHeard' = [requestHeard EXCEPT ![g] = overheard \/ (@ /\ open[g])]
    /\ trusted' = TRUE
    /\ UNCHANGED <<gatewayTable, cursor>>

Issue(g, request) ==
  /\ ~open[g]
  /\ command[g].number < MaxCommands
  /\ command' = [command EXCEPT ![g] = [number |-> @.number + 1, request |-> request]]
  /\ open' = [open EXCEPT ![g] = TRUE]
  /\ SendRequest(g, command'[g])

\* The controller reads on where the page before left off.
AskForPage == Issue(Reading, RequestOf("node_table", cursor))

SendString(g) == Issue(g, RequestOf("string", 0))

Retry(g) ==
  /\ open[g]
  /\ ~due[g]
  /\ SendRequest(g, command[g])
  /\ UNCHANGED <<command, open>>

\* The controller goes on behind the last entry, or starts a new read.
Advance(g) ==
  LET nodes == PageNodes(cursor)
  IN  IF g = Reading /\ command[g].request.type = "node_table"
        THEN cursor' = IF nodes = {} THEN 0 ELSE Successor(Max(nodes))
        ELSE UNCHANGED cursor

Respond(g) ==
  \E arrived, overheard \in BOOLEAN :
    /\ due[g]
    /\ Lose(arrived, overheard)
    /\ due' = [due EXCEPT ![g] = FALSE]
    /\ open' = [open EXCEPT ![g] = ~arrived]
    /\ IF arrived THEN Advance(g) ELSE UNCHANGED cursor
    /\ IF overheard THEN Overhear(ResponseFrame(g, command[g])) /\ NodeTablePages
                    ELSE UNCHANGED <<transportVars, applicationVars, builder, published>>
    /\ trusted' = (overheard => requestHeard[g])
    /\ UNCHANGED <<gatewayTable, command, requestHeard>>

RestartRead ==
  /\ ~open[Reading]
  /\ cursor' = 0
  /\ UNCHANGED <<transportVars, applicationVars, gatewayTable, builder, published,
                 controllerVars, requestHeard, trusted, losses>>

PipelineNext ==
  \/ AskForPage
  \/ \E g \in Gateway : SendString(g) \/ Retry(g) \/ Respond(g)
  \/ RestartRead

PipelineSpec == PipelineInit /\ [][PipelineNext]_pipelineVars
-----------------------------------------------------------------------------
(***************************************************************************)
(* What the builder is handed are pages of one read, missed, repeated or   *)
(* read again from the start: the two receivers do to the builder just     *)
(* what NodeTableReader says can happen to it.  Except when a response is  *)
(* heard whose request was not: it can be paired with an older request of  *)
(* the same sequence number, and then its page is taken for another one    *)
(* (receiver.rs:92 of the application does not compare the response's own  *)
(* start address).                                                         *)
(***************************************************************************)
Reader == INSTANCE NodeTableReader WITH spoilt <- FALSE, BadPages <- FALSE

ReaderIsImplemented ==
  /\ Reader!ReaderInit
  /\ [][trusted' => Reader!ReaderNext \/ UNCHANGED tableVars]_pipelineVars

(***************************************************************************)
(* Whatever is paired with what, a table is published only when the        *)
(* gateway has no more nodes to tell of.                                   *)
(***************************************************************************)
PublishedAtTheEnd ==
  [][published' # published => NodesFrom(cursor) = {}]_pipelineVars

(***************************************************************************)
(* The inductive invariant behind the theorems: the page that is due is    *)
(* the one the controller waits for, and a request that was heard and is   *)
(* still to be answered is the one its response will be paired with.       *)
(***************************************************************************)
PipelineTypes ==
  /\ gatewayTable \in Tables
  /\ cursor \in 0..MaxNode
  /\ command \in [Gateway -> [number : Nat, request : Request]]
  /\ open \in [Gateway -> BOOLEAN]
  /\ due \in [Gateway -> BOOLEAN]
  /\ requestHeard \in [Gateway -> BOOLEAN]
  /\ \A key \in DOMAIN commandsAwaitingResponse : commandsAwaitingResponse[key] \in Request

DueIsAwaited == \A g \in Gateway : due[g] => open[g]

AsksAtCursor ==
  LET request == command[Reading].request
  IN  open[Reading] /\ request.type = "node_table" => request.start = cursor

KeyOf(g, c) == <<g, c.number % Sequences>>

HeardWaits ==
  \A g \in Gateway :
    LET key == KeyOf(g, command[g])
    IN  requestHeard[g] /\ key \in DOMAIN commandsAwaitingResponse
          => commandsAwaitingResponse[key] = command[g].request

PipelineInv == PipelineTypes /\ DueIsAwaited /\ AsksAtCursor /\ HeardWaits
=============================================================================
