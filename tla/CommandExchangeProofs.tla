----------------------- MODULE CommandExchangeProofs ------------------------
(***************************************************************************)
(* How commands are paired and how often they are reported, for every set  *)
(* of gateways, every number of sequence numbers and commands, and however *)
(* many frames are lost.                                                   *)
(***************************************************************************)
EXTENDS CommandExchange, TLAPS

(***************************************************************************)
(* The inductive invariant: a request waits at the place its sequence      *)
(* number gives it, nothing was heard of commands still to come, and the   *)
(* newest command, once heard, is the one that waits at its place.         *)
(***************************************************************************)
WaitsInPlace ==
  \A g \in Gateway, s \in Sequence :
    <<g, s>> \in DOMAIN commandsAwaitingResponse =>
      /\ commandsAwaitingResponse[<<g, s>>] <= command[g]
      /\ SequenceOf(commandsAwaitingResponse[<<g, s>>]) = s

NothingFromTheFuture ==
  \A g \in Gateway, c \in Request : c > command[g] => heard[g][c] = 0

NewestWaits ==
  \A g \in Gateway :
    LET key == <<g, SequenceOf(command[g])>>
    IN  (command[g] \in Request /\ heard[g][command[g]] > 0
           /\ key \in DOMAIN commandsAwaitingResponse)
          => commandsAwaitingResponse[key] = command[g]

CommandPending == \A g \in Gateway : open[g] \/ due[g] => command[g] \in Request

DueIsOpen == \A g \in Gateway : due[g] => open[g]

ExchangeInv ==
  /\ ExchangeTypeOK
  /\ WaitsInPlace
  /\ NothingFromTheFuture
  /\ NewestWaits
  /\ CommandPending
  /\ DueIsOpen
  /\ ExecutionsWereRequested
  /\ ReportsArePaired
-----------------------------------------------------------------------------
(***************************************************************************)
(* Sequence numbers are sequence numbers.                                  *)
(***************************************************************************)
LEMMA SequenceInRange ==
  ASSUME NEW c \in Nat
  PROVE  SequenceOf(c) \in Sequence
BY ExchangeConstants DEF SequenceOf

(***************************************************************************)
(* Counting keeps the counters counters.                                   *)
(***************************************************************************)
LEMMA CountingOnce ==
  ASSUME NEW m \in [Counter -> Nat], NEW c
  PROVE  [m EXCEPT ![c] = @ + 1] \in [Counter -> Nat]
<1>1. CASE c \in Counter
  <2>1. m[c] + 1 \in Nat
    BY <1>1
  <2> QED
    BY <2>1
<1>2. CASE c \notin Counter
  BY <1>2
<1> QED
  BY <1>1, <1>2

(***************************************************************************)
(* What hearing a request does to the receiver (receiver.rs:236).          *)
(***************************************************************************)
LEMMA RequestHeard ==
  ASSUME TransportTypeOK, NEW g \in Gateway, NEW c \in Request,
         NEW key, key = <<g, SequenceOf(c)>>,
         CommandRequest(RequestFrame(g, c))
  PROVE  /\ TransportTypeOK'
         /\ DOMAIN commandsAwaitingResponse'
              = DOMAIN commandsAwaitingResponse \cup {key}
         /\ commandsAwaitingResponse'[key] = c
         /\ \A k \in DOMAIN commandsAwaitingResponse :
              k # key => commandsAwaitingResponse'[k] = commandsAwaitingResponse[k]
<1> DEFINE f == RequestFrame(g, c)
<1>1. /\ f.kind = "command_request" /\ f.to /\ f.valid /\ f.gateway = g
      /\ f.body.sequence = SequenceOf(c) /\ f.body.request = c
  BY DEF RequestFrame
<1>2. /\ commandsAwaitingResponse' = Insert(commandsAwaitingResponse, key, c)
      /\ commandSequenceNumbers' = Insert(commandSequenceNumbers, g, SequenceOf(c))
      /\ \E outcome : CountAs("command_request", outcome)
      /\ rxPacketNumbers' = rxPacketNumbers
  BY <1>1 DEF CommandRequest
<1>3. SequenceOf(c) \in Sequence
  BY SequenceInRange, ExchangeConstants
<1>4. counters' \in [Counter -> Nat]
  BY <1>2, CountingOnce DEF CountAs, TransportTypeOK
<1>5. \E known \in SUBSET Gateway : commandSequenceNumbers' \in [known -> Sequence]
  <2>1. PICK known \in SUBSET Gateway : commandSequenceNumbers \in [known -> Sequence]
    BY DEF TransportTypeOK
  <2>2. commandSequenceNumbers' \in [known \cup {g} -> Sequence]
    BY <1>2, <1>3, <2>1 DEF Insert
  <2> QED
    BY <2>2
<1>6. \E awaited \in SUBSET (Gateway \X Sequence) :
        commandsAwaitingResponse' \in [awaited -> Request]
  <2>1. PICK awaited \in SUBSET (Gateway \X Sequence) :
               commandsAwaitingResponse \in [awaited -> Request]
    BY DEF TransportTypeOK
  <2>2. commandsAwaitingResponse' \in [awaited \cup {key} -> Request]
    BY <1>2, <2>1 DEF Insert
  <2> QED
    BY <1>3, <2>2
<1>7. TransportTypeOK'
  BY <1>2, <1>4, <1>5, <1>6 DEF TransportTypeOK
<1>8. /\ DOMAIN commandsAwaitingResponse' = DOMAIN commandsAwaitingResponse \cup {key}
      /\ commandsAwaitingResponse'[key] = c
      /\ \A k \in DOMAIN commandsAwaitingResponse :
           k # key => commandsAwaitingResponse'[k] = commandsAwaitingResponse[k]
  BY <1>2 DEF Insert
<1> QED
  BY <1>7, <1>8

(***************************************************************************)
(* What hearing a response does to the receiver (receiver.rs:279).         *)
(***************************************************************************)
LEMMA ResponseHeard ==
  ASSUME TransportTypeOK, NEW g \in Gateway, NEW c \in Nat,
         NEW key, key = <<g, SequenceOf(c)>>,
         CommandResponse(ResponseFrame(g, c))
  PROVE  /\ TransportTypeOK'
         /\ IsAwaited(ResponseFrame(g, c)) <=> key \in DOMAIN commandsAwaitingResponse
         /\ DOMAIN commandsAwaitingResponse' = DOMAIN commandsAwaitingResponse \ {key}
         /\ \A k \in DOMAIN commandsAwaitingResponse' :
              commandsAwaitingResponse'[k] = commandsAwaitingResponse[k]
<1> DEFINE f == ResponseFrame(g, c)
<1>1. /\ f.kind = "command_response" /\ ~f.to /\ f.valid /\ f.gateway = g
      /\ f.body.sequence = SequenceOf(c)
  BY DEF ResponseFrame
<1>2. IsAwaited(f) <=> key \in DOMAIN commandsAwaitingResponse
  BY <1>1 DEF IsAwaited
<1>3. /\ commandSequenceNumbers' = commandSequenceNumbers
      /\ rxPacketNumbers' = rxPacketNumbers
      /\ \E outcome : CountAs("command_response", outcome)
  BY <1>1 DEF CommandResponse, JustCount
<1>4. counters' \in [Counter -> Nat]
  BY <1>3, CountingOnce DEF CountAs, TransportTypeOK
<1>5. /\ DOMAIN commandsAwaitingResponse' = DOMAIN commandsAwaitingResponse \ {key}
      /\ \A k \in DOMAIN commandsAwaitingResponse' :
           commandsAwaitingResponse'[k] = commandsAwaitingResponse[k]
  BY <1>1, <1>2 DEF CommandResponse, JustCount, Answered, Restrict
<1>6. \E awaited \in SUBSET (Gateway \X Sequence) :
        commandsAwaitingResponse' \in [awaited -> Request]
  <2>1. PICK awaited \in SUBSET (Gateway \X Sequence) :
               commandsAwaitingResponse \in [awaited -> Request]
    BY DEF TransportTypeOK
  <2>2. \/ commandsAwaitingResponse' = commandsAwaitingResponse
        \/ commandsAwaitingResponse' \in [awaited \ {key} -> Request]
    BY <1>1, <2>1 DEF CommandResponse, JustCount, Answered, Restrict
  <2> QED
    BY <2>1, <2>2
<1> QED
  <2>1. TransportTypeOK'
    BY <1>3, <1>4, <1>6 DEF TransportTypeOK
  <2> QED
    BY <1>2, <1>5, <2>1

(***************************************************************************)
(* A request that goes out keeps the invariant, be it the first time or    *)
(* again, arriving or not, overheard or not.                               *)
(***************************************************************************)
LEMMA SendKeepsInv ==
  ASSUME ExchangeInv, NEW g \in Gateway, NEW c \in Request,
         SendRequest(g, c),
         c \in {command[g], command[g] + 1},
         command' = [command EXCEPT ![g] = c],
         open' = [open EXCEPT ![g] = TRUE]
  PROVE  ExchangeInv'
<1> USE DEF ExchangeInv
<1>1. PICK arrived \in BOOLEAN, overheard \in BOOLEAN :
        /\ Lose(arrived, overheard)
        /\ due' = [due EXCEPT ![g] = arrived]
        /\ IF overheard
             THEN /\ CommandRequest(RequestFrame(g, c))
                  /\ heard' = [heard EXCEPT ![g][c] = @ + 1]
             ELSE UNCHANGED <<transportVars, heard>>
        /\ UNCHANGED <<executed, reports>>
  BY DEF SendRequest
<1>2. DEFINE key == <<g, SequenceOf(c)>>
<1>3. /\ Request \subseteq 0..MaxCommands /\ Request \subseteq Nat
      /\ command \in [Gateway -> Nat]
  BY ExchangeConstants DEF ExchangeTypeOK
<1>4. \/ /\ TransportTypeOK'
         /\ DOMAIN commandsAwaitingResponse' = DOMAIN commandsAwaitingResponse \cup {key}
         /\ commandsAwaitingResponse'[key] = c
         /\ \A k \in DOMAIN commandsAwaitingResponse :
              k # key => commandsAwaitingResponse'[k] = commandsAwaitingResponse[k]
         /\ heard' = [heard EXCEPT ![g][c] = @ + 1]
      \/ /\ TransportTypeOK'
         /\ commandsAwaitingResponse' = commandsAwaitingResponse
         /\ heard' = heard
  <2>1. CASE overheard
    <3>1. CommandRequest(RequestFrame(g, c)) /\ heard' = [heard EXCEPT ![g][c] = @ + 1]
      BY <1>1, <2>1
    <3>2. TransportTypeOK /\ key = <<g, SequenceOf(c)>>
      BY DEF ExchangeTypeOK
    <3> HIDE DEF key, ExchangeInv
    <3>3. /\ TransportTypeOK'
          /\ DOMAIN commandsAwaitingResponse' = DOMAIN commandsAwaitingResponse \cup {key}
          /\ commandsAwaitingResponse'[key] = c
          /\ \A k \in DOMAIN commandsAwaitingResponse :
               k # key => commandsAwaitingResponse'[k] = commandsAwaitingResponse[k]
      BY <3>1, <3>2, RequestHeard
    <3> QED
      BY <3>1, <3>3
  <2>2. CASE ~overheard
    BY <1>1, <2>2 DEF ExchangeTypeOK, TransportTypeOK, transportVars
  <2> QED
    BY <2>1, <2>2
<1>5. SequenceOf(c) \in Sequence
  BY <1>3, SequenceInRange
<1>6. ExchangeTypeOK'
  <2>1. command' \in [Gateway -> 0..MaxCommands] /\ open' \in [Gateway -> BOOLEAN]
    BY <1>3 DEF ExchangeTypeOK
  <2>2. due' \in [Gateway -> BOOLEAN]
    BY <1>1 DEF ExchangeTypeOK
  <2>3. losses' \in Nat
    BY <1>1 DEF Lose, ExchangeTypeOK
  <2>4. heard' \in [Gateway -> [Request -> Nat]]
    <3>1. heard[g] \in [Request -> Nat] /\ heard[g][c] + 1 \in Nat
      BY DEF ExchangeTypeOK
    <3>2. [heard[g] EXCEPT ![c] = @ + 1] \in [Request -> Nat]
      BY <3>1
    <3>3. heard \in [Gateway -> [Request -> Nat]]
      BY DEF ExchangeTypeOK
    <3>4. [heard EXCEPT ![g][c] = @ + 1] \in [Gateway -> [Request -> Nat]]
      BY <3>2, <3>3
    <3> QED
      BY <1>4, <3>3, <3>4
  <2> QED
    BY <1>1, <1>4, <2>1, <2>2, <2>3, <2>4 DEF ExchangeTypeOK
<1>7. \A h \in Gateway : command[h] <= command'[h] /\ (h # g => command'[h] = command[h])
  BY <1>3
<1>8. command'[g] = c
  BY <1>3
<1>9. \A h \in Gateway, d \in Request :
        heard'[h][d] = heard[h][d] \/ (h = g /\ d = c /\ heard'[h][d] = heard[h][d] + 1)
  BY <1>4 DEF ExchangeTypeOK
<1>10. WaitsInPlace'
  <2> SUFFICES ASSUME NEW h \in Gateway, NEW s \in Sequence,
                      <<h, s>> \in DOMAIN commandsAwaitingResponse'
               PROVE  /\ commandsAwaitingResponse'[<<h, s>>] <= command'[h]
                      /\ SequenceOf(commandsAwaitingResponse'[<<h, s>>]) = s
    BY DEF WaitsInPlace
  <2>1. CASE commandsAwaitingResponse'[<<h, s>>] = c /\ <<h, s>> = key
    <3>1. h = g /\ s = SequenceOf(c)
      BY <2>1
    <3> QED
      BY <1>3, <1>8, <2>1, <3>1
  <2>2. CASE /\ <<h, s>> \in DOMAIN commandsAwaitingResponse
             /\ commandsAwaitingResponse'[<<h, s>>] = commandsAwaitingResponse[<<h, s>>]
    <3>1. /\ commandsAwaitingResponse[<<h, s>>] <= command[h]
          /\ SequenceOf(commandsAwaitingResponse[<<h, s>>]) = s
      BY <2>2 DEF WaitsInPlace
    <3>2. commandsAwaitingResponse[<<h, s>>] \in Nat
      BY <1>3, <2>2 DEF ExchangeTypeOK, TransportTypeOK
    <3>3. command[h] <= command'[h] /\ command[h] \in Nat /\ command'[h] \in Nat
      BY <1>3, <1>7
    <3> QED
      BY <2>2, <3>1, <3>2, <3>3
  <2> QED
    BY <1>4, <2>1, <2>2
<1>11. NothingFromTheFuture'
  BY <1>3, <1>6, <1>7, <1>8, <1>9 DEF NothingFromTheFuture, ExchangeTypeOK
<1>12. NewestWaits'
  <2> SUFFICES ASSUME NEW h \in Gateway, command'[h] \in Request,
                      heard'[h][command'[h]] > 0,
                      <<h, SequenceOf(command'[h])>> \in DOMAIN commandsAwaitingResponse'
               PROVE  commandsAwaitingResponse'[<<h, SequenceOf(command'[h])>>] = command'[h]
    BY DEF NewestWaits
  <2>1. CASE h # g
    <3>1. command'[h] = command[h] /\ heard'[h][command[h]] = heard[h][command[h]]
      BY <1>7, <1>9, <2>1
    <3>2. <<h, SequenceOf(command[h])>> # key
      BY <2>1
    <3>3. /\ <<h, SequenceOf(command[h])>> \in DOMAIN commandsAwaitingResponse
          /\ commandsAwaitingResponse'[<<h, SequenceOf(command[h])>>]
               = commandsAwaitingResponse[<<h, SequenceOf(command[h])>>]
      BY <1>4, <3>1, <3>2
    <3> QED
      BY <3>1, <3>3 DEF NewestWaits
  <2>2. CASE h = g /\ commandsAwaitingResponse'[key] = c
    BY <1>8, <2>2
  <2>3. CASE /\ h = g
             /\ commandsAwaitingResponse' = commandsAwaitingResponse
             /\ heard' = heard
    <3>1. c = command[g]
      BY <1>3, <1>8, <2>3 DEF NothingFromTheFuture
    <3> QED
      BY <1>8, <2>3, <3>1 DEF NewestWaits
  <2> QED
    BY <1>4, <2>1, <2>2, <2>3
<1>13. CommandPending'
  BY <1>1, <1>3, <1>8, <1>7 DEF CommandPending, ExchangeTypeOK
<1>14. DueIsOpen'
  BY <1>1 DEF DueIsOpen, ExchangeTypeOK
<1>15. ExecutionsWereRequested'
  <2> SUFFICES ASSUME NEW h \in Gateway, NEW d \in Request
               PROVE  executed'[h][d] + (IF Waits(h, d)' THEN 1 ELSE 0) <= heard'[h][d]
    BY DEF ExecutionsWereRequested
  <2>1. executed[h][d] + (IF Waits(h, d) THEN 1 ELSE 0) <= heard[h][d]
    BY DEF ExecutionsWereRequested
  <2>2. executed'[h][d] = executed[h][d] /\ executed[h][d] \in Nat
    BY <1>1 DEF ExchangeTypeOK
  <2>3. heard[h][d] \in Nat /\ heard'[h][d] \in Nat
    BY <1>6 DEF ExchangeTypeOK
  <2>4. CASE heard'[h][d] = heard[h][d] + 1
    BY <2>1, <2>2, <2>3, <2>4
  <2>5. CASE heard'[h][d] = heard[h][d] /\ (Waits(h, d)' => Waits(h, d))
    BY <2>1, <2>2, <2>3, <2>5
  <2>6. ASSUME ~(h = g /\ d = c), Waits(h, d)'
        PROVE  Waits(h, d)
    <3>1. PICK s \in Sequence : /\ <<h, s>> \in DOMAIN commandsAwaitingResponse'
                                /\ commandsAwaitingResponse'[<<h, s>>] = d
      BY <2>6 DEF Waits
    <3>2. ~(commandsAwaitingResponse'[key] = c /\ <<h, s>> = key)
      BY <2>6, <3>1
    <3> QED
      BY <1>4, <3>1, <3>2 DEF Waits
  <2>7. CASE h = g /\ d = c /\ heard' = heard /\ commandsAwaitingResponse' = commandsAwaitingResponse
    BY <2>5, <2>7 DEF Waits
  <2>8. CASE h = g /\ d = c /\ heard' = [heard EXCEPT ![g][c] = @ + 1]
    BY <2>4, <2>8 DEF ExchangeTypeOK
  <2>9. CASE ~(h = g /\ d = c)
    BY <1>9, <2>5, <2>6, <2>9
  <2> QED
    BY <1>4, <2>7, <2>8, <2>9
<1>16. ReportsArePaired'
  BY <1>1 DEF ReportsArePaired
<1> QED
  BY <1>6, <1>10, <1>11, <1>12, <1>13, <1>14, <1>15, <1>16

(***************************************************************************)
(* So does a response.                                                     *)
(***************************************************************************)
LEMMA RespondKeepsInv ==
  ASSUME ExchangeInv, NEW g \in Gateway, Respond(g)
  PROVE  /\ ExchangeInv'
         /\ \A r \in reports' \ reports : heard[r[1]][r[3]] > 0 => r[2] = r[3]
<1> USE DEF ExchangeInv
<1> DEFINE c == command[g]
           key == <<g, SequenceOf(c)>>
           request == commandsAwaitingResponse[key]
<1>1. PICK arrived \in BOOLEAN, overheard \in BOOLEAN :
        /\ due[g]
        /\ Lose(arrived, overheard)
        /\ due' = [due EXCEPT ![g] = FALSE]
        /\ open' = [open EXCEPT ![g] = ~arrived]
        /\ IF overheard
             THEN LET f == ResponseFrame(g, command[g])
                      call == Execution(f).what
                  IN  /\ CommandResponse(f)
                      /\ IF IsAwaited(f)
                           THEN /\ executed' = [executed EXCEPT ![g][call.request] = @ + 1]
                                /\ reports' = reports \cup {<<g, call.request, call.response>>}
                           ELSE UNCHANGED <<executed, reports>>
             ELSE UNCHANGED <<transportVars, executed, reports>>
        /\ UNCHANGED <<command, heard>>
  BY DEF Respond
<1>2. c \in Request /\ c \in Nat /\ SequenceOf(c) \in Sequence
  <2>1. c \in Request
    BY <1>1 DEF CommandPending
  <2>2. c \in Nat
    BY <2>1, ExchangeConstants
  <2>3. SequenceOf(c) \in Sequence
    BY <2>2, SequenceInRange
  <2> QED
    BY <2>1, <2>2, <2>3
<1>3. /\ Execution(ResponseFrame(g, c)).what.request = request
      /\ Execution(ResponseFrame(g, c)).what.response = c
  BY DEF Execution, ResponseFrame, Call
<1>4. \/ /\ TransportTypeOK'
         /\ key \in DOMAIN commandsAwaitingResponse
         /\ DOMAIN commandsAwaitingResponse' = DOMAIN commandsAwaitingResponse \ {key}
         /\ \A k \in DOMAIN commandsAwaitingResponse' :
              commandsAwaitingResponse'[k] = commandsAwaitingResponse[k]
         /\ executed' = [executed EXCEPT ![g][request] = @ + 1]
         /\ reports' = reports \cup {<<g, request, c>>}
      \/ /\ TransportTypeOK'
         /\ DOMAIN commandsAwaitingResponse' = DOMAIN commandsAwaitingResponse
         /\ \A k \in DOMAIN commandsAwaitingResponse :
              commandsAwaitingResponse'[k] = commandsAwaitingResponse[k]
         /\ UNCHANGED <<executed, reports>>
  <2>1. CASE overheard
    <3>1. /\ CommandResponse(ResponseFrame(g, c))
          /\ IF IsAwaited(ResponseFrame(g, c))
               THEN /\ executed' = [executed EXCEPT ![g][request] = @ + 1]
                    /\ reports' = reports \cup {<<g, request, c>>}
               ELSE UNCHANGED <<executed, reports>>
      BY <1>1, <1>3, <2>1
    <3>2. TransportTypeOK /\ key = <<g, SequenceOf(c)>>
      BY DEF ExchangeTypeOK
    <3> HIDE DEF key, c, ExchangeInv
    <3>3. /\ TransportTypeOK'
          /\ IsAwaited(ResponseFrame(g, c)) <=> key \in DOMAIN commandsAwaitingResponse
          /\ DOMAIN commandsAwaitingResponse' = DOMAIN commandsAwaitingResponse \ {key}
          /\ \A k \in DOMAIN commandsAwaitingResponse' :
               commandsAwaitingResponse'[k] = commandsAwaitingResponse[k]
      BY <1>2, <3>1, <3>2, ResponseHeard
    <3> QED
      BY <3>1, <3>3
  <2>2. CASE ~overheard
    BY <1>1, <2>2 DEF ExchangeTypeOK, TransportTypeOK, transportVars
  <2> QED
    BY <2>1, <2>2
<1>5. /\ DOMAIN commandsAwaitingResponse' \subseteq DOMAIN commandsAwaitingResponse
      /\ \A k \in DOMAIN commandsAwaitingResponse' :
           commandsAwaitingResponse'[k] = commandsAwaitingResponse[k]
  BY <1>4
<1>6. key \in DOMAIN commandsAwaitingResponse =>
        /\ request \in Request /\ request \in Nat /\ request <= c
        /\ SequenceOf(request) = SequenceOf(c)
        /\ heard[g][c] > 0 => request = c
  <2> SUFFICES ASSUME key \in DOMAIN commandsAwaitingResponse
               PROVE  /\ request \in Request /\ request \in Nat /\ request <= c
                      /\ SequenceOf(request) = SequenceOf(c)
                      /\ heard[g][c] > 0 => request = c
    OBVIOUS
  <2>1. request \in Request /\ request \in Nat
    BY ExchangeConstants DEF ExchangeTypeOK, TransportTypeOK
  <2>2. request <= c /\ SequenceOf(request) = SequenceOf(c)
    BY <1>2 DEF WaitsInPlace
  <2>3. heard[g][c] > 0 => request = c
    BY <1>2 DEF NewestWaits
  <2> QED
    BY <2>1, <2>2, <2>3
<1>7. ExchangeTypeOK'
  <2>1. due' \in [Gateway -> BOOLEAN] /\ open' \in [Gateway -> BOOLEAN]
    BY <1>1 DEF ExchangeTypeOK
  <2>2. losses' \in Nat
    BY <1>1 DEF Lose, ExchangeTypeOK
  <2>3. executed' \in [Gateway -> [Request -> Nat]]
    <3>1. executed \in [Gateway -> [Request -> Nat]]
      BY DEF ExchangeTypeOK
    <3>2. ASSUME NEW d \in Request
          PROVE  [executed EXCEPT ![g][d] = @ + 1] \in [Gateway -> [Request -> Nat]]
      <4>1. executed[g] \in [Request -> Nat] /\ executed[g][d] + 1 \in Nat
        BY <3>1
      <4>2. [executed[g] EXCEPT ![d] = @ + 1] \in [Request -> Nat]
        BY <4>1
      <4> QED
        BY <3>1, <4>2
    <3> QED
      BY <1>4, <1>6, <3>1, <3>2
  <2>4. reports' \subseteq Gateway \X Request \X Request
    <3>1. reports \subseteq Gateway \X Request \X Request
      BY DEF ExchangeTypeOK
    <3>2. CASE reports' = reports
      BY <3>1, <3>2
    <3>3. CASE reports' = reports \cup {<<g, request, c>>} /\ request \in Request
      <4>1. <<g, request, c>> \in Gateway \X Request \X Request
        BY <1>2, <3>3
      <4> HIDE DEF request, c
      <4> QED
        BY <3>1, <3>3, <4>1
    <3> QED
      BY <1>4, <1>6, <3>2, <3>3
  <2> QED
    BY <1>1, <1>4, <2>1, <2>2, <2>3, <2>4 DEF ExchangeTypeOK
<1>8. WaitsInPlace' /\ NothingFromTheFuture' /\ NewestWaits'
  BY <1>1, <1>5 DEF WaitsInPlace, NothingFromTheFuture, NewestWaits
<1>9. CommandPending' /\ DueIsOpen'
  BY <1>1 DEF CommandPending, DueIsOpen, ExchangeTypeOK
<1>10. ExecutionsWereRequested'
  <2> SUFFICES ASSUME NEW h \in Gateway, NEW d \in Request
               PROVE  executed'[h][d] + (IF Waits(h, d)' THEN 1 ELSE 0) <= heard'[h][d]
    BY DEF ExecutionsWereRequested
  <2>1. executed[h][d] + (IF Waits(h, d) THEN 1 ELSE 0) <= heard[h][d]
    BY DEF ExecutionsWereRequested
  <2>2. /\ heard'[h][d] = heard[h][d] /\ heard[h][d] \in Nat /\ executed[h][d] \in Nat
        /\ executed'[h][d] \in Nat
    BY <1>1, <1>7 DEF ExchangeTypeOK
  <2>3. Waits(h, d)' => Waits(h, d)
    BY <1>5 DEF Waits
  <2>4. CASE executed'[h][d] = executed[h][d]
    BY <2>1, <2>2, <2>3, <2>4
  <2>5. CASE /\ h = g /\ d = request /\ key \in DOMAIN commandsAwaitingResponse
             /\ key \notin DOMAIN commandsAwaitingResponse'
             /\ executed'[h][d] = executed[h][d] + 1
    <3>1. Waits(h, d)
      BY <1>2, <2>5 DEF Waits
    <3>2. ~Waits(h, d)'
      <4> SUFFICES ASSUME NEW s \in Sequence,
                          <<g, s>> \in DOMAIN commandsAwaitingResponse',
                          commandsAwaitingResponse'[<<g, s>>] = request
                   PROVE  FALSE
        BY <2>5 DEF Waits
      <4>1. SequenceOf(request) = s
        BY <1>5 DEF WaitsInPlace
      <4>2. s = SequenceOf(c)
        BY <1>6, <2>5, <4>1
      <4> QED
        BY <2>5, <4>2
    <3> QED
      BY <2>1, <2>2, <2>5, <3>1, <3>2
  <2>6. \/ executed'[h][d] = executed[h][d]
        \/ /\ h = g /\ d = request /\ key \in DOMAIN commandsAwaitingResponse
           /\ key \notin DOMAIN commandsAwaitingResponse'
           /\ executed'[h][d] = executed[h][d] + 1
    BY <1>4, <1>6 DEF ExchangeTypeOK
  <2> QED
    BY <2>4, <2>5, <2>6
<1>11. ReportsArePaired'
  BY <1>4, <1>6 DEF ReportsArePaired
<1>12. \A r \in reports' \ reports : heard[r[1]][r[3]] > 0 => r[2] = r[3]
  BY <1>4, <1>6
<1> QED
  BY <1>7, <1>8, <1>9, <1>10, <1>11, <1>12

(***************************************************************************)
(* The invariant holds at first and is kept by every step.                 *)
(***************************************************************************)
LEMMA ExchangeInitially ==
  ASSUME ExchangeInit
  PROVE  ExchangeInv
<1>1. TransportTypeOK
  <2>1. <<>> \in [{} -> PacketNumber] /\ <<>> \in [{} -> Sequence] /\ <<>> \in [{} -> Request]
    OBVIOUS
  <2> QED
    BY <2>1 DEF ExchangeInit, TransportInit, TransportTypeOK
<1>2. commandsAwaitingResponse = <<>> /\ DOMAIN commandsAwaitingResponse = {}
  BY DEF ExchangeInit, TransportInit
<1>3. ExchangeTypeOK
  BY <1>1, ExchangeConstants DEF ExchangeInit, ExchangeTypeOK
<1>4. ExecutionsWereRequested
  BY <1>2 DEF ExchangeInit, ExecutionsWereRequested, Waits
<1> QED
  BY <1>2, <1>3, <1>4
     DEF ExchangeInit, ExchangeInv, WaitsInPlace, NothingFromTheFuture, NewestWaits,
         CommandPending, DueIsOpen, ReportsArePaired

LEMMA ExchangeStep ==
  ASSUME ExchangeInv, [ExchangeNext]_exchangeVars
  PROVE  /\ ExchangeInv'
         /\ \A r \in reports' \ reports : heard[r[1]][r[3]] > 0 => r[2] = r[3]
<1>1. CASE UNCHANGED exchangeVars
  BY <1>1 DEF exchangeVars, transportVars, controllerVars, historyVars, ExchangeInv,
              ExchangeTypeOK, TransportTypeOK, WaitsInPlace, NothingFromTheFuture,
              NewestWaits, CommandPending, DueIsOpen, ExecutionsWereRequested, Waits,
              ReportsArePaired
<1>2. ASSUME NEW g \in Gateway, IssueCommand(g)
      PROVE  ExchangeInv' /\ reports' = reports
  <2>1. command[g] + 1 \in Request /\ command \in [Gateway -> 0..MaxCommands]
    BY <1>2, ExchangeConstants DEF IssueCommand, ExchangeInv, ExchangeTypeOK
  <2>2. /\ command' = [command EXCEPT ![g] = command[g] + 1]
        /\ open' = [open EXCEPT ![g] = TRUE]
        /\ SendRequest(g, command[g] + 1)
    BY <1>2 DEF IssueCommand
  <2>3. reports' = reports
    BY <2>2 DEF SendRequest
  <2> QED
    BY <2>1, <2>2, <2>3, SendKeepsInv
<1>3. ASSUME NEW g \in Gateway, RetryCommand(g)
      PROVE  ExchangeInv' /\ reports' = reports
  <2>1. /\ command[g] \in Request /\ command \in [Gateway -> 0..MaxCommands]
        /\ open \in [Gateway -> BOOLEAN]
    BY <1>3 DEF RetryCommand, ExchangeInv, ExchangeTypeOK, CommandPending
  <2>2. open[g] /\ command' = command /\ open' = open /\ SendRequest(g, command[g])
    BY <1>3 DEF RetryCommand
  <2>3. /\ command' = [command EXCEPT ![g] = command[g]]
        /\ open' = [open EXCEPT ![g] = TRUE]
    BY <2>1, <2>2
  <2>4. reports' = reports
    BY <2>2 DEF SendRequest
  <2> QED
    BY <2>1, <2>2, <2>3, <2>4, SendKeepsInv
<1>4. ASSUME NEW g \in Gateway, Respond(g)
      PROVE  /\ ExchangeInv'
             /\ \A r \in reports' \ reports : heard[r[1]][r[3]] > 0 => r[2] = r[3]
  BY <1>4, RespondKeepsInv
<1> QED
  BY <1>1, <1>2, <1>3, <1>4 DEF ExchangeNext, exchangeVars, historyVars

(***************************************************************************)
(* The invariant, and from it what a run checks: the types, that what is   *)
(* executed was requested, and that responses are paired with the request  *)
(* they answer (receiver.rs:253, 296).                                     *)
(***************************************************************************)
THEOREM ExchangeInvariant == ExchangeSpec => []ExchangeInv
<1>1. ExchangeInit => ExchangeInv
  BY ExchangeInitially
<1>2. ExchangeInv /\ [ExchangeNext]_exchangeVars => ExchangeInv'
  BY ExchangeStep
<1> QED
  BY <1>1, <1>2, PTL DEF ExchangeSpec

\* The state always has its types (ExchangeTypeOK).
THEOREM ExchangeTypeCorrect == ExchangeSpec => []ExchangeTypeOK
<1>1. ExchangeInv => ExchangeTypeOK
  BY DEF ExchangeInv
<1> QED
  BY <1>1, ExchangeInvariant, PTL

\* Nothing is executed more often than it was requested (receiver.rs:296).
THEOREM ExecutionsCorrect == ExchangeSpec => []ExecutionsWereRequested
<1>1. ExchangeInv => ExecutionsWereRequested
  BY DEF ExchangeInv
<1> QED
  BY <1>1, ExchangeInvariant, PTL

\* Nothing is paired with a newer request, or one of another sequence number.
THEOREM ReportsCorrect == ExchangeSpec => []ReportsArePaired
<1>1. ExchangeInv => ReportsArePaired
  BY DEF ExchangeInv
<1> QED
  BY <1>1, ExchangeInvariant, PTL

\* A response is paired with its own request if that was heard (receiver.rs:253).
THEOREM PairingCorrect == ExchangeSpec => HeardIsPaired
<1>1. ExchangeInv /\ [ExchangeNext]_exchangeVars
        => [\A r \in reports' \ reports : heard[r[1]][r[3]] > 0 => r[2] = r[3]]_exchangeVars
  BY ExchangeStep
<1> QED
  BY <1>1, ExchangeInvariant, PTL DEF ExchangeSpec, HeardIsPaired
=============================================================================
