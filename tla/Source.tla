------------------------------- MODULE Source -------------------------------
(* The reconnect loop of `Source::read` (main.rs), which keeps the receiving *)
(* pipeline supplied with bytes, together with what is at the other end: a   *)
(* Modbus-over-TCP server or a serial adapter that may be away, accept and   *)
(* say nothing, accept and close, or talk.                                   *)
(*                                                                           *)
(* Abstractions: time is one bit, `overdue`, for "last_received.elapsed() is *)
(* at least reconnect_timeout"; the bytes read are not represented; an       *)
(* interrupted read, which the loop repeats, is no step.  The socket has no  *)
(* read timeout (tcp.rs sets none), so a blocking read of it reports TimedOut *)
(* only when the keepalive probes went unanswered; the serial port's own     *)
(* timeout is swallowed by `Port::read`, so a serial read never reports one. *)
EXTENDS Naturals

CONSTANTS Configs,     \* The command lines considered, see IsConfig
          RetryModulus \* The width of the retry counter, 2^32 in the source

IsConfig(c) ==
  /\ c.kind \in {"tcp", "serial"}
  /\ c.timed \in BOOLEAN      \* --reconnect-timeout is not 0
  /\ c.limit \in Nat          \* --reconnect-retry

\* A limit is of the width of the counter it is compared with.
ASSUME ConfigAssumption ==
  /\ RetryModulus \in Nat \ {0}
  /\ \A c \in Configs : IsConfig(c) /\ c.limit < RetryModulus

VARIABLES config,   \* The command line, fixed
          pc,       \* Where the loop is
          retry,    \* reconnect_retry
          conn,     \* What the next read of the open connection reports
          overdue,  \* Nothing was received for reconnect_timeout
          peer      \* What the other end does

vars == <<config, pc, retry, conn, overdue, peer>>

(* "open" is a connection whose read blocks or returns data; "timedout",     *)
(* "reset" and "ended" are pending TimedOut, other errors and Ok(0).         *)
ConnStates == {"none", "open", "timedout", "reset", "ended"}
Peers == {"away", "silent", "closing", "talking"}

Init ==
  /\ config \in Configs
  /\ pc = "opening"
  /\ retry = 0
  /\ conn = "none"
  /\ overdue = FALSE
  /\ peer \in Peers

-----------------------------------------------------------------------------
(* The loop.                                                                 *)

Exceeds(n) == config.limit # 0 /\ n > config.limit

(* The form of a counting bug: attempts are counted and never limited.       *)
CountRetryForever ==
  /\ retry' = (retry + 1) % RetryModulus
  /\ pc' = "sleeping"

(* The form of another: the counter starts anew with every round of the loop. *)
CountRetryAnew ==
  LET n == 1
  IN  /\ retry' = n
      /\ pc' = IF Exceeds(n) THEN "exited" ELSE "sleeping"

(* One more failed attempt: sleep before the next, or exit.                  *)
CountRetry ==
  LET n == (retry + 1) % RetryModulus
  IN  /\ retry' = n
      /\ pc' = IF Exceeds(n) THEN "exited" ELSE "sleeping"

(* source.open() is an error.                                                *)
OpenFails ==
  /\ pc = "opening"
  /\ peer = "away"
  /\ CountRetry
  /\ UNCHANGED <<config, conn, overdue, peer>>

(* source.open() succeeds, and last_received is now.                         *)
OpenSucceeds ==
  /\ pc = "opening"
  /\ peer # "away"
  /\ pc' = "reading"
  /\ conn' = "open"
  /\ overdue' = FALSE
  /\ UNCHANGED <<config, retry, peer>>

(* conn.read is Ok(n) with n > 0.                                            *)
ReadData ==
  /\ pc = "reading"
  /\ conn = "open"
  /\ peer = "talking"
  /\ retry' = 0
  /\ overdue' = FALSE
  /\ UNCHANGED <<config, pc, conn, peer>>

(* Leaving the inner loop closes the connection and sleeps.                  *)
Break == pc' = "sleeping" /\ conn' = "none"

(* The form of a bug: the end of the stream is taken for an empty read.      *)
ReadEndContinues ==
  /\ pc = "reading"
  /\ conn = "ended"
  /\ UNCHANGED vars

(* conn.read is Ok(0).                                                       *)
ReadEnd ==
  /\ pc = "reading"
  /\ conn = "ended"
  /\ Break
  /\ UNCHANGED <<config, retry, overdue, peer>>

(* conn.read is a TimedOut error that counts as temporary.  The socket has   *)
(* reported its failure, and has nothing more to deliver.                    *)
ReadTimedOutEarly ==
  /\ pc = "reading"
  /\ conn = "timedout"
  /\ ~config.timed \/ ~overdue
  /\ conn' = "ended"
  /\ UNCHANGED <<config, pc, retry, overdue, peer>>

(* conn.read is a TimedOut error after reconnect_timeout without data.       *)
ReadTimedOutLate ==
  /\ pc = "reading"
  /\ conn = "timedout"
  /\ config.timed /\ overdue
  /\ CountRetry
  /\ conn' = "none"
  /\ UNCHANGED <<config, overdue, peer>>

(* conn.read is another error.                                               *)
ReadError ==
  /\ pc = "reading"
  /\ conn = "reset"
  /\ Break
  /\ UNCHANGED <<config, retry, overdue, peer>>

(* sleep(reconnect_delay) is over.                                           *)
Awake ==
  /\ pc = "sleeping"
  /\ pc' = "opening"
  /\ UNCHANGED <<config, retry, conn, overdue, peer>>

Loop ==
  \/ OpenFails \/ OpenSucceeds \/ ReadData \/ ReadEnd
  \/ ReadTimedOutEarly \/ ReadTimedOutLate \/ ReadError \/ Awake

-----------------------------------------------------------------------------
(* The other end, and time.                                                  *)

Elapse ==
  /\ pc = "reading"
  /\ overdue' = TRUE
  /\ UNCHANGED <<config, pc, retry, conn, peer>>

PeerBecomes ==
  /\ peer' \in Peers \ {peer}
  /\ UNCHANGED <<config, pc, retry, conn, overdue>>

(* A peer that is gone is noticed: by unanswered probes, or by an adapter    *)
(* that vanished.                                                            *)
PeerIsMissed ==
  /\ conn = "open"
  /\ peer = "away"
  /\ conn' \in IF config.kind = "tcp" THEN {"timedout"} ELSE {"reset", "ended"}
  /\ UNCHANGED <<config, pc, retry, overdue, peer>>

PeerCloses ==
  /\ conn = "open"
  /\ peer = "closing"
  /\ conn' = "ended"
  /\ UNCHANGED <<config, pc, retry, overdue, peer>>

(* A peer that restarted answers on the old connection with a reset.         *)
PeerResets ==
  /\ conn = "open"
  /\ conn' = "reset"
  /\ UNCHANGED <<config, pc, retry, overdue, peer>>

Next == Loop \/ Elapse \/ PeerBecomes \/ PeerIsMissed \/ PeerCloses \/ PeerResets

(* The loop is one thread that runs; sleeps end, keepalive probes expire, a  *)
(* peer that closes closes, and time passes.  Nothing is assumed of what the *)
(* peer is or of when it resets a connection.                                *)
Fairness ==
  /\ WF_vars(Loop)
  /\ WF_vars(PeerIsMissed)
  /\ WF_vars(PeerCloses)
  /\ WF_vars(Elapse)

Spec == Init /\ [][Next]_vars /\ Fairness

-----------------------------------------------------------------------------
(* Types, with the facts that tie the variables: a connection is there       *)
(* exactly while it is read or as the program exits, and a running program   *)
(* has not used up its retries, whichever of the failures it counted.        *)
SourceTypeOK ==
  /\ config \in Configs
  /\ pc \in {"opening", "reading", "sleeping", "exited"}
  /\ retry \in 0 .. RetryModulus - 1
  /\ conn \in ConnStates
  /\ overdue \in BOOLEAN
  /\ peer \in Peers
  /\ (conn # "none") = (pc = "reading")
  /\ (config.limit # 0 /\ pc # "exited") => retry <= config.limit

(* "The number of times to retry reconnecting before giving up": from any    *)
(* point on which the other end is away for good, a program with a limit     *)
(* exits, however the open connection fails first.                           *)
GivesUpWhenAway ==
  (config.limit # 0 /\ <>[](peer = "away")) => <>(pc = "exited")

(* A program whose peer eventually talks for good is, again and again,       *)
(* reading from a connection that can deliver data, unless it exited.        *)
TalkerIsHeard ==
  <>[](peer = "talking") =>
    ([]<>(pc = "reading" /\ conn = "open") \/ <>(pc = "exited"))

(* "The time after which connection is re-established if no data is received *)
(* in seconds": a program with a timeout whose peer is silent for good leaves *)
(* every connection.                                                         *)
SilenceIsNoticed ==
  (config.timed /\ <>[](peer = "silent")) => []<>(pc # "reading")
=============================================================================
