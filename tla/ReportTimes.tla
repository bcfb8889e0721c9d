----------------------------- MODULE ReportTimes ----------------------------
(***************************************************************************)
(* How power reports get their timestamps: a controller polls a gateway,   *)
(* which notes its slot counter when it handles the request and answers    *)
(* with it and with the reports it has.  The observer notes the time when  *)
(* it hears the request (gateway_slot_counter_captured), sets its slot     *)
(* clock when it hears the response (gateway_slot_counter_observed), and   *)
(* then looks up in it when the reported measurements were taken           *)
(* (power_report).  It misses frames, is restarted, and the time it is     *)
(* told can step.                                                          *)
(*                                                                         *)
(* One gateway is modelled: the observer keeps the state of each apart.    *)
(* Requests, responses and reports take no time, and slots last exactly as *)
(* long as the clock assumes.                                              *)
(***************************************************************************)
EXTENDS SlotClock

CONSTANTS
  Nothing,    \* no time captured, no clock, no request or no report
  MaxGap,     \* slots from one poll to the next without a fault at most
  MaxAge,     \* slots a measurement is old when it is reported at most
  MaxTime,    \* bound: slots
  MaxFaults,  \* bound: frames missed or spoilt, clock steps, long pauses, restarts
  Skews,      \* by how much the system's time can be off
  Spoilt      \* whether a response can give an invalid slot number

ASSUME ReportTimesConstants ==
  /\ MaxGap \in 0..Wrap - SlotsPerIndex
  /\ MaxAge \in 0..Wrap - SlotsPerIndex
  /\ MaxTime \in Nat
  /\ MaxFaults \in Nat
  /\ Skews \subseteq Int /\ 0 \in Skews
  /\ Spoilt \in BOOLEAN
  /\ Nothing \notin Int

VARIABLES
  now,       \* real time, since the gateway's counter was zero (external)
  skew,      \* what the system's time is ahead of it (external)
  request,   \* when the gateway handled the request it will answer (external)
  captured,  \* captured_slot_counters[gateway]
  clock,     \* slot_clocks[gateway]
  error,     \* history: by how much the last timestamp was off
  polled,    \* history: when the last request was sent
  since,     \* history: when the last fault happened, -1 if there was none
  faults     \* history: the faults so far

reportVars == <<now, skew, request, captured, clock, error, polled, since, faults>>

CounterAt(time) == [epoch |-> (time \div EpochSlots) % Epochs, number |-> time % EpochSlots]
InvalidCounter == [epoch |-> Epochs - 1, number |-> EpochSlots]

ReportInit ==
  /\ now \in Wrap..2 * Wrap - 1
  /\ skew = 0
  /\ request = Nothing
  /\ captured = Nothing
  /\ clock = Nothing
  /\ error = Nothing
  /\ polled = now
  /\ since = -1
  /\ faults = 0

Fault ==
  /\ faults < MaxFaults
  /\ faults' = faults + 1
  /\ since' = now

NoFault == UNCHANGED <<since, faults>>

Tick ==
  /\ now < MaxTime
  /\ now' = now + 1
  /\ IF now + 1 - polled <= MaxGap THEN NoFault ELSE Fault
  /\ UNCHANGED <<skew, request, captured, clock, error, polled>>

StepClock ==
  /\ Fault
  /\ skew' \in Skews \ {skew}
  /\ UNCHANGED <<now, request, captured, clock, error, polled>>

\* Observer::gateway_slot_counter_captured, if the request is heard.  A
\* request before the last one was answered is a fault, too.
SendRequest ==
  /\ request' = now
  /\ polled' = now
  /\ \/ /\ IF request = Nothing THEN NoFault ELSE Fault
        /\ captured' = now + skew
     \/ Fault /\ UNCHANGED captured
  /\ UNCHANGED <<now, skew, clock, error>>

\* Observer::gateway_slot_counter_observed
SlotCounterObserved(counter) ==
  \/ /\ captured = Nothing
     /\ UNCHANGED <<captured, clock>>
  \/ /\ captured # Nothing
     /\ captured' = Nothing
     /\ clock' = CASE ~IsValid(counter) -> clock
                   [] IsValid(counter) /\ clock = Nothing -> NewClock(counter, captured)
                   [] OTHER -> Set(clock, counter, captured)

\* Observer::power_report on a measurement of that time: without a clock, the
\* report is discarded.
PowerReport(taken) ==
  error' = IF clock' = Nothing THEN Nothing
           ELSE Get(clock', CounterAt(taken)) - (taken + skew)

\* A response comes with reports, or with none.
HearResponse(counter) ==
  /\ SlotCounterObserved(counter)
  /\ \/ \E taken \in request - MaxAge..request : PowerReport(taken)
     \/ error' = Nothing

SendResponse ==
  /\ request # Nothing
  /\ request' = Nothing
  /\ \/ NoFault /\ HearResponse(CounterAt(request))
     \/ Spoilt /\ Fault /\ HearResponse(InvalidCounter)
     \/ Fault /\ UNCHANGED <<captured, clock, error>>
  /\ UNCHANGED <<now, skew, polled>>

\* Observer::new: nothing is known of any time, and so nothing wrong, which is
\* why a restart is not among the faults that since is about.
Restart ==
  /\ faults < MaxFaults
  /\ faults' = faults + 1
  /\ captured' = Nothing
  /\ clock' = Nothing
  /\ error' = Nothing
  /\ UNCHANGED <<now, skew, request, polled, since>>

ReportNext == Restart \/ Tick \/ StepClock \/ SendRequest \/ SendResponse

ReportSpec == ReportInit /\ [][ReportNext]_reportVars
-----------------------------------------------------------------------------
\* The types of the observer's state.
ReportTypeOK ==
  /\ captured \in Int \cup {Nothing}
  /\ clock # Nothing =>
       clock \in [times : [Index -> Int], last_index : Index, last_time : Int]

(***************************************************************************)
(* As long as nothing is missed or spoilt and the time does not step, a    *)
(* measurement gets the time it was taken at, or none, also if the program *)
(* is restarted, in the middle of a poll or out of one.  Polls may be a    *)
(* wrap of the counter apart less one entry of the clock, and measurements *)
(* as old as that: both bounds are sharp.                                  *)
(***************************************************************************)
FaultlessReportsAreExact == since = -1 => error \in {Nothing, 0}

(***************************************************************************)
(* Whatever the faults were, their effects wear off: the entry that was    *)
(* set wrongly is set anew when the slot counter has gone around once, and *)
(* after twice no measurement is reported any more that was dated by it.   *)
(***************************************************************************)
ReportsRecover ==
  [][(request # Nothing /\ request' = Nothing /\ request - since' >= 2 * Wrap)
       => error' \in {Nothing, 0}]_reportVars

(***************************************************************************)
(* A clock that is found to have gone backwards is repaired at once        *)
(* (slot_clock.rs:65): the poll that finds it leaves no entry behind that  *)
(* was set by the time before.                                             *)
(***************************************************************************)
BackwardsIsRepaired ==
  [][(clock # Nothing /\ captured # Nothing /\ request # Nothing
        /\ captured = request + skew /\ clock.last_time > captured
        /\ SendResponse /\ NoFault)
      => \A taken \in request - Wrap + SlotsPerIndex..request :
           Get(clock', CounterAt(taken)) = taken + skew]_reportVars

(***************************************************************************)
(* "The time at which this measurement was taken" (event.rs:58) is what a  *)
(* report's timestamp tells, even if a frame was missed, up to the length  *)
(* of an entry ("per thousand ticks, i.e. per ±5s", slot_clock.rs:8).      *)
(***************************************************************************)
TimestampsAreTrue == error \in {Nothing} \cup -SlotsPerIndex..SlotsPerIndex

(***************************************************************************)
(* The inductive invariant behind the theorems.  Block b of slots is the   *)
(* b-th to have an entry in the clock, which has Indexes of them: those    *)
(* of the blocks up to the one of the time it was set last.                *)
(***************************************************************************)
Block(time) == time \div SlotsPerIndex
BlocksUntil(time) == Block(time) - (Indexes - 1)..Block(time)

\* No fault was so late that a poll soon after it came after the block began.
IsPastFaults(block) == since = -1 \/ block * SlotsPerIndex > since + Wrap

\* The clock as it is after it was set at that time.
IsSetAt(time) ==
  /\ clock.last_time = time + skew
  /\ clock.last_index = Block(time) % Indexes
  /\ \A block \in BlocksUntil(time) :
       IsPastFaults(block) =>
         clock.times[block % Indexes] = block * SlotsPerIndex + skew

\* It was set by the last poll that was answered, and that not too long ago.
InStep ==
  \E time \in Wrap..polled :
    /\ IsSetAt(time)
    /\ IF request = Nothing THEN time = polled ELSE request - time <= MaxGap

\* No poll was answered since the last fault.
Recovering == polled <= since \/ (request # Nothing /\ polled <= since + Wrap)

PollsInv ==
  /\ now \in Nat
  /\ polled \in Wrap..now
  /\ since \in -1..now
  /\ now - polled <= MaxGap \/ now <= since + 1
  /\ request # Nothing => request = polled

CapturedInv ==
  (request # Nothing /\ polled > since) =>
    \/ captured = request + skew
    \/ captured = Nothing /\ clock = Nothing

ReportInv ==
  /\ ReportTypeOK
  /\ skew \in Int
  /\ faults \in Nat
  /\ PollsInv
  /\ CapturedInv
  /\ clock # Nothing => InStep \/ Recovering
  /\ FaultlessReportsAreExact
=============================================================================
