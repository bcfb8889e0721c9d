----------------------------- MODULE Enumeration -----------------------------
(***************************************************************************)
(* The observer beside a controller that enumerates its gateways           *)
(* (docs/protocol.md, "Enumeration start request" and on): every gateway   *)
(* falls back to a temporary id, is assigned an id of its own, identifies  *)
(* itself and tells its version there.  The observer misses some of it, is *)
(* stopped and started in the middle of it, and fails to write.            *)
(*                                                                         *)
(* The transport receiver passes the frames of an enumeration through      *)
(* unchanged and keeps no state about them (Reported and                   *)
(* EnumerationStartRequest of TransportReceiver), so a response that is    *)
(* heard is here the call it leads to.  Frames that arrive during a write  *)
(* wait for its end; here it is the network that waits.                    *)
(***************************************************************************)
EXTENDS Observer

CONSTANTS
  VersionOf,   \* the version of the gateway with an address
  Temporary,   \* the ids used for enumerations only
  MaxFaults,   \* bound: frames missed, stops, enumerations broken off
  MaxPages     \* bound: node table pages heard

ASSUME EnumerationConstants ==
  /\ VersionOf \in [Address -> Version]
  /\ Temporary \subseteq Gateway
  /\ MaxFaults \in Nat
  /\ MaxPages \in Nat

VARIABLES
  phase,       \* what the controller is doing
  at,          \* the id of the newest enumeration
  ids,         \* the id each gateway answers at
  identified,  \* the gateways that identified themselves in this phase
  versioned,   \* the gateways that told their version in this phase
  moved,       \* a gateway was given a second id in this enumeration
  faults,      \* how many faults there were
  pages,       \* how many node table pages were heard
  heard        \* history: how much of this enumeration the observer heard

networkVars == <<phase, at, ids, identified, versioned, moved>>
enumerationVars == <<observerVars, networkVars, faults, pages, heard>>

Permanent == Gateway \ Temporary

Free == {g \in Permanent : \A a \in Address : ids[a] # g}

EnumerationInit ==
  /\ ObserverInit
  /\ phase = "Quiet"
  /\ at \in Temporary
  /\ ids \in {f \in [Address -> Permanent] :
                \A a, b \in Address : f[a] = f[b] => a = b}
  /\ identified = {}
  /\ versioned = {}
  /\ moved = FALSE
  /\ faults = 0
  /\ pages = 0
  /\ heard = "Nothing"

(***************************************************************************)
(* A frame passes the observer: it misses it, at a cost in faults unless   *)
(* it is not running anyway.                                               *)
(***************************************************************************)
Fault == faults < MaxFaults /\ faults' = faults + 1

Unheard ==
  /\ \/ ~running /\ UNCHANGED faults
     \/ Called /\ Fault
  /\ UNCHANGED observerVars

\* Less than all of an enumeration was heard, once a response was missed.
Missed == heard' = IF heard = "All" THEN "Part" ELSE heard

(***************************************************************************)
(* The start request goes to all gateways at once, several times, and any  *)
(* one of those that is heard will do.  An enumeration broken off by the   *)
(* start of another one counts as a fault.                                 *)
(***************************************************************************)
FallBack(g) ==
  /\ phase' = "Starting"
  /\ at' = g
  /\ ids' = [a \in Address |-> g]
  /\ identified' = {}
  /\ versioned' = {}
  /\ moved' = FALSE

StartEnumeration(g) ==
  /\ phase = "Quiet"
  /\ FallBack(g)
  /\ \/ EnumerationStarted(g) /\ heard' = "All" /\ UNCHANGED faults
     \/ Unheard /\ heard' = "Nothing"
  /\ UNCHANGED pages

BreakOff(g) ==
  /\ phase # "Quiet"
  /\ FallBack(g)
  /\ EnumerationStarted(g)
  /\ heard' = "All"
  /\ Fault
  /\ UNCHANGED pages

RepeatStart ==
  /\ phase = "Starting"
  /\ \/ EnumerationStarted(at) /\ heard' = "All" /\ UNCHANGED faults
     \/ Unheard /\ UNCHANGED heard
  /\ UNCHANGED <<networkVars, pages>>

(***************************************************************************)
(* One of the gateways at the enumeration id responds from there and is    *)
(* assigned an id of its own.                                              *)
(***************************************************************************)
Enumerate(a, g) ==
  /\ phase \in {"Starting", "Enumerating"}
  /\ ids[a] = at
  /\ g \in Free
  /\ phase' = "Enumerating"
  /\ ids' = [ids EXCEPT ![a] = g]
  /\ \/ IdentityObserved(at, a) /\ UNCHANGED <<faults, heard>>
     \/ Unheard /\ Missed
  /\ UNCHANGED <<at, identified, versioned, moved, pages>>

\* A gateway is given a second id, as in the example of docs/protocol.md.
Reassign(a, g) ==
  /\ phase = "Enumerating"
  /\ ~moved
  /\ moved' = TRUE
  /\ ids[a] # at
  /\ g \in Free
  /\ ids' = [ids EXCEPT ![a] = g]
  /\ identified' = identified \ {a}
  /\ versioned' = versioned \ {a}
  /\ UNCHANGED <<observerVars, phase, at, faults, pages, heard>>

Identify(a) ==
  /\ phase # "Starting"
  /\ ids[a] # at
  /\ a \notin identified
  /\ identified' = identified \cup {a}
  /\ \/ IdentityObserved(ids[a], a) /\ UNCHANGED <<faults, heard>>
     \/ Unheard /\ Missed
  /\ UNCHANGED <<phase, at, ids, versioned, moved, pages>>

TellVersion(a) ==
  /\ phase # "Starting"
  /\ ids[a] # at
  /\ a \in identified \ versioned
  /\ versioned' = versioned \cup {a}
  /\ \/ VersionObserved(ids[a], VersionOf[a]) /\ UNCHANGED <<faults, heard>>
     \/ Unheard /\ Missed
  /\ UNCHANGED <<phase, at, ids, identified, moved, pages>>

\* The observer hears the end of an enumeration it knows of, or not.
EndObserved ==
  \/ EnumerationEnded
  \/ Called /\ enumeration = NoEnumeration /\ UNCHANGED observerVars

End ==
  /\ phase = "Enumerating"
  /\ identified = Address
  /\ versioned = Address
  /\ phase' = "Quiet"
  /\ identified' = {}
  /\ versioned' = {}
  /\ heard' = "Nothing"
  /\ \/ EndObserved /\ UNCHANGED faults
     \/ Unheard
  /\ UNCHANGED <<at, ids, moved, pages>>

(***************************************************************************)
(* Node tables are read between enumerations.                              *)
(***************************************************************************)
Page(a, start, page) ==
  /\ phase = "Quiet"
  /\ pages < MaxPages
  /\ pages' = pages + 1
  /\ NodeTablePage(ids[a], start, page)
  /\ UNCHANGED <<networkVars, faults, heard>>

(***************************************************************************)
(* The process and its file.  Who starts the program again is not the      *)
(* program; it misses all that passes meanwhile.                           *)
(***************************************************************************)
StopObserver ==
  /\ Stop
  /\ Fault
  /\ heard' = "Nothing"
  /\ UNCHANGED <<networkVars, pages>>

StartObserver ==
  /\ Start \/ StartUnread
  /\ UNCHANGED <<networkVars, faults, pages, heard>>

WriteState == Written /\ UNCHANGED <<networkVars, faults, pages, heard>>

\* What the controller does to get on with an enumeration, and what it may do.
Enumerating ==
  \/ \E g \in Temporary : StartEnumeration(g)
  \/ \E a \in Address, g \in Permanent : Enumerate(a, g)
  \/ phase = "Enumerating" /\ \E a \in Address : Identify(a) \/ TellVersion(a)
  \/ End

Detour ==
  \/ \E g \in Temporary : BreakOff(g)
  \/ RepeatStart
  \/ \E a \in Address, g \in Permanent : Reassign(a, g)
  \/ phase = "Quiet" /\ \E a \in Address : Identify(a) \/ TellVersion(a)
  \/ \E a \in Address, start \in 0..MaxNode, page \in PagesHeard :
       Page(a, start, page)

EnumerationNext ==
  Enumerating \/ Detour \/ StopObserver \/ StartObserver \/ WriteState

(***************************************************************************)
(* The controller enumerates again and again (README.md:160: it does so in *)
(* its housekeeping after sundown) and finishes; the process is started    *)
(* again; a write is one thread's straight code.                           *)
(***************************************************************************)
EnumerationSpec ==
  /\ EnumerationInit /\ [][EnumerationNext]_enumerationVars
  /\ WF_enumerationVars(Enumerating)
  /\ WF_enumerationVars(StartObserver)
  /\ WF_enumerationVars(WriteState)
-----------------------------------------------------------------------------
\* A report names every gateway as the network has it, and not the temporary id.
Describes(report) ==
  /\ \A a \in Address :
       /\ ids[a] \in DOMAIN report.gateways
       /\ report.gateways[ids[a]] = [address |-> a, version |-> VersionOf[a]]
  /\ at \notin DOMAIN report.gateways

(***************************************************************************)
(* "Accept the gateway information learned during enumeration as a         *)
(* replacement for our existing state" (observer.rs:238): after an         *)
(* enumeration that was heard from one of its start requests to its end,   *)
(* however often it was begun before and whatever was open or known by     *)
(* then, the infrastructure reported is the network's.                     *)
(***************************************************************************)
HeardEnumerationIsLearned ==
  [][ (/\ phase = "Enumerating" /\ phase' = "Quiet"
       /\ heard = "All"
       /\ faults' = faults)
      => Describes(InfrastructureReport(persistent))' ]_enumerationVars

(***************************************************************************)
(* An enumeration that was heard to start changes nothing that is known    *)
(* before its end is heard, not even what of it was missed: a temporary id *)
(* or half of the gateways never replace a network known whole.            *)
(***************************************************************************)
NothingIsLearnedHalfway ==
  [][ (phase # "Quiet" /\ phase' # "Quiet" /\ heard # "Nothing" /\ running')
      => UNCHANGED persistent ]_enumerationVars

\* The controller is done and the observer has come to rest.
Settled == phase = "Quiet" /\ running /\ writing = "Idle"

(***************************************************************************)
(* Missed starts, responses and ends, enumerations broken off, restarts in *)
(* the middle of one and failed writes cost no more than the enumerations  *)
(* they hit: once there are no more of them, what a restart would read and *)
(* report between enumerations is the network.                             *)
(***************************************************************************)
NetworkIsLearned ==
  <>[](Settled => /\ disk[File] \in PersistentState
                  /\ Describes(InfrastructureReport(disk[File])))
=============================================================================
