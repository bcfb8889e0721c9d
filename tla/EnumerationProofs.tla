-------------------------- MODULE EnumerationProofs -------------------------
(***************************************************************************)
(* That the persistent state is saved in one piece, for every set of       *)
(* gateways, addresses, versions and node table pages, wherever the        *)
(* process is stopped and whatever fails, if the temporary file is another *)
(* file than the persistent one; and that the observer then implements     *)
(* DurableState.                                                           *)
(*                                                                         *)
(* And that an enumeration heard from its start to its end is learned, and *)
(* nothing before its end, for any number of gateways, ids, versions,      *)
(* faults and failures; and that beside a controller and gateways the      *)
(* observer does nothing that Observer does not allow.                     *)
(***************************************************************************)
EXTENDS Enumeration, NodeTableProofs, TLAPS

\* The inductive invariant: what is in the temporary file when it is renamed
\* is what was to be saved.
ObserverInv ==
  /\ ObserverTypeOK
  /\ TmpIsCurrent
  /\ WritesAtomically
  /\ StateIsSaved

(***************************************************************************)
(* Maps by gateway, and tables.                                            *)
(***************************************************************************)
LEMMA KnownInsert ==
  ASSUME NEW S, NEW m \in Known(S), NEW g \in Gateway, NEW v \in S
  PROVE  Insert(m, g, v) \in Known(S)
<1>1. PICK gateways \in SUBSET Gateway : m \in [gateways -> S]
  BY DEF Known
<1>2. Insert(m, g, v) \in [gateways \cup {g} -> S]
  BY <1>1 DEF Insert
<1> QED
  BY <1>1, <1>2 DEF Known

LEMMA KnownEmpty == \A S : <<>> \in Known(S)
<1> SUFFICES ASSUME NEW S PROVE <<>> \in Known(S)
  OBVIOUS
<1>1. <<>> \in [{} -> S]
  OBVIOUS
<1> QED
  BY <1>1 DEF Known

LEMMA EmptyIsState == EmptyState \in PersistentState
BY KnownEmpty DEF EmptyState, PersistentState

-----------------------------------------------------------------------------
(***************************************************************************)
(* The types are kept by every step.                                       *)
(***************************************************************************)
LEMMA LearnKeepsTypes ==
  ASSUME ObserverTypeOK, Learned
  PROVE  /\ ObserverTypeOK'
         /\ running /\ running' /\ writing = "Idle"
         /\ disk' = disk /\ failures' = failures /\ unsaved' = unsaved
         /\ \/ persistent' = persistent /\ writing' = "Idle"
            \/ persistent' \in PersistentState /\ writing' = "Create"
<1> USE DEF ObserverTypeOK
<1>1. ASSUME NEW g \in Gateway, EnumerationStarted(g)
      PROVE  /\ UNCHANGED <<running, persistent, builders, disk, writing, failures, unsaved>>
             /\ running /\ writing = "Idle"
             /\ enumeration' \in Enumerations
  <2>1. [at |-> g, identities |-> <<>>, versions |-> <<>>] \in Enumerations
    BY KnownEmpty DEF Enumerations
  <2> QED
    BY <1>1, <2>1 DEF EnumerationStarted, Called
<1>2. ASSUME NEW g \in Gateway, NEW a \in Address, IdentityObserved(g, a)
      PROVE  /\ UNCHANGED <<running, builders, disk, failures, unsaved>>
             /\ running /\ writing = "Idle"
             /\ enumeration' \in Enumerations \cup {NoEnumeration}
             /\ \/ persistent' = persistent /\ writing' = "Idle"
                \/ persistent' \in PersistentState /\ writing' = "Create"
  <2>1. Insert(persistent.identities, g, a) \in Known(Address)
    BY KnownInsert DEF PersistentState
  <2>2. [persistent EXCEPT !.identities = Insert(@, g, a)] \in PersistentState
    BY <2>1 DEF PersistentState
  <2>3. ASSUME enumeration # NoEnumeration
        PROVE  [enumeration EXCEPT !.identities = Insert(@, g, a)] \in Enumerations
    <3>1. enumeration \in Enumerations
      BY <2>3
    <3>2. Insert(enumeration.identities, g, a) \in Known(Address)
      BY <3>1, KnownInsert DEF Enumerations
    <3> QED
      BY <3>1, <3>2 DEF Enumerations
  <2> QED
    BY <1>2, <2>2, <2>3 DEF IdentityObserved, Called, Changed
<1>3. ASSUME NEW g \in Gateway, NEW v \in Version, VersionObserved(g, v)
      PROVE  /\ UNCHANGED <<running, builders, disk, failures, unsaved>>
             /\ running /\ writing = "Idle"
             /\ enumeration' \in Enumerations \cup {NoEnumeration}
             /\ \/ persistent' = persistent /\ writing' = "Idle"
                \/ persistent' \in PersistentState /\ writing' = "Create"
  <2>1. Insert(persistent.versions, g, v) \in Known(Version)
    BY KnownInsert DEF PersistentState
  <2>2. [persistent EXCEPT !.versions = Insert(@, g, v)] \in PersistentState
    BY <2>1 DEF PersistentState
  <2>3. ASSUME enumeration # NoEnumeration
        PROVE  [enumeration EXCEPT !.versions = Insert(@, g, v)] \in Enumerations
    <3>1. enumeration \in Enumerations
      BY <2>3
    <3>2. Insert(enumeration.versions, g, v) \in Known(Version)
      BY <3>1, KnownInsert DEF Enumerations
    <3> QED
      BY <3>1, <3>2 DEF Enumerations
  <2> QED
    BY <1>3, <2>2, <2>3 DEF VersionObserved, Called, Changed
<1>4. ASSUME EnumerationEnded
      PROVE  /\ UNCHANGED <<running, builders, disk, failures, unsaved>>
             /\ running /\ writing = "Idle"
             /\ enumeration' = NoEnumeration
             /\ persistent' \in PersistentState /\ writing' = "Create"
  <2>1. enumeration \in Enumerations
    BY <1>4 DEF EnumerationEnded
  <2>2. [persistent EXCEPT !.identities = enumeration.identities,
                           !.versions = enumeration.versions] \in PersistentState
    BY <2>1 DEF Enumerations, PersistentState
  <2> QED
    BY <1>4, <2>2 DEF EnumerationEnded, Called, Changed
<1>5. ASSUME NEW g \in Gateway, NEW start \in 0..MaxNode, NEW page \in PagesHeard,
             NodeTablePage(g, start, page)
      PROVE  /\ UNCHANGED <<running, enumeration, disk, failures, unsaved>>
             /\ running /\ writing = "Idle"
             /\ \A h \in Gateway : builders'[h].table \in Tables
             /\ \/ persistent' = persistent /\ writing' = "Idle"
                \/ persistent' \in PersistentState /\ writing' = "Create"
  <2>1. page \in Pages
    BY ObserverConstants
  <2>2. /\ Collected(builders[g], start) \in Tables
        /\ AfterPush(builders[g], start, page).table \in Tables
    BY <2>1, PushCollectsTables
  <2>3. Insert(persistent.tables, g, Collected(builders[g], start)) \in Known(Tables)
    BY <2>2, KnownInsert DEF PersistentState
  <2>4. [persistent EXCEPT !.tables = Insert(@, g, Collected(builders[g], start))]
          \in PersistentState
    BY <2>3 DEF PersistentState
  <2>5. builders' = [builders EXCEPT ![g] = AfterPush(@, start, page)]
    BY <1>5 DEF NodeTablePage
  <2>6. \A h \in Gateway : builders'[h].table \in Tables
    BY <2>2, <2>5
  <2> QED
    BY <1>5, <2>4, <2>6 DEF NodeTablePage, Called, Changed
<1>6. /\ UNCHANGED <<running, disk, failures, unsaved>>
      /\ running /\ writing = "Idle"
      /\ enumeration' \in Enumerations \cup {NoEnumeration}
      /\ \A h \in Gateway : builders'[h].table \in Tables
      /\ \/ persistent' = persistent /\ writing' = "Idle"
         \/ persistent' \in PersistentState /\ writing' = "Create"
  BY <1>1, <1>2, <1>3, <1>4, <1>5 DEF Learned
<1> QED
  BY <1>6 DEF Calls

LEMMA FreshTypes ==
  ASSUME Fresh
  PROVE  /\ enumeration' = NoEnumeration
         /\ \A g \in Gateway : builders'[g].table \in Tables
         /\ writing' = "Idle" /\ writing' \in Calls
BY EmptyIsTable DEF Fresh, NewBuilder, Calls

LEMMA FileStepKeepsTypes ==
  ASSUME ObserverTypeOK, Start \/ StartUnread \/ Stop \/ Written
  PROVE  ObserverTypeOK'
<1> USE DEF ObserverTypeOK
<1>1. CASE Start
  <2>1. persistent' \in PersistentState
    BY <1>1, EmptyIsState DEF Start, Contents
  <2> QED
    BY <1>1, <2>1, FreshTypes DEF Start
<1>2. CASE StartUnread
  BY <1>2, EmptyIsState, FreshTypes DEF StartUnread, Fail
<1>3. CASE Stop
  BY <1>3, EmptyIsState, FreshTypes DEF Stop
<1>4. CASE CreateTmp
  BY <1>4 DEF CreateTmp, Proceed, Calls, Contents
<1>5. CASE WriteTmp
  BY <1>5 DEF WriteTmp, Proceed, Calls, Contents
<1>6. CASE FlushTmp
  BY <1>6 DEF FlushTmp, Proceed, Calls
<1>7. CASE RenameTmp
  BY <1>7 DEF RenameTmp, Calls, Contents
<1>8. CASE WriteFails
  BY <1>8 DEF WriteFails, Fail, Calls
<1> QED
  BY <1>1, <1>2, <1>3, <1>4, <1>5, <1>6, <1>7, <1>8 DEF Written

LEMMA ObserverStepKeepsTypes ==
  ASSUME ObserverTypeOK, [ObserverNext]_observerVars
  PROVE  ObserverTypeOK'
<1>1. CASE UNCHANGED observerVars
  BY <1>1 DEF observerVars, ObserverTypeOK
<1> QED
  BY <1>1, LearnKeepsTypes, FileStepKeepsTypes DEF ObserverNext

LEMMA ObserverTypesInitially ==
  ASSUME ObserverInit
  PROVE  ObserverTypeOK
BY EmptyIsState, EmptyIsTable DEF ObserverInit, ObserverTypeOK, NewBuilder, Calls, Contents

(***************************************************************************)
(* The invariant, if the two paths differ.                                 *)
(***************************************************************************)
LEMMA ObserverInitially ==
  ASSUME ObserverInit
  PROVE  ObserverInv
<1>1. ObserverTypeOK
  BY ObserverTypesInitially
<1> QED
  BY <1>1, ObserverSentinels
     DEF ObserverInit, ObserverInv, TmpIsCurrent, WritesAtomically, StateIsSaved

LEMMA ObserverStep ==
  ASSUME File # Tmp, ObserverInv, [ObserverNext]_observerVars
  PROVE  ObserverInv'
<1> USE DEF ObserverInv
<1>1. ObserverTypeOK'
  BY ObserverStepKeepsTypes
<1>2. disk \in [{File, Tmp} -> Contents] /\ persistent \in PersistentState
  BY DEF ObserverTypeOK
<1>3. TmpIsCurrent' /\ WritesAtomically' /\ StateIsSaved'
  <2> USE DEF TmpIsCurrent, WritesAtomically, StateIsSaved
  <2>1. CASE UNCHANGED observerVars
    BY <2>1 DEF observerVars
  <2>2. CASE Learned
    BY <2>2, LearnKeepsTypes
  <2>3. CASE Start
    BY <2>3 DEF Start, Fresh
  <2>4. CASE StartUnread
    BY <2>4 DEF StartUnread, Fresh, Fail
  <2>5. CASE Stop
    BY <2>5 DEF Stop, Fresh
  <2>6. CASE CreateTmp
    BY <1>2, <2>6 DEF CreateTmp, Proceed
  <2>7. CASE WriteTmp
    BY <1>2, <2>7 DEF WriteTmp, Proceed
  <2>8. CASE FlushTmp
    BY <2>8 DEF FlushTmp, Proceed
  <2>9. CASE RenameTmp
    BY <1>2, <2>9, ObserverSentinels DEF RenameTmp
  <2>10. CASE WriteFails
    BY <2>10 DEF WriteFails, Fail
  <2> QED
    BY <2>1, <2>2, <2>3, <2>4, <2>5, <2>6, <2>7, <2>8, <2>9, <2>10 DEF ObserverNext, Written
<1> QED
  BY <1>1, <1>3

THEOREM ObserverInvariant ==
  ASSUME File # Tmp
  PROVE  ObserverSpec => []ObserverInv
<1>1. ObserverInit => ObserverInv
  BY ObserverInitially
<1>2. ObserverInv /\ [ObserverNext]_observerVars => ObserverInv'
  BY ObserverStep
<1> QED
  BY <1>1, <1>2, PTL DEF ObserverSpec

(***************************************************************************)
(* The observer's fields and its files have the types of their             *)
(* declarations (observer.rs:45), also if the two paths are the same.      *)
(***************************************************************************)
THEOREM ObserverTypesCorrect == ObserverSpec => []ObserverTypeOK
<1>1. ObserverInit => ObserverTypeOK
  BY ObserverTypesInitially
<1>2. ObserverTypeOK /\ [ObserverNext]_observerVars => ObserverTypeOK'
  BY ObserverStepKeepsTypes
<1> QED
  BY <1>1, <1>2, PTL DEF ObserverSpec

(***************************************************************************)
(* The persistent file is never cut off (observer.rs:117).                 *)
(***************************************************************************)
THEOREM AtomicityCorrect ==
  ASSUME File # Tmp
  PROVE  ObserverSpec => []WritesAtomically
<1>1. ObserverInv => WritesAtomically
  BY DEF ObserverInv
<1> QED
  BY <1>1, ObserverInvariant, PTL

(***************************************************************************)
(* Between calls the file holds the persistent state (observer.rs:118).    *)
(***************************************************************************)
THEOREM SavingCorrect ==
  ASSUME File # Tmp
  PROVE  ObserverSpec => []StateIsSaved
<1>1. ObserverInv => StateIsSaved
  BY DEF ObserverInv
<1> QED
  BY <1>1, ObserverInvariant, PTL

(***************************************************************************)
(* Every step of the observer is one of DurableState, or none: a rename    *)
(* saves, a method learns, and the other calls of the file system change   *)
(* nothing.                                                                *)
(***************************************************************************)
LEMMA DurableStep ==
  ASSUME File # Tmp, ObserverInv, ObserverInv', [ObserverNext]_observerVars
  PROVE  [Durable!DurableNext]_<<persistent, IF disk[File] = Absent THEN EmptyState
                                              ELSE disk[File], running>>
<1> USE DEF ObserverInv
<1>1. /\ disk \in [{File, Tmp} -> Contents]
      /\ persistent \in PersistentState /\ persistent' \in PersistentState
  BY DEF ObserverTypeOK
<1>2. CASE UNCHANGED observerVars
  BY <1>2 DEF observerVars
<1>3. CASE Learned
  BY <1>1, <1>3, LearnKeepsTypes DEF Durable!DurableNext, Durable!Learn
<1>4. CASE Start
  BY <1>4 DEF Start, WritesAtomically, Durable!DurableNext, Durable!Restart
<1>5. CASE StartUnread
  BY <1>5 DEF StartUnread, Durable!DurableNext, Durable!Restart
<1>6. CASE Stop
  BY <1>6 DEF Stop, Durable!DurableNext, Durable!Crash
<1>7. CASE CreateTmp \/ WriteTmp
  BY <1>1, <1>7 DEF CreateTmp, WriteTmp, Proceed
<1>8. CASE FlushTmp \/ WriteFails
  BY <1>8 DEF FlushTmp, Proceed, WriteFails
<1>9. CASE RenameTmp
  <2>1. disk'[File] = persistent /\ persistent # Absent
    BY <1>1, <1>9, ObserverSentinels DEF RenameTmp, TmpIsCurrent
  <2> QED
    BY <1>9, <2>1 DEF RenameTmp, Durable!DurableNext, Durable!Save
<1> QED
  BY <1>2, <1>3, <1>4, <1>5, <1>6, <1>7, <1>8, <1>9 DEF ObserverNext, Written

(***************************************************************************)
(* The observer implements DurableState (observer.rs:77, 118).             *)
(***************************************************************************)
THEOREM ObserverIsDurable ==
  ASSUME File # Tmp
  PROVE  ObserverSpec => DurableSpec
<1>1. ObserverInit => Durable!DurableInit
  BY DEF ObserverInit, Durable!DurableInit
<1>2. ObserverInv /\ ObserverInv' /\ [ObserverNext]_observerVars
        => [Durable!DurableNext]_<<persistent, IF disk[File] = Absent THEN EmptyState
                                                ELSE disk[File], running>>
  BY DurableStep
<1> QED
  BY <1>1, <1>2, ObserverInvariant, PTL DEF ObserverSpec, DurableSpec, Durable!DurableSpec
-----------------------------------------------------------------------------
\* What the ids of the network are in each phase.
NetworkInv ==
  /\ at \in Temporary
  /\ ids \in [Address -> Permanent \cup {at}]
  /\ \A a, b \in Address : ids[a] = ids[b] => a = b \/ ids[a] = at
  /\ identified \subseteq Address /\ versioned \subseteq Address
  /\ \A a \in identified \cup versioned : ids[a] # at
  /\ phase = "Starting" => identified = {} /\ versioned = {}
  /\ faults \in Nat

\* An enumeration that was heard to start is the one under way.
StartInv ==
  heard # "Nothing" =>
    /\ phase # "Quiet" /\ running
    /\ enumeration \in Enumerations
    /\ enumeration.at = at

\* What was answered so far is collected, if nothing was missed.
CollectedInv ==
  heard = "All" =>
    /\ at \notin DOMAIN enumeration.identities
    /\ \A a \in identified :
         /\ ids[a] \in DOMAIN enumeration.identities
         /\ enumeration.identities[ids[a]] = a
    /\ \A a \in versioned :
         /\ ids[a] \in DOMAIN enumeration.versions
         /\ enumeration.versions[ids[a]] = VersionOf[a]

HeardInv == StartInv /\ CollectedInv

\* The inductive invariant.
EnumerationInv == NetworkInv /\ HeardInv

(***************************************************************************)
(* The network.                                                            *)
(***************************************************************************)
LEMMA FallBackKeepsNetwork ==
  ASSUME NEW g \in Temporary, FallBack(g), faults' \in Nat
  PROVE  NetworkInv'
BY DEF FallBack, NetworkInv

LEMMA AssignedKeepsNetwork ==
  ASSUME NetworkInv, NEW a \in Address, NEW g, g \in Free,
         at' = at, ids' = [ids EXCEPT ![a] = g],
         phase' # "Starting",
         identified' \subseteq identified \ {a}, versioned' \subseteq versioned \ {a},
         faults' \in Nat
  PROVE  NetworkInv'
<1>1. g \in Permanent /\ g # at /\ \A b \in Address : ids[b] # g
  BY EnumerationConstants DEF Free, Permanent, NetworkInv
<1> QED
  BY <1>1 DEF NetworkInv

LEMMA UnheardFaults ==
  ASSUME faults \in Nat, Unheard
  PROVE  faults' \in Nat /\ UNCHANGED observerVars /\ (running => faults' # faults)
BY DEF Unheard, Fault

LEMMA NetworkStep ==
  ASSUME NetworkInv, EnumerationNext
  PROVE  NetworkInv'
<1>0. faults \in Nat
  BY DEF NetworkInv
<1>1. ASSUME NEW g \in Temporary, StartEnumeration(g) \/ BreakOff(g)
      PROVE  NetworkInv'
  BY <1>0, <1>1, FallBackKeepsNetwork, UnheardFaults DEF StartEnumeration, BreakOff, Fault
<1>2. ASSUME NEW a \in Address, NEW g \in Permanent, Enumerate(a, g)
      PROVE  NetworkInv'
  <2>1. a \notin identified \cup versioned
    BY <1>2 DEF Enumerate, NetworkInv
  <2>2. faults' \in Nat
    BY <1>0, <1>2, UnheardFaults DEF Enumerate
  <2>3. /\ g \in Free
        /\ at' = at /\ ids' = [ids EXCEPT ![a] = g] /\ phase' # "Starting"
        /\ identified' \subseteq identified \ {a} /\ versioned' \subseteq versioned \ {a}
    BY <1>2, <2>1 DEF Enumerate
  <2> QED
    BY <2>2, <2>3, AssignedKeepsNetwork
<1>3. ASSUME NEW a \in Address, NEW g \in Permanent, Reassign(a, g)
      PROVE  NetworkInv'
  BY <1>0, <1>3, AssignedKeepsNetwork DEF Reassign
<1>4. ASSUME NEW a \in Address, Identify(a) \/ TellVersion(a)
      PROVE  NetworkInv'
  <2>1. faults' \in Nat
    BY <1>0, <1>4, UnheardFaults DEF Identify, TellVersion
  <2> QED
    BY <1>4, <2>1 DEF Identify, TellVersion, NetworkInv
<1>5. CASE RepeatStart
  <2>1. faults' \in Nat
    BY <1>0, <1>5, UnheardFaults DEF RepeatStart
  <2> QED
    BY <1>5, <2>1 DEF RepeatStart, networkVars, NetworkInv
<1>6. CASE End
  <2>1. faults' \in Nat
    BY <1>0, <1>6, UnheardFaults DEF End
  <2> QED
    BY <1>6, <2>1 DEF End, NetworkInv
<1>7. CASE StopObserver
  BY <1>0, <1>7 DEF StopObserver, Fault, networkVars, NetworkInv
<1>8. CASE StartObserver \/ WriteState
  BY <1>8 DEF StartObserver, WriteState, networkVars, NetworkInv
<1>9. ASSUME NEW a \in Address, NEW start, NEW page, Page(a, start, page)
      PROVE  NetworkInv'
  BY <1>9 DEF Page, networkVars, NetworkInv
<1> QED
  BY <1>1, <1>2, <1>3, <1>4, <1>5, <1>6, <1>7, <1>8, <1>9
     DEF EnumerationNext, Enumerating, Detour

(***************************************************************************)
(* The observer beside it.  Every step here is a step of the observer or   *)
(* none of its own.                                                        *)
(***************************************************************************)
LEMMA UnheardIsStutter ==
  ASSUME Unheard
  PROVE  [ObserverNext]_observerVars
BY DEF Unheard

LEMMA StepIsObservers ==
  ASSUME NetworkInv, EnumerationNext
  PROVE  [ObserverNext]_observerVars
<1>0. /\ Temporary \subseteq Gateway /\ Permanent \subseteq Gateway
      /\ at \in Gateway
      /\ \A a \in Address : ids[a] \in Gateway /\ VersionOf[a] \in Version
  BY EnumerationConstants DEF NetworkInv, Permanent
<1>1. ASSUME NEW g \in Temporary, StartEnumeration(g) \/ BreakOff(g)
      PROVE  [ObserverNext]_observerVars
  BY <1>0, <1>1, UnheardIsStutter DEF StartEnumeration, BreakOff, ObserverNext, Learned
<1>2. ASSUME NEW a \in Address, NEW g \in Permanent, Enumerate(a, g)
      PROVE  [ObserverNext]_observerVars
  BY <1>0, <1>2, UnheardIsStutter DEF Enumerate, ObserverNext, Learned
<1>3. ASSUME NEW a \in Address, NEW g \in Permanent, Reassign(a, g)
      PROVE  [ObserverNext]_observerVars
  BY <1>3 DEF Reassign
<1>4. ASSUME NEW a \in Address, Identify(a) \/ TellVersion(a)
      PROVE  [ObserverNext]_observerVars
  BY <1>0, <1>4, UnheardIsStutter DEF Identify, TellVersion, ObserverNext, Learned
<1>5. CASE RepeatStart
  BY <1>0, <1>5, UnheardIsStutter DEF RepeatStart, ObserverNext, Learned
<1>6. CASE End
  BY <1>6, UnheardIsStutter DEF End, EndObserved, ObserverNext, Learned
<1>7. CASE StopObserver \/ StartObserver \/ WriteState
  BY <1>7 DEF StopObserver, StartObserver, WriteState, ObserverNext
<1>8. ASSUME NEW a \in Address, NEW start \in 0..MaxNode, NEW page \in PagesHeard,
             Page(a, start, page)
      PROVE  [ObserverNext]_observerVars
  BY <1>0, <1>8 DEF Page, ObserverNext, Learned
<1> QED
  BY <1>1, <1>2, <1>3, <1>4, <1>5, <1>6, <1>7, <1>8
     DEF EnumerationNext, Enumerating, Detour

(***************************************************************************)
(* What one call does while an enumeration is open (observer.rs:198).      *)
(***************************************************************************)
LEMMA StartedOpens ==
  ASSUME NEW g \in Gateway, EnumerationStarted(g)
  PROVE  /\ running' /\ UNCHANGED persistent
         /\ enumeration' = [at |-> g, identities |-> <<>>, versions |-> <<>>]
         /\ enumeration' \in Enumerations
<1>1. [at |-> g, identities |-> <<>>, versions |-> <<>>] \in Enumerations
  BY KnownEmpty DEF Enumerations
<1> QED
  BY <1>1 DEF EnumerationStarted, Called

LEMMA IdentityIsCollected ==
  ASSUME enumeration \in Enumerations, NEW g \in Gateway, NEW a \in Address,
         IdentityObserved(g, a)
  PROVE  /\ running' /\ UNCHANGED persistent
         /\ enumeration' \in Enumerations
         /\ enumeration'.at = enumeration.at
         /\ enumeration'.versions = enumeration.versions
         /\ enumeration'.identities = IF g = enumeration.at THEN enumeration.identities
                                      ELSE Insert(enumeration.identities, g, a)
<1>1. Insert(enumeration.identities, g, a) \in Known(Address)
  BY KnownInsert DEF Enumerations
<1>2. [enumeration EXCEPT !.identities = Insert(@, g, a)] \in Enumerations
  BY <1>1 DEF Enumerations
<1>3. /\ running' /\ UNCHANGED persistent
      /\ enumeration' = IF g = enumeration.at THEN enumeration
                        ELSE [enumeration EXCEPT !.identities = Insert(@, g, a)]
  BY ObserverSentinels DEF IdentityObserved, Called
<1> QED
  BY <1>2, <1>3 DEF Enumerations

LEMMA VersionIsCollected ==
  ASSUME enumeration \in Enumerations, NEW g \in Gateway, NEW v \in Version,
         VersionObserved(g, v)
  PROVE  /\ running' /\ UNCHANGED persistent
         /\ enumeration' \in Enumerations
         /\ enumeration'.at = enumeration.at
         /\ enumeration'.identities = enumeration.identities
         /\ enumeration'.versions = Insert(enumeration.versions, g, v)
<1>1. Insert(enumeration.versions, g, v) \in Known(Version)
  BY KnownInsert DEF Enumerations
<1>2. [enumeration EXCEPT !.versions = Insert(@, g, v)] \in Enumerations
  BY <1>1 DEF Enumerations
<1>3. /\ running' /\ UNCHANGED persistent
      /\ enumeration' = [enumeration EXCEPT !.versions = Insert(@, g, v)]
  BY ObserverSentinels DEF VersionObserved, Called
<1> QED
  BY <1>2, <1>3 DEF Enumerations

(***************************************************************************)
(* What is collected, by action.                                           *)
(***************************************************************************)
LEMMA StartIsHeard ==
  ASSUME NEW g \in Gateway, EnumerationStarted(g), at' = g, phase' # "Quiet",
         identified' = {}, versioned' = {}
  PROVE  HeardInv'
<1>1. DOMAIN <<>> = {}
  OBVIOUS
<1>2. enumeration'.at = g /\ enumeration'.identities = <<>>
  BY StartedOpens
<1> QED
  BY <1>1, <1>2, StartedOpens DEF HeardInv, StartInv, CollectedInv

LEMMA MissedIsHeard ==
  ASSUME HeardInv, phase # "Quiet" => phase' # "Quiet", at' = at,
         UNCHANGED observerVars, Missed
  PROVE  HeardInv'
<1>1. heard' # "All" /\ (heard' # "Nothing" => heard # "Nothing")
  BY DEF Missed
<1>2. UNCHANGED <<running, enumeration>>
  BY DEF observerVars
<1> QED
  BY <1>1, <1>2 DEF HeardInv, StartInv, CollectedInv

LEMMA EnumerateIsHeard ==
  ASSUME NetworkInv, HeardInv, NEW a \in Address, NEW g \in Permanent, Enumerate(a, g)
  PROVE  HeardInv'
<1>1. CASE Unheard /\ Missed
  BY <1>1, MissedIsHeard DEF Enumerate, Unheard
<1>2. CASE IdentityObserved(at, a) /\ UNCHANGED <<faults, heard>>
  <2> SUFFICES ASSUME heard # "Nothing" PROVE HeardInv'
    BY <1>2 DEF HeardInv, StartInv, CollectedInv
  <2>1. at \in Gateway
    BY EnumerationConstants DEF NetworkInv
  <2>2. /\ running' /\ enumeration' \in Enumerations
        /\ enumeration'.at = at
        /\ enumeration'.identities = enumeration.identities
        /\ enumeration'.versions = enumeration.versions
    BY <1>2, <2>1, IdentityIsCollected DEF HeardInv, StartInv
  <2>3. StartInv'
    BY <1>2, <2>2 DEF Enumerate, StartInv
  <2>4. CollectedInv'
    <3>1. \A b \in identified \cup versioned : ids'[b] = ids[b]
      BY DEF Enumerate, NetworkInv
    <3> QED
      BY <1>2, <2>2, <3>1 DEF Enumerate, HeardInv, CollectedInv
  <2> QED
    BY <2>3, <2>4 DEF HeardInv
<1> QED
  BY <1>1, <1>2 DEF Enumerate

LEMMA ReassignIsHeard ==
  ASSUME NetworkInv, HeardInv, NEW a \in Address, NEW g \in Permanent, Reassign(a, g)
  PROVE  HeardInv'
<1>1. UNCHANGED <<running, enumeration, phase, at, heard>>
  BY DEF Reassign, observerVars
<1>2. /\ identified' = identified \ {a} /\ versioned' = versioned \ {a}
      /\ \A b \in Address \ {a} : ids'[b] = ids[b]
  BY DEF Reassign, NetworkInv
<1> QED
  BY <1>1, <1>2 DEF NetworkInv, HeardInv, StartInv, CollectedInv

\* Other gateways answer at other ids.
LEMMA OthersElsewhere ==
  ASSUME NetworkInv, NEW a \in Address, ids[a] # at
  PROVE  \A b \in Address : b # a => ids[b] # ids[a]
BY DEF NetworkInv

LEMMA IdentifyIsHeard ==
  ASSUME NetworkInv, HeardInv, NEW a \in Address, Identify(a)
  PROVE  HeardInv'
<1>1. CASE Unheard /\ Missed
  BY <1>1, MissedIsHeard DEF Identify, Unheard
<1>2. CASE IdentityObserved(ids[a], a) /\ UNCHANGED <<faults, heard>>
  <2> SUFFICES ASSUME heard # "Nothing" PROVE HeardInv'
    BY <1>2 DEF HeardInv, StartInv, CollectedInv
  <2>1. ids[a] \in Gateway /\ ids[a] # at
    BY EnumerationConstants DEF NetworkInv, Permanent, Identify
  <2>2. /\ running' /\ enumeration' \in Enumerations
        /\ enumeration'.at = at
        /\ enumeration'.identities = Insert(enumeration.identities, ids[a], a)
        /\ enumeration'.versions = enumeration.versions
    BY <1>2, <2>1, IdentityIsCollected DEF HeardInv, StartInv
  <2>3. StartInv'
    BY <1>2, <2>2 DEF Identify, StartInv, HeardInv
  <2>4. CollectedInv'
    <3>1. UNCHANGED <<at, ids, versioned, heard>> /\ identified' = identified \cup {a}
      BY <1>2 DEF Identify
    <3> SUFFICES ASSUME heard = "All" PROVE CollectedInv'
      BY <3>1 DEF CollectedInv
    <3>2. at \notin DOMAIN enumeration'.identities
      BY <2>1, <2>2 DEF Insert, HeardInv, CollectedInv
    <3>3. ASSUME NEW b \in identified'
          PROVE  ids[b] \in DOMAIN enumeration'.identities /\ enumeration'.identities[ids[b]] = b
      BY <2>1, <2>2, <3>1, OthersElsewhere DEF Insert, HeardInv, CollectedInv, NetworkInv
    <3> QED
      BY <2>2, <3>1, <3>2, <3>3 DEF HeardInv, CollectedInv
  <2> QED
    BY <2>3, <2>4 DEF HeardInv
<1> QED
  BY <1>1, <1>2 DEF Identify

LEMMA VersionIsHeard ==
  ASSUME NetworkInv, HeardInv, NEW a \in Address, TellVersion(a)
  PROVE  HeardInv'
<1>1. CASE Unheard /\ Missed
  BY <1>1, MissedIsHeard DEF TellVersion, Unheard
<1>2. CASE VersionObserved(ids[a], VersionOf[a]) /\ UNCHANGED <<faults, heard>>
  <2> SUFFICES ASSUME heard # "Nothing" PROVE HeardInv'
    BY <1>2 DEF HeardInv, StartInv, CollectedInv
  <2>1. ids[a] \in Gateway /\ ids[a] # at /\ VersionOf[a] \in Version
    BY EnumerationConstants DEF NetworkInv, Permanent, TellVersion
  <2>2. /\ running' /\ enumeration' \in Enumerations
        /\ enumeration'.at = at
        /\ enumeration'.identities = enumeration.identities
        /\ enumeration'.versions = Insert(enumeration.versions, ids[a], VersionOf[a])
    BY <1>2, <2>1, VersionIsCollected DEF HeardInv, StartInv
  <2>3. StartInv'
    BY <1>2, <2>2 DEF TellVersion, StartInv, HeardInv
  <2>4. CollectedInv'
    <3>1. UNCHANGED <<at, ids, identified, heard>> /\ versioned' = versioned \cup {a}
      BY <1>2 DEF TellVersion
    <3> SUFFICES ASSUME heard = "All" PROVE CollectedInv'
      BY <3>1 DEF CollectedInv
    <3>2. ASSUME NEW b \in versioned'
          PROVE  /\ ids[b] \in DOMAIN enumeration'.versions
                 /\ enumeration'.versions[ids[b]] = VersionOf[b]
      BY <2>1, <2>2, <3>1, OthersElsewhere DEF Insert, HeardInv, CollectedInv, NetworkInv
    <3> QED
      BY <2>2, <3>1, <3>2 DEF HeardInv, CollectedInv
  <2> QED
    BY <2>3, <2>4 DEF HeardInv
<1> QED
  BY <1>1, <1>2 DEF TellVersion

LEMMA HeardStep ==
  ASSUME NetworkInv, HeardInv, EnumerationNext
  PROVE  HeardInv'
<1>0. Temporary \subseteq Gateway /\ at \in Gateway
  BY EnumerationConstants DEF NetworkInv
<1>1. ASSUME NEW g \in Temporary, StartEnumeration(g) \/ BreakOff(g)
      PROVE  HeardInv'
  <2>1. CASE EnumerationStarted(g)
    BY <1>0, <1>1, <2>1, StartIsHeard DEF StartEnumeration, BreakOff, FallBack
  <2>2. CASE heard' = "Nothing"
    BY <2>2 DEF HeardInv, StartInv, CollectedInv
  <2> QED
    BY <1>1, <2>1, <2>2 DEF StartEnumeration, BreakOff
<1>2. ASSUME NEW a \in Address, NEW g \in Permanent, Enumerate(a, g) \/ Reassign(a, g)
      PROVE  HeardInv'
  BY <1>2, EnumerateIsHeard, ReassignIsHeard
<1>3. ASSUME NEW a \in Address, Identify(a) \/ TellVersion(a)
      PROVE  HeardInv'
  BY <1>3, IdentifyIsHeard, VersionIsHeard
<1>4. CASE RepeatStart
  <2>1. CASE EnumerationStarted(at)
    BY <1>0, <1>4, <2>1, StartIsHeard DEF RepeatStart, networkVars, NetworkInv
  <2>2. CASE UNCHANGED <<observerVars, networkVars, heard>>
    BY <2>2 DEF observerVars, networkVars, HeardInv, StartInv, CollectedInv
  <2> QED
    BY <1>4, <2>1, <2>2 DEF RepeatStart, Unheard
<1>5. CASE End \/ StopObserver
  BY <1>5 DEF End, StopObserver, HeardInv, StartInv, CollectedInv
<1>6. CASE StartObserver
  BY <1>6 DEF StartObserver, Start, StartUnread, HeardInv, StartInv, CollectedInv
<1>7. CASE WriteState
  <2>1. UNCHANGED <<running, enumeration>>
    BY <1>7 DEF WriteState, Written, CreateTmp, WriteTmp, FlushTmp, Proceed, RenameTmp, WriteFails
  <2> QED
    BY <1>7, <2>1 DEF WriteState, networkVars, HeardInv, StartInv, CollectedInv
<1>8. ASSUME NEW a \in Address, NEW start, NEW page, Page(a, start, page)
      PROVE  HeardInv'
  BY <1>8 DEF Page, networkVars, HeardInv, StartInv, CollectedInv
<1> QED
  BY <1>1, <1>2, <1>3, <1>4, <1>5, <1>6, <1>7, <1>8
     DEF EnumerationNext, Enumerating, Detour
-----------------------------------------------------------------------------
LEMMA EnumerationInitially ==
  ASSUME EnumerationInit
  PROVE  EnumerationInv
<1>1. NetworkInv
  BY DEF EnumerationInit, NetworkInv, Permanent
<1>2. HeardInv
  BY DEF EnumerationInit, HeardInv, StartInv, CollectedInv
<1> QED
  BY <1>1, <1>2 DEF EnumerationInv

LEMMA EnumerationStep ==
  ASSUME EnumerationInv, [EnumerationNext]_enumerationVars
  PROVE  EnumerationInv'
<1>1. CASE EnumerationNext
  BY <1>1, NetworkStep, HeardStep DEF EnumerationInv
<1>2. CASE UNCHANGED enumerationVars
  BY <1>2 DEF EnumerationInv, enumerationVars, networkVars, observerVars, NetworkInv,
              HeardInv, StartInv, CollectedInv
<1> QED
  BY <1>1, <1>2

THEOREM EnumerationInvariant == EnumerationSpec => []EnumerationInv
<1>1. EnumerationInit => EnumerationInv
  BY EnumerationInitially
<1>2. EnumerationInv /\ [EnumerationNext]_enumerationVars => EnumerationInv'
  BY EnumerationStep
<1> QED
  BY <1>1, <1>2, PTL DEF EnumerationSpec

(***************************************************************************)
(* Whatever the controller, the gateways and the faults do, the observer   *)
(* is the one of module Observer.                                          *)
(***************************************************************************)
THEOREM EnumerationIsObserver == EnumerationSpec => ObserverSpec
<1>1. EnumerationInit => ObserverInit
  BY DEF EnumerationInit
<1>2. EnumerationInv /\ [EnumerationNext]_enumerationVars => [ObserverNext]_observerVars
  BY StepIsObservers DEF EnumerationInv, enumerationVars
<1> QED
  BY <1>1, <1>2, EnumerationInvariant, PTL DEF EnumerationSpec, ObserverSpec

(***************************************************************************)
(* A step from hearing the start to before the end changes nothing.        *)
(***************************************************************************)
LEMMA HalfwayStep ==
  ASSUME EnumerationInv, EnumerationNext,
         phase # "Quiet", phase' # "Quiet", heard # "Nothing", running'
  PROVE  UNCHANGED persistent
<1>1. /\ running /\ enumeration \in Enumerations
      /\ Temporary \subseteq Gateway /\ at \in Gateway
      /\ \A a \in Address : ids[a] \in Gateway /\ VersionOf[a] \in Version
  BY EnumerationConstants DEF EnumerationInv, NetworkInv, Permanent, HeardInv, StartInv
<1>2. ASSUME Unheard
      PROVE  UNCHANGED persistent
  BY <1>2 DEF Unheard, observerVars
<1>3. ASSUME NEW g \in Temporary, StartEnumeration(g) \/ BreakOff(g)
      PROVE  UNCHANGED persistent
  BY <1>1, <1>3, StartedOpens DEF StartEnumeration, BreakOff
<1>4. ASSUME NEW a \in Address, NEW g \in Permanent, Enumerate(a, g)
      PROVE  UNCHANGED persistent
  BY <1>1, <1>2, <1>4, IdentityIsCollected DEF Enumerate
<1>5. ASSUME NEW a \in Address, NEW g \in Permanent, Reassign(a, g)
      PROVE  UNCHANGED persistent
  BY <1>5 DEF Reassign, observerVars
<1>6. ASSUME NEW a \in Address, Identify(a)
      PROVE  UNCHANGED persistent
  BY <1>1, <1>2, <1>6, IdentityIsCollected DEF Identify
<1>7. ASSUME NEW a \in Address, TellVersion(a)
      PROVE  UNCHANGED persistent
  BY <1>1, <1>2, <1>7, VersionIsCollected DEF TellVersion
<1>8. CASE RepeatStart
  BY <1>1, <1>2, <1>8, StartedOpens DEF RepeatStart
<1>9. CASE WriteState
  BY <1>9 DEF WriteState, Written, CreateTmp, WriteTmp, FlushTmp, Proceed, RenameTmp, WriteFails
<1>10. ~End /\ \A a, start, page : ~Page(a, start, page)
  BY DEF End, Page
<1>11. ~StopObserver /\ ~StartObserver
  BY <1>1 DEF StopObserver, Stop, StartObserver, Start, StartUnread
<1> QED
  BY <1>3, <1>4, <1>5, <1>6, <1>7, <1>8, <1>9, <1>10, <1>11
     DEF EnumerationNext, Enumerating, Detour

(***************************************************************************)
(* "Discard this response, since we'll get a persistent one shortly"       *)
(* (observer.rs:367): nothing is learned from half an enumeration.         *)
(***************************************************************************)
THEOREM NothingLearnedHalfwayCorrect == EnumerationSpec => NothingIsLearnedHalfway
<1>1. EnumerationInv /\ [EnumerationNext]_enumerationVars
      => [ (phase # "Quiet" /\ phase' # "Quiet" /\ heard # "Nothing" /\ running')
           => UNCHANGED persistent ]_enumerationVars
  BY HalfwayStep
<1> QED
  BY <1>1, EnumerationInvariant, PTL DEF EnumerationSpec, NothingIsLearnedHalfway

(***************************************************************************)
(* The end of an enumeration that was heard whole.                         *)
(***************************************************************************)
LEMMA OnlyEndEnds ==
  ASSUME EnumerationNext, phase = "Enumerating", phase' = "Quiet"
  PROVE  End
<1>1. \A g : ~StartEnumeration(g) /\ ~BreakOff(g)
  BY DEF StartEnumeration, BreakOff, FallBack
<1>2. \A a, g : ~Enumerate(a, g) /\ ~Reassign(a, g)
  BY DEF Enumerate, Reassign
<1>3. \A a : ~Identify(a) /\ ~TellVersion(a)
  BY DEF Identify, TellVersion
<1>4. ~RepeatStart /\ ~StopObserver /\ ~StartObserver /\ ~WriteState
  BY DEF RepeatStart, StopObserver, StartObserver, WriteState, networkVars
<1>5. \A a, start, page : ~Page(a, start, page)
  BY DEF Page, networkVars
<1> QED
  BY <1>1, <1>2, <1>3, <1>4, <1>5 DEF EnumerationNext, Enumerating, Detour

LEMMA EndStep ==
  ASSUME EnumerationInv, ObserverTypeOK, EnumerationNext,
         phase = "Enumerating", phase' = "Quiet", heard = "All", faults' = faults
  PROVE  Describes(InfrastructureReport(persistent))'
<1>1. End
  BY OnlyEndEnds
<1>2. /\ running /\ enumeration \in Enumerations /\ faults \in Nat
      /\ at \notin DOMAIN enumeration.identities
      /\ \A a \in Address :
           /\ ids[a] \in DOMAIN enumeration.identities
           /\ enumeration.identities[ids[a]] = a
           /\ ids[a] \in DOMAIN enumeration.versions
           /\ enumeration.versions[ids[a]] = VersionOf[a]
  BY <1>1 DEF End, EnumerationInv, NetworkInv, HeardInv, StartInv, CollectedInv
<1>3. EnumerationEnded /\ UNCHANGED <<at, ids>>
  BY <1>1, <1>2, UnheardFaults, ObserverSentinels DEF End, EndObserved
<1>4. /\ persistent'.identities = enumeration.identities
      /\ persistent'.versions = enumeration.versions
  <2>1. persistent \in PersistentState
    BY DEF ObserverTypeOK
  <2> QED
    BY <1>3, <2>1 DEF EnumerationEnded, Changed, PersistentState
<1> QED
  BY <1>2, <1>3, <1>4 DEF Describes, InfrastructureReport

(***************************************************************************)
(* "We're done enumerating.  Did we catch the whole exchange?"             *)
(* (observer.rs:236): what is known then is the network, whatever was      *)
(* known, open or under way before.                                        *)
(***************************************************************************)
THEOREM HeardEnumerationCorrect == EnumerationSpec => HeardEnumerationIsLearned
<1>1. EnumerationInv /\ ObserverTypeOK /\ [EnumerationNext]_enumerationVars
      => [ (/\ phase = "Enumerating" /\ phase' = "Quiet"
            /\ heard = "All"
            /\ faults' = faults)
           => Describes(InfrastructureReport(persistent))' ]_enumerationVars
  BY EndStep
<1> QED
  BY <1>1, EnumerationInvariant, EnumerationIsObserver, ObserverTypesCorrect, PTL
     DEF EnumerationSpec, HeardEnumerationIsLearned
=============================================================================
