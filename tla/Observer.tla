------------------------------ MODULE Observer ------------------------------
(***************************************************************************)
(* The observer (observer.rs): it collects what the receivers report about *)
(* the network, keeps gateway identities, gateway versions and node tables *)
(* in its persistent state, and writes that state to a file after each     *)
(* change, through a temporary file that is renamed into place.            *)
(*                                                                         *)
(* One action is one call of the observer, or one call of the file system  *)
(* it makes: only between those can the process be seen stopped.  Not in   *)
(* this module: slot clocks and power reports, which nothing here depends  *)
(* on, and the events printed with every write.                            *)
(***************************************************************************)
EXTENDS NodeTable, Functions

CONSTANTS
  Gateway,         \* GatewayID
  Version,         \* version strings
  PagesHeard,      \* the node table pages that are heard
  File,            \* the path persistent_file
  Tmp,             \* that path with the extension tmp, which can be the same
  Absent,          \* there is no such file
  Torn,            \* a file cut off before the end of its JSON
  NoEnumeration,   \* enumeration_state: None
  NoVersion,       \* the version reported where none is known: ""
  MaxFailures      \* bound: operations that fail

ASSUME ObserverConstants ==
  /\ PagesHeard \subseteq Pages
  /\ MaxFailures \in Nat

\* The maps from some of the gateways to a set.
Known(S) == UNION {[gateways -> S] : gateways \in SUBSET Gateway}

PersistentState ==
  [tables : Known(Tables), identities : Known(Address), versions : Known(Version)]

EmptyState == [tables |-> <<>>, identities |-> <<>>, versions |-> <<>>]

Enumerations ==
  [at : Gateway, identities : Known(Address), versions : Known(Version)]

ASSUME ObserverSentinels ==
  /\ Absent \notin PersistentState
  /\ Torn \notin PersistentState
  /\ Absent # Torn
  /\ NoEnumeration \notin Enumerations

\* PersistentStateEvent::from: what is printed of a state, whenever it was read
\* or changed.  A gateway is one whose identity is known.
InfrastructureReport(state) ==
  [gateways |-> [g \in DOMAIN state.identities |->
                   [address |-> state.identities[g],
                    version |-> IF g \in DOMAIN state.versions THEN state.versions[g]
                                ELSE NoVersion]],
   nodes |-> state.tables]

VARIABLES
  running,      \* whether the process runs
  persistent,   \* persistent_state
  enumeration,  \* enumeration_state
  builders,     \* node_table_builders; one there is not yet is a new one
  disk,         \* what the files at the two paths hold
  writing,      \* what write_persistent_state calls next
  failures,     \* history: the operations that failed so far
  unsaved       \* history: the last read or write of the file failed

observerVars ==
  <<running, persistent, enumeration, builders, disk, writing, failures, unsaved>>

Contents == PersistentState \cup {Absent, Torn}
Calls == {"Idle", "Create", "Write", "Flush", "Rename"}

Insert(m, k, v) == [x \in DOMAIN m \cup {k} |-> IF x = k THEN v ELSE m[x]]

Fresh ==
  /\ enumeration' = NoEnumeration
  /\ builders' = [g \in Gateway |-> NewBuilder]
  /\ writing' = "Idle"

ObserverInit ==
  /\ running = FALSE
  /\ persistent = EmptyState
  /\ enumeration = NoEnumeration
  /\ builders = [g \in Gateway |-> NewBuilder]
  /\ disk = [path \in {File, Tmp} |-> Absent]
  /\ writing = "Idle"
  /\ failures = 0
  /\ unsaved = FALSE

Fail ==
  /\ failures < MaxFailures
  /\ failures' = failures + 1
  /\ unsaved' = TRUE

(***************************************************************************)
(* Observer::new and read_persistent_state: a file that cannot be read or  *)
(* parsed is as good as none.                                              *)
(***************************************************************************)
Start ==
  /\ ~running
  /\ running' = TRUE
  /\ persistent' = IF disk[File] \in {Absent, Torn} THEN EmptyState ELSE disk[File]
  /\ unsaved' = (disk[File] = Torn)
  /\ Fresh
  /\ UNCHANGED <<disk, failures>>

StartUnread ==
  /\ ~running
  /\ disk[File] # Absent
  /\ Fail
  /\ running' = TRUE
  /\ persistent' = EmptyState
  /\ Fresh
  /\ UNCHANGED disk

\* The process ends, wherever it is: main exits or it is killed.
Stop ==
  /\ running
  /\ running' = FALSE
  /\ persistent' = EmptyState
  /\ Fresh
  /\ UNCHANGED <<disk, failures, unsaved>>

(***************************************************************************)
(* The observer's methods.  A change of the persistent state is followed   *)
(* by a write.                                                             *)
(***************************************************************************)
Called == running /\ writing = "Idle"

Changed(state) ==
  /\ persistent' = state
  /\ writing' = "Create"

EnumerationStarted(g) ==
  /\ Called
  /\ enumeration' = [at |-> g, identities |-> <<>>, versions |-> <<>>]
  /\ UNCHANGED <<running, persistent, builders, disk, writing, failures, unsaved>>

\* Mutant: an identity is accepted at once, whether or not there is an enumeration.
IdentityAccepted(g, a) ==
  /\ Called
  /\ Changed([persistent EXCEPT !.identities = Insert(@, g, a)])
  /\ UNCHANGED <<running, enumeration, builders, disk, failures, unsaved>>

\* While enumerating, an identity at the enumeration address is discarded.
IdentityObserved(g, a) ==
  /\ Called
  /\ \/ /\ enumeration # NoEnumeration
        /\ enumeration' =
             IF g = enumeration.at THEN enumeration
             ELSE [enumeration EXCEPT !.identities = Insert(@, g, a)]
        /\ UNCHANGED <<persistent, writing>>
     \/ /\ enumeration = NoEnumeration
        /\ Changed([persistent EXCEPT !.identities = Insert(@, g, a)])
        /\ UNCHANGED enumeration
  /\ UNCHANGED <<running, builders, disk, failures, unsaved>>

VersionObserved(g, v) ==
  /\ Called
  /\ \/ /\ enumeration # NoEnumeration
        /\ enumeration' = [enumeration EXCEPT !.versions = Insert(@, g, v)]
        /\ UNCHANGED <<persistent, writing>>
     \/ /\ enumeration = NoEnumeration
        /\ Changed([persistent EXCEPT !.versions = Insert(@, g, v)])
        /\ UNCHANGED enumeration
  /\ UNCHANGED <<running, builders, disk, failures, unsaved>>

\* Mutant: versions and identities are exchanged.
EnumerationEndedCrossed ==
  /\ Called
  /\ enumeration # NoEnumeration
  /\ enumeration' = NoEnumeration
  /\ Changed([persistent EXCEPT !.identities = enumeration.versions,
                                !.versions = enumeration.identities])
  /\ UNCHANGED <<running, builders, disk, failures, unsaved>>

\* Mutant: the versions that were learned are forgotten.
EnumerationEndedIdentities ==
  /\ Called
  /\ enumeration # NoEnumeration
  /\ enumeration' = NoEnumeration
  /\ Changed([persistent EXCEPT !.identities = enumeration.identities])
  /\ UNCHANGED <<running, builders, disk, failures, unsaved>>

\* Mutant: what was learned is not written.
EnumerationEndedUnwritten ==
  /\ Called
  /\ enumeration # NoEnumeration
  /\ enumeration' = NoEnumeration
  /\ persistent' = [persistent EXCEPT !.identities = enumeration.identities,
                                     !.versions = enumeration.versions]
  /\ UNCHANGED <<running, builders, disk, writing, failures, unsaved>>

\* Whichever gateway it is that ends it.
EnumerationEnded ==
  /\ Called
  /\ enumeration # NoEnumeration
  /\ enumeration' = NoEnumeration
  /\ Changed([persistent EXCEPT !.identities = enumeration.identities,
                                !.versions = enumeration.versions])
  /\ UNCHANGED <<running, builders, disk, failures, unsaved>>

\* Mutant: the table is published without a write.
NodeTablePageUnwritten(g, start, page) ==
  /\ Called
  /\ builders' = [builders EXCEPT ![g] = AfterPush(@, start, page)]
  /\ persistent' = IF Publishes(builders[g], start, page)
                     THEN [persistent EXCEPT !.tables = Insert(@, g, Collected(builders[g], start))]
                     ELSE persistent
  /\ UNCHANGED <<running, enumeration, disk, writing, failures, unsaved>>

NodeTablePage(g, start, page) ==
  /\ Called
  /\ builders' = [builders EXCEPT ![g] = AfterPush(@, start, page)]
  /\ \/ /\ Publishes(builders[g], start, page)
        /\ Changed([persistent EXCEPT !.tables = Insert(@, g, Collected(builders[g], start))])
     \/ /\ ~Publishes(builders[g], start, page)
        /\ UNCHANGED <<persistent, writing>>
  /\ UNCHANGED <<running, enumeration, disk, failures, unsaved>>

(***************************************************************************)
(* write_persistent_state.  A call that fails ends it; nothing tries again *)
(* before the state changes the next time.                                 *)
(***************************************************************************)
Proceed(from, to) ==
  /\ running
  /\ writing = from
  /\ writing' = to
  /\ UNCHANGED <<running, persistent, enumeration, builders, failures, unsaved>>

\* Mutant: the file itself is truncated first.
CreateBoth ==
  /\ Proceed("Create", "Write")
  /\ disk' = [disk EXCEPT ![File] = Torn, ![Tmp] = Torn]

CreateTmp ==
  /\ Proceed("Create", "Write")
  /\ disk' = [disk EXCEPT ![Tmp] = Torn]

WriteTmp ==
  /\ Proceed("Write", "Flush")
  /\ disk' = [disk EXCEPT ![Tmp] = persistent]

FlushTmp ==
  /\ Proceed("Flush", "Rename")
  /\ UNCHANGED disk

\* Mutant: the file is gone before the temporary one takes its place.
RenameAfterRemoving ==
  /\ running
  /\ writing = "Rename"
  /\ disk[Tmp] # Absent
  /\ writing' = IF disk[File] = Absent THEN "Idle" ELSE "Rename"
  /\ disk' = IF disk[File] # Absent THEN [disk EXCEPT ![File] = Absent]
             ELSE [disk EXCEPT ![File] = disk[Tmp], ![Tmp] = Absent]
  /\ unsaved' = FALSE
  /\ UNCHANGED <<running, persistent, enumeration, builders, failures>>

RenameTmp ==
  /\ running
  /\ writing = "Rename"
  /\ writing' = "Idle"
  /\ disk' = IF File = Tmp THEN disk
             ELSE [disk EXCEPT ![File] = disk[Tmp], ![Tmp] = Absent]
  /\ unsaved' = FALSE
  /\ UNCHANGED <<running, persistent, enumeration, builders, failures>>

WriteFails ==
  /\ running
  /\ writing # "Idle"
  /\ Fail
  /\ writing' = "Idle"
  /\ UNCHANGED <<running, persistent, enumeration, builders, disk>>

Learned ==
  \/ \E g \in Gateway : EnumerationStarted(g)
  \/ \E g \in Gateway, a \in Address : IdentityObserved(g, a)
  \/ \E g \in Gateway, v \in Version : VersionObserved(g, v)
  \/ EnumerationEnded
  \/ \E g \in Gateway, start \in 0..MaxNode, page \in PagesHeard :
       NodeTablePage(g, start, page)

Written == CreateTmp \/ WriteTmp \/ FlushTmp \/ RenameTmp \/ WriteFails

ObserverNext == Start \/ StartUnread \/ Stop \/ Learned \/ Written

ObserverSpec == ObserverInit /\ [][ObserverNext]_observerVars
-----------------------------------------------------------------------------
\* The types of the observer's fields and of the files.
ObserverTypeOK ==
  /\ running \in BOOLEAN
  /\ persistent \in PersistentState
  /\ enumeration \in Enumerations \cup {NoEnumeration}
  /\ \A g \in Gateway : builders[g].table \in Tables
  /\ disk \in [{File, Tmp} -> Contents]
  /\ writing \in Calls
  /\ failures \in Nat
  /\ unsaved \in BOOLEAN

(***************************************************************************)
(* "Writes atomically by writing to a temporary file and renaming it into  *)
(* place" (observer.rs:117): wherever the process is stopped, the file     *)
(* holds all of a state or does not exist.                                 *)
(***************************************************************************)
WritesAtomically == disk[File] # Torn

(***************************************************************************)
(* Between two calls of the observer the file holds its persistent state,  *)
(* however often the process was stopped halfway through a write, unless   *)
(* reading or writing it failed since.                                     *)
(***************************************************************************)
StateIsSaved ==
  (running /\ writing = "Idle" /\ ~unsaved) =>
    \/ disk[File] = persistent
    \/ disk[File] = Absent /\ persistent = EmptyState

\* What is written is what is known: nothing changes it during a write.
TmpIsCurrent == (running /\ writing \in {"Flush", "Rename"}) => disk[Tmp] = persistent

(***************************************************************************)
(* The observer implements DurableState.                                   *)
(***************************************************************************)
Durable == INSTANCE DurableState WITH
  State <- PersistentState,
  Empty <- EmptyState,
  known <- persistent,
  saved <- IF disk[File] = Absent THEN EmptyState ELSE disk[File],
  up <- running

DurableSpec == Durable!DurableSpec
=============================================================================
