----------------------------- MODULE MCNodeTable ----------------------------
(***************************************************************************)
(* NodeTableReader with MaxFaults faults at most, and a controller that    *)
(* keeps reading.                                                          *)
(***************************************************************************)
EXTENDS NodeTableReader

CONSTANT MaxFaults   \* bound: pages missed, repeated or bad, reads restarted

VARIABLES
  faults,  \* history: faults so far
  heard    \* history: the builder was new when this read of the table began,
           \* and has been handed each of its pages once

mcVars == <<readerVars, faults, heard>>

MCInit == ReaderInit /\ faults = 0 /\ heard = TRUE

\* A new read begins with the cursor at 0.
Hear(stillHeard) ==
  heard' = IF cursor' = 0 THEN builder' = NewBuilder ELSE stillHeard

Read == (\E nodes \in PageNodes : ReadPage(nodes)) /\ Hear(heard) /\ UNCHANGED faults

Fault ==
  /\ faults < MaxFaults
  /\ faults' = faults + 1
  /\ \/ \E nodes \in PageNodes : MissPage(nodes) \/ SpoiltPage(nodes)
     \/ \E nodes \in PageNodes : RepeatPage(nodes)
     \/ RestartRead
  /\ Hear(FALSE)

MCNext == Read \/ Fault

MCSpec == MCInit /\ [][MCNext]_mcVars

\* The controller keeps reading the table.  As the faults are bounded, they stop.
FairSpec == MCSpec /\ WF_mcVars(Read)
-----------------------------------------------------------------------------
(***************************************************************************)
(* A read of the table that finds the builder new, and of which the        *)
(* builder is handed every page, once and in order, is published in full   *)
(* at its end.  Not every read does: one that follows a read whose last    *)
(* page was missed loses its first page (node_table.rs:112), and what is   *)
(* published of it is not the whole table (PublishedFromTheStart).  But    *)
(* the last page of any read, whatever was missed of it, leaves the        *)
(* builder new for the next one.                                           *)
(***************************************************************************)
WholeReadIsPublished ==
  [][Read => /\ heard /\ NodesFrom(cursor) = {} => published' = gatewayTable
             /\ cursor' = 0 => builder' = NewBuilder]_mcVars

(***************************************************************************)
(* Once pages stop going missing the published table becomes and stays the *)
(* gateway's, unless its last node is the last there can be: then the      *)
(* table is dropped instead (node_table.rs:147).                           *)
(***************************************************************************)
TableIsLearned ==
  (MaxNode \notin DOMAIN gatewayTable) => <>[](published = gatewayTable)
=============================================================================
