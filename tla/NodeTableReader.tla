--------------------------- MODULE NodeTableReader --------------------------
(***************************************************************************)
(* A controller reading one gateway's node table over and over, and a      *)
(* builder that hears the exchange: with pages it misses, pages it is      *)
(* handed twice, pages with an invalid entry, and reads that start over.   *)
(***************************************************************************)
EXTENDS NodeTable

CONSTANTS
  NoTable,     \* gateway_node_tables has no entry for the gateway yet
  PageSize,    \* entries in a page at most
  BadPages     \* whether pages can have an entry with node id 0

ASSUME ReaderConstants ==
  /\ NoTable \notin Tables
  /\ PageSize \in Nat \ {0}
  /\ BadPages \in BOOLEAN

VARIABLES
  gatewayTable,  \* the gateway's table (external)
  cursor,        \* the start address the controller asks for next (external)
  builder,       \* the gateway's NodeTableBuilder
  published,     \* the gateway's entry in gateway_node_tables
  spoilt         \* history: the builder was handed a bad page since it was new

readerVars == <<gatewayTable, cursor, builder, published, spoilt>>

NodesFrom(start) == {n \in DOMAIN gatewayTable : n >= start}
Part(nodes) == [n \in nodes |-> gatewayTable[n]]

ReaderInit ==
  /\ gatewayTable \in Tables
  /\ cursor = 0
  /\ builder = NewBuilder
  /\ published = NoTable
  /\ spoilt = FALSE

(***************************************************************************)
(* The gateway answers with its first entries from the start address on;   *)
(* no entries mean the end of the table (external, docs/protocol.md:999).  *)
(***************************************************************************)
PageNodes ==
  {nodes \in SUBSET NodesFrom(cursor) :
     /\ Cardinality(nodes) <= PageSize
     /\ \A n \in nodes : \A m \in NodesFrom(cursor) : m < n => m \in nodes
     /\ NodesFrom(cursor) # {} => nodes # {}}

Page(nodes) == [entries |-> Part(nodes), bad |-> FALSE]

\* The controller goes on behind the last entry, or starts a new read.
Advance(nodes) == cursor' = IF nodes = {} THEN 0 ELSE Successor(Max(nodes))

\* Observer::node_table_page
HandPage(page) ==
  /\ builder' = AfterPush(builder, cursor, page)
  /\ published' = IF Publishes(builder, cursor, page)
                    THEN Collected(builder, cursor) ELSE published
  /\ spoilt' = ((spoilt \/ page.bad) /\ builder' # NewBuilder)
  /\ UNCHANGED gatewayTable

ReadPage(nodes) == HandPage(Page(nodes)) /\ Advance(nodes)

MissPage(nodes) ==
  /\ Advance(nodes)
  /\ UNCHANGED <<gatewayTable, builder, published, spoilt>>

\* The page will be handed over once more.
RepeatPage(nodes) == HandPage(Page(nodes)) /\ UNCHANGED cursor

SpoiltPage(nodes) ==
  /\ BadPages
  /\ \E before \in SUBSET nodes :
       HandPage([entries |-> Part(before), bad |-> TRUE])
  /\ Advance(nodes)

RestartRead ==
  /\ cursor' = 0
  /\ UNCHANGED <<gatewayTable, builder, published, spoilt>>

ReaderNext ==
  \/ \E nodes \in PageNodes :
       ReadPage(nodes) \/ MissPage(nodes) \/ RepeatPage(nodes) \/ SpoiltPage(nodes)
  \/ RestartRead

ReaderSpec == ReaderInit /\ [][ReaderNext]_readerVars
-----------------------------------------------------------------------------
\* The types of the reader's and the builder's state.
ReaderTypeOK ==
  /\ gatewayTable \in Tables
  /\ cursor \in 0..MaxNode
  /\ builder \in Builders
  /\ published \in Tables \cup {NoTable}
  /\ spoilt \in BOOLEAN

(***************************************************************************)
(* Pages can be missed, repeated and read again from the start, but what   *)
(* is published never has a hole: it is the gateway's table from some node *)
(* on (node_table.rs:108, 144: each page must start behind the last node   *)
(* collected).  Except after a bad page, which leaves what was collected   *)
(* to a page from the start (node_table.rs:121).                           *)
(***************************************************************************)
PublishedHasNoHoles ==
  [][(published' # published /\ ~spoilt) =>
       \E lowest \in 0..MaxNode + 1 : published' = Part(NodesFrom(lowest))]_readerVars

(***************************************************************************)
(* That nothing of the beginning is missing either is what the comment     *)
(* "We're mid-table" / "Ignore" says (node_table.rs:113): a page from the  *)
(* middle that continues nothing is not collected.  The code ignores pages *)
(* from the start instead.                                                 *)
(***************************************************************************)
PublishedFromTheStart ==
  [][(published' # published /\ ~spoilt) => published' = gatewayTable]_readerVars

(***************************************************************************)
(* What makes the other so: the builder holds the gateway's table from some     *)
(* node up to the one before the next it expects.                          *)
(***************************************************************************)
BuilderHasNoHoles ==
  \/ spoilt
  \/ builder = NewBuilder
  \/ \E lowest \in 0..MaxNode :
       builder.table = Part({n \in NodesFrom(lowest) : n < builder.expected})
=============================================================================
