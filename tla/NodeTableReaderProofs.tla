------------------------ MODULE NodeTableReaderProofs -----------------------
(***************************************************************************)
(* That no table with a hole is published, whatever pages are missed,      *)
(* repeated or read again, and that a read that finds the builder new and  *)
(* of which every page was heard is published in full: for any number of   *)
(* nodes, size of a page, table and faults.                                *)
(***************************************************************************)
EXTENDS MCNodeTable, NodeTableProofs

\* The inductive invariant.
ReaderInv == ReaderTypeOK /\ BuilderHasNoHoles

\* The part of the gateway's table between two node ids.
Between(lowest, next) == Part({n \in NodesFrom(lowest) : n < next})

(***************************************************************************)
(* Parts of a table.                                                       *)
(***************************************************************************)
LEMMA NodesAreNumbers ==
  ASSUME ReaderTypeOK
  PROVE  DOMAIN gatewayTable \subseteq NodeID /\ DOMAIN gatewayTable \subseteq Nat
<1>1. DOMAIN gatewayTable \subseteq NodeID
  BY DEF ReaderTypeOK, Tables
<1> QED
  BY <1>1, NodeTableConstants DEF NodeID

LEMMA PartIsTable ==
  ASSUME gatewayTable \in Tables, NEW nodes \in SUBSET DOMAIN gatewayTable
  PROVE  Part(nodes) \in Tables /\ DOMAIN Part(nodes) = nodes
<1>1. PICK all \in SUBSET NodeID : gatewayTable \in [all -> Address]
  BY DEF Tables
<1>2. Part(nodes) \in [nodes -> Address]
  BY <1>1 DEF Part
<1> QED
  BY <1>1, <1>2 DEF Tables

LEMMA PageIsPart ==
  ASSUME ReaderTypeOK, NEW nodes \in PageNodes
  PROVE  /\ nodes \in SUBSET DOMAIN gatewayTable /\ nodes \in SUBSET NodeID
         /\ Page(nodes) \in Pages /\ DOMAIN Page(nodes).entries = nodes
         /\ \A before \in SUBSET nodes :
              [entries |-> Part(before), bad |-> TRUE] \in Pages
<1>1. nodes \in SUBSET DOMAIN gatewayTable /\ gatewayTable \in Tables
  BY DEF PageNodes, NodesFrom, ReaderTypeOK
<1>2. DOMAIN gatewayTable \in SUBSET NodeID
  BY <1>1 DEF Tables
<1>3. \A before \in SUBSET nodes : Part(before) \in Tables /\ DOMAIN Part(before) = before
  BY <1>1, PartIsTable
<1> QED
  BY <1>1, <1>2, <1>3 DEF Page, Pages

(***************************************************************************)
(* A page holds the table up to its last node, and an empty one says that  *)
(* there is no more.                                                       *)
(***************************************************************************)
LEMMA PageHasNoHoles ==
  ASSUME ReaderTypeOK, NEW nodes \in PageNodes, nodes # {}
  PROVE  /\ Max(nodes) \in nodes /\ Max(nodes) \in NodeID /\ Max(nodes) >= cursor
         /\ nodes = {n \in NodesFrom(cursor) : n < Max(nodes) + 1}
<1>1. nodes \in SUBSET NodeID
  BY PageIsPart
<1>2. Max(nodes) \in nodes /\ \A n \in nodes : n <= Max(nodes)
  BY <1>1, LastNode
<1>3. \A n \in NodesFrom(cursor) : n \in Nat
  BY NodesAreNumbers DEF NodesFrom
<1>4. \A n \in nodes : n \in NodesFrom(cursor)
  BY DEF PageNodes
<1>5. \A n \in NodesFrom(cursor) : n < Max(nodes) => n \in nodes
  BY <1>2 DEF PageNodes
<1>6. nodes \subseteq {n \in NodesFrom(cursor) : n < Max(nodes) + 1}
  BY <1>2, <1>3, <1>4
<1>7. {n \in NodesFrom(cursor) : n < Max(nodes) + 1} \subseteq nodes
  <2> SUFFICES ASSUME NEW n \in NodesFrom(cursor), n < Max(nodes) + 1 PROVE n \in nodes
    OBVIOUS
  <2>1. n < Max(nodes) \/ n = Max(nodes)
    BY <1>2, <1>3, <1>4
  <2> QED
    BY <1>2, <1>5, <2>1
<1> QED
  BY <1>1, <1>2, <1>4, <1>6, <1>7 DEF NodesFrom

\* What a builder whose table has no holes collects is the table from a node
\* on up to the page.
LEMMA CollectedHasNoHoles ==
  ASSUME ReaderTypeOK, BuilderHasNoHoles, ~spoilt, ~Ignores(builder, cursor)
  PROVE  \E lowest \in 0..MaxNode : Collected(builder, cursor) = Between(lowest, cursor)
<1>1. EmptyTable = Between(cursor, cursor)
  <2>1. {n \in NodesFrom(cursor) : n < cursor} = {}
    BY NodeTableConstants DEF NodesFrom, ReaderTypeOK, Tables, NodeID
  <2> QED
    BY <2>1 DEF EmptyTable, Between, Part
<1>2. cursor \in 0..MaxNode
  BY DEF ReaderTypeOK
<1>3. CASE ~Continues(builder, cursor)
  BY <1>1, <1>2, <1>3 DEF Collected
<1>4. CASE Continues(builder, cursor) /\ builder = NewBuilder
  BY <1>1, <1>2, <1>4 DEF Collected, NewBuilder
<1>5. CASE Continues(builder, cursor) /\ builder # NewBuilder
  BY <1>5 DEF Collected, BuilderHasNoHoles, Continues, Between
<1> QED
  BY <1>3, <1>4, <1>5

\* The page goes on where that ends.
LEMMA MergedHasNoHoles ==
  ASSUME ReaderTypeOK, NEW nodes \in PageNodes, nodes # {},
         NEW lowest \in 0..MaxNode,
         Collected(builder, cursor) = Between(lowest, cursor)
  PROVE  LET from == IF lowest < cursor THEN lowest ELSE cursor
         IN  Merged(builder, cursor, Page(nodes)) = Between(from, Max(nodes) + 1)
<1> DEFINE from == IF lowest < cursor THEN lowest ELSE cursor
           old == {n \in NodesFrom(lowest) : n < cursor}
           all == {n \in NodesFrom(from) : n < Max(nodes) + 1}
<1>1. /\ nodes \subseteq DOMAIN gatewayTable /\ Page(nodes).entries = Part(nodes)
  BY PageIsPart DEF Page
<1>2. /\ Max(nodes) \in Nat /\ Max(nodes) >= cursor /\ cursor \in Nat /\ lowest \in Nat
      /\ nodes = {n \in NodesFrom(cursor) : n < Max(nodes) + 1}
  BY PageHasNoHoles, NodeTableConstants DEF NodeID, ReaderTypeOK
<1>3. DOMAIN gatewayTable \subseteq Nat
  BY NodesAreNumbers
<1>4. nodes \cup old = all
  <2>1. ASSUME NEW n \in DOMAIN gatewayTable
        PROVE  n \in nodes \cup old <=> n \in all
    BY <1>2, <1>3, <2>1 DEF NodesFrom
  <2>2. nodes \cup old \subseteq DOMAIN gatewayTable /\ all \subseteq DOMAIN gatewayTable
    BY <1>1 DEF NodesFrom
  <2> QED
    BY <2>1, <2>2
<1>5. Merged(builder, cursor, Page(nodes)) = Part(nodes \cup old)
  BY <1>1 DEF Merged, Between, Part
<1> QED
  BY <1>4, <1>5 DEF Between

LEMMA MergedEndsWithPage ==
  ASSUME ReaderTypeOK, NEW nodes \in PageNodes, nodes # {}, NEW from,
         Merged(builder, cursor, Page(nodes)) = Between(from, Max(nodes) + 1)
  PROVE  Max(DOMAIN Merged(builder, cursor, Page(nodes))) = Max(nodes)
<1> DEFINE table == Merged(builder, cursor, Page(nodes))
<1>1. Max(nodes) \in nodes /\ Max(nodes) \in DOMAIN table
  BY PageIsPart, PageHasNoHoles DEF Merged
<1>2. DOMAIN table \subseteq NodeID /\ \A n \in DOMAIN table : n < Max(nodes) + 1
  BY NodesAreNumbers DEF Between, Part, NodesFrom
<1>3. Max(DOMAIN table) \in DOMAIN table /\ \A n \in DOMAIN table : n <= Max(DOMAIN table)
  BY <1>1, <1>2, LastNode
<1>4. Max(DOMAIN table) = Max(nodes)
  <2> HIDE DEF table
  <2> QED
    BY <1>1, <1>2, <1>3, NodeTableConstants DEF NodeID
<1> QED
  BY <1>4

(***************************************************************************)
(* One step of the reader.                                                 *)
(***************************************************************************)
LEMMA HandPageKeepsTypes ==
  ASSUME ReaderTypeOK, NEW page \in Pages, HandPage(page)
  PROVE  /\ builder' \in Builders /\ published' \in Tables \cup {NoTable}
         /\ spoilt' \in BOOLEAN /\ gatewayTable' = gatewayTable
<1>1. builder' \in Builders
  BY PushKeepsBuilders DEF HandPage, ReaderTypeOK
<1>2. published' \in Tables \cup {NoTable}
  BY PushCollectsTables DEF HandPage, ReaderTypeOK, Builders
<1>3. page.bad \in BOOLEAN
  BY DEF Pages
<1> QED
  BY <1>1, <1>2, <1>3 DEF HandPage, ReaderTypeOK

LEMMA HandPageLeavesNoHoles ==
  ASSUME ReaderTypeOK, BuilderHasNoHoles, NEW nodes \in PageNodes, HandPage(Page(nodes))
  PROVE  BuilderHasNoHoles'
<1> DEFINE page == Page(nodes)
           table == Merged(builder, cursor, page)
<1>0. page.bad = FALSE /\ page.entries = Part(nodes) /\ DOMAIN page.entries = nodes
  BY PageIsPart DEF Page
<1>1. CASE builder' = NewBuilder \/ spoilt'
  BY <1>1 DEF BuilderHasNoHoles
<1>2. CASE builder' # NewBuilder /\ ~spoilt'
  <2>1. ~spoilt /\ ~Ignores(builder, cursor) /\ nodes # {}
        /\ builder' = Continued(table)
    BY <1>0, <1>2 DEF HandPage, AfterPush, Publishes, EndsTable, ReaderTypeOK
  <2>2. PICK lowest \in 0..MaxNode : Collected(builder, cursor) = Between(lowest, cursor)
    BY <2>1, CollectedHasNoHoles
  <2>3. PICK from \in 0..MaxNode : table = Between(from, Max(nodes) + 1)
    BY <2>1, <2>2, MergedHasNoHoles DEF ReaderTypeOK
  <2>4. Max(DOMAIN table) = Max(nodes)
    BY <2>1, <2>3, MergedEndsWithPage
  <2>5. builder'.expected = Max(nodes) + 1 /\ builder'.table = table
    BY <1>2, <2>1, <2>4 DEF Continued, Successor
  <2>6. gatewayTable' = gatewayTable
    BY DEF HandPage
  <2>7. {n \in NodesFrom(from)' : n < builder'.expected} = {n \in NodesFrom(from) : n < Max(nodes) + 1}
    BY <2>5, <2>6 DEF NodesFrom
  <2>8. builder'.table = [n \in {n \in NodesFrom(from)' : n < builder'.expected} |-> gatewayTable'[n]]
    BY <2>3, <2>5, <2>6, <2>7 DEF Between, Part
  <2>9. \E first \in 0..MaxNode :
          builder'.table = Part({n \in NodesFrom(first) : n < builder.expected})'
    BY <2>8 DEF Part
  <2> QED
    BY <2>9 DEF BuilderHasNoHoles
<1> QED
  BY <1>1, <1>2

LEMMA ReaderInitially == ReaderInit => ReaderInv
<1> SUFFICES ASSUME ReaderInit PROVE ReaderInv
  OBVIOUS
<1>1. gatewayTable \in Tables /\ builder \in Builders /\ published \in Tables \cup {NoTable}
  BY NewIsBuilder DEF ReaderInit
<1>2. cursor \in 0..MaxNode
  BY NodeTableConstants DEF ReaderInit
<1>3. spoilt \in BOOLEAN
  BY DEF ReaderInit
<1> QED
  BY <1>1, <1>2, <1>3 DEF ReaderInit, ReaderInv, ReaderTypeOK, BuilderHasNoHoles

LEMMA AdvanceStaysInRange ==
  ASSUME ReaderTypeOK, NEW nodes \in PageNodes, Advance(nodes)
  PROVE  cursor' \in 0..MaxNode
BY PageHasNoHoles, NodeTableConstants DEF Advance, Successor, NodeID

LEMMA ReaderStep ==
  ASSUME ReaderInv, [ReaderNext]_readerVars
  PROVE  ReaderInv'
<1>0. ReaderTypeOK /\ BuilderHasNoHoles
  BY DEF ReaderInv
<1>1. ASSUME NEW nodes \in PageNodes, ReadPage(nodes) \/ RepeatPage(nodes)
      PROVE  ReaderInv'
  <2>1. Page(nodes) \in Pages /\ HandPage(Page(nodes))
    BY <1>0, <1>1, PageIsPart DEF ReadPage, RepeatPage
  <2>2. cursor' \in 0..MaxNode
    BY <1>0, <1>1, AdvanceStaysInRange DEF ReadPage, RepeatPage, ReaderTypeOK
  <2>3. ReaderTypeOK'
    BY <1>0, <2>1, <2>2, HandPageKeepsTypes DEF ReaderTypeOK
  <2>4. BuilderHasNoHoles'
    BY <1>0, <2>1, HandPageLeavesNoHoles
  <2> QED
    BY <2>3, <2>4 DEF ReaderInv
<1>2. ASSUME NEW nodes \in PageNodes, SpoiltPage(nodes)
      PROVE  ReaderInv'
  <2>1. PICK before \in SUBSET nodes : HandPage([entries |-> Part(before), bad |-> TRUE])
    BY <1>2 DEF SpoiltPage
  <2>2. [entries |-> Part(before), bad |-> TRUE] \in Pages
    BY <1>0, PageIsPart
  <2>3. ReaderTypeOK'
    BY <1>0, <1>2, <2>1, <2>2, HandPageKeepsTypes, AdvanceStaysInRange
       DEF SpoiltPage, ReaderTypeOK
  <2>4. spoilt' \/ builder' = NewBuilder
    BY <2>1 DEF HandPage
  <2> QED
    BY <2>3, <2>4 DEF ReaderInv, BuilderHasNoHoles
<1>3. ASSUME NEW nodes \in PageNodes, MissPage(nodes)
      PROVE  ReaderInv'
  BY <1>0, <1>3, AdvanceStaysInRange
     DEF MissPage, ReaderInv, ReaderTypeOK, BuilderHasNoHoles, Part, NodesFrom
<1>4. CASE RestartRead
  BY <1>0, <1>4, NodeTableConstants
     DEF RestartRead, ReaderInv, ReaderTypeOK, BuilderHasNoHoles, Part, NodesFrom
<1>5. CASE UNCHANGED readerVars
  BY <1>0, <1>5 DEF readerVars, ReaderInv, ReaderTypeOK, BuilderHasNoHoles, Part, NodesFrom
<1> QED
  BY <1>1, <1>2, <1>3, <1>4, <1>5 DEF ReaderNext

(***************************************************************************)
(* The invariant: the types, and between pages the builder holds the       *)
(* gateway's table from some node up to the next expected                  *)
(* (node_table.rs:144).                                                    *)
(***************************************************************************)
THEOREM ReaderInvariant == ReaderSpec => []ReaderInv
<1> QED
  BY ReaderInitially, ReaderStep, PTL DEF ReaderSpec

THEOREM BuilderCorrect == ReaderSpec => []BuilderHasNoHoles
<1>1. ReaderInv => BuilderHasNoHoles
  BY DEF ReaderInv
<1> QED
  BY <1>1, ReaderInvariant, PTL

LEMMA PublishedStep ==
  ASSUME ReaderInv, [ReaderNext]_readerVars, published' # published, ~spoilt
  PROVE  \E lowest \in 0..MaxNode + 1 : published' = Part(NodesFrom(lowest))
<1>0. ReaderTypeOK /\ BuilderHasNoHoles
  BY DEF ReaderInv
<1>1. PICK nodes \in PageNodes : HandPage(Page(nodes))
  <2>1. ASSUME NEW nodes \in PageNodes, SpoiltPage(nodes) PROVE FALSE
    BY <2>1 DEF SpoiltPage, HandPage, Publishes, EndsTable
  <2> QED
    BY <2>1 DEF ReaderNext, readerVars, ReadPage, RepeatPage, MissPage, RestartRead
<1>2. ~Ignores(builder, cursor) /\ nodes = {} /\ published' = Collected(builder, cursor)
  BY <1>0, <1>1, PageIsPart DEF HandPage, Publishes, EndsTable
<1>3. PICK lowest \in 0..MaxNode : published' = Between(lowest, cursor)
  BY <1>0, <1>2, CollectedHasNoHoles
<1>4. NodesFrom(cursor) = {}
  BY <1>2 DEF PageNodes
<1>5. {n \in NodesFrom(lowest) : n < cursor} = NodesFrom(lowest)
  BY <1>0, <1>4, NodesAreNumbers, NodeTableConstants DEF NodesFrom, ReaderTypeOK
<1> QED
  BY <1>3, <1>5, NodeTableConstants DEF Between

(***************************************************************************)
(* What is published is the gateway's table from some node on.             *)
(***************************************************************************)
THEOREM PublishedCorrect == ReaderSpec => PublishedHasNoHoles
<1>1. ReaderInv /\ [ReaderNext]_readerVars
        => [(published' # published /\ ~spoilt) =>
              \E lowest \in 0..MaxNode + 1 : published' = Part(NodesFrom(lowest))]_readerVars
  BY PublishedStep
<1> QED
  BY <1>1, ReaderInvariant, PTL DEF ReaderSpec, PublishedHasNoHoles

(***************************************************************************)
(* A read heard so far is collected so far.                                *)
(***************************************************************************)
HeardInv == heard => builder.expected = cursor /\ builder.table = Between(0, cursor)

LEMMA NothingIsBeforeZero ==
  ASSUME NEW table \in Tables
  PROVE  EmptyTable = [n \in {n \in {m \in DOMAIN table : m >= 0} : n < 0} |-> table[n]]
<1>1. DOMAIN table \subseteq Nat
  <2>1. DOMAIN table \subseteq NodeID
    BY DEF Tables
  <2> QED
    BY <2>1, NodeTableConstants DEF NodeID
<1>2. {n \in {m \in DOMAIN table : m >= 0} : n < 0} = {}
  BY <1>1
<1> QED
  BY <1>2 DEF EmptyTable

\* One page of a read heard so far.
LEMMA ReadIsHeard ==
  ASSUME ReaderTypeOK, ReaderTypeOK', HeardInv, heard, NEW nodes \in PageNodes,
         ReadPage(nodes), cursor' # 0
  PROVE  builder'.expected = cursor' /\ builder'.table = Between(0, cursor)'
<1> DEFINE page == Page(nodes)
           table == Merged(builder, cursor, page)
<1>0. builder.expected = cursor /\ builder.table = Between(0, cursor) /\ 0 \in 0..MaxNode
  BY NodeTableConstants DEF HeardInv
<1>1. nodes # {} /\ Max(nodes) # MaxNode /\ cursor' = Max(nodes) + 1
  BY DEF ReadPage, Advance, Successor
<1>2. Continues(builder, cursor) /\ ~Ignores(builder, cursor)
      /\ Collected(builder, cursor) = Between(0, cursor)
  BY <1>0 DEF Continues, Ignores, Collected
<1>3. page.bad = FALSE /\ DOMAIN page.entries # {}
  BY <1>1, PageIsPart DEF Page
<1>4. builder' = Continued(table)
  BY <1>2, <1>3 DEF ReadPage, HandPage, AfterPush, Publishes, EndsTable
<1>5. table = Between(0, Max(nodes) + 1)
  <2>1. table = Between(IF 0 < cursor THEN 0 ELSE cursor, Max(nodes) + 1)
    BY <1>0, <1>1, <1>2, MergedHasNoHoles
  <2>2. (IF 0 < cursor THEN 0 ELSE cursor) = 0
    BY NodeTableConstants DEF ReaderTypeOK
  <2> QED
    BY <2>1, <2>2
<1>6. Max(DOMAIN table) = Max(nodes)
  BY <1>1, <1>5, MergedEndsWithPage
<1>7. Max(nodes) + 1 # 0
  BY <1>1
<1>8. builder'.expected = cursor' /\ builder'.table = Between(0, cursor')
  BY <1>1, <1>4, <1>5, <1>6, <1>7 DEF Continued, Successor
<1>9. gatewayTable' = gatewayTable
  BY DEF ReadPage, HandPage
<1>10. Between(0, cursor)' = Between(0, cursor')
  BY <1>9 DEF Between, Part, NodesFrom
<1> QED
  BY <1>8, <1>10

LEMMA HeardStep ==
  ASSUME ReaderTypeOK, ReaderTypeOK', HeardInv, [MCNext]_mcVars
  PROVE  HeardInv'
<1>1. ASSUME cursor' = 0, builder' = NewBuilder
      PROVE  HeardInv'
  <2>1. (EmptyTable = Between(0, 0))'
    BY NothingIsBeforeZero DEF ReaderTypeOK, Between, Part, NodesFrom
  <2> QED
    BY <1>1, <2>1 DEF HeardInv, NewBuilder
<1>2. CASE Read
  <2>1. PICK nodes \in PageNodes : ReadPage(nodes)
    BY <1>2 DEF Read
  <2>2. CASE cursor' = 0
    BY <1>1, <1>2, <2>2 DEF Read, Hear, HeardInv
  <2>3. CASE cursor' # 0
    BY <1>2, <2>1, <2>3, ReadIsHeard DEF Read, Hear, HeardInv
  <2> QED
    BY <2>2, <2>3
<1>3. CASE Fault
  BY <1>1, <1>3 DEF Fault, Hear, HeardInv
<1>4. CASE UNCHANGED mcVars
  BY <1>4 DEF mcVars, readerVars, HeardInv, Between, Part, NodesFrom
<1> QED
  BY <1>2, <1>3, <1>4 DEF MCNext

LEMMA FaultsAreReaders == MCNext => ReaderNext
BY DEF MCNext, Read, Fault, ReaderNext

LEMMA HeardInvariant == MCSpec => [](ReaderInv /\ HeardInv)
<1>1. MCInit => ReaderInv /\ HeardInv
  <2> SUFFICES ASSUME MCInit PROVE ReaderInv /\ HeardInv
    OBVIOUS
  <2>1. ReaderInv
    BY ReaderInitially DEF MCInit
  <2>2. EmptyTable = Between(0, 0)
    BY <2>1, NothingIsBeforeZero DEF ReaderInv, ReaderTypeOK, Between, Part, NodesFrom
  <2> QED
    BY <2>1, <2>2 DEF MCInit, ReaderInit, HeardInv, NewBuilder
<1>2. ReaderInv /\ HeardInv /\ [MCNext]_mcVars => (ReaderInv /\ HeardInv)'
  <2> SUFFICES ASSUME ReaderInv, HeardInv, [MCNext]_mcVars PROVE (ReaderInv /\ HeardInv)'
    OBVIOUS
  <2>1. [ReaderNext]_readerVars
    BY FaultsAreReaders DEF mcVars
  <2>2. ReaderInv'
    BY <2>1, ReaderStep
  <2> QED
    BY <2>2, HeardStep DEF ReaderInv
<1> QED
  BY <1>1, <1>2, PTL DEF MCSpec

(***************************************************************************)
(* The last page of a read, empty or with the last node there can be,      *)
(* leaves a new builder (node_table.rs:112, 132, 148).                     *)
(***************************************************************************)
LEMMA LastPageLeavesNew ==
  ASSUME ReaderTypeOK, NEW nodes \in PageNodes, ReadPage(nodes), cursor' = 0
  PROVE  builder' = NewBuilder
<1> DEFINE page == Page(nodes)
           table == Merged(builder, cursor, page)
<1>1. page.bad = FALSE /\ DOMAIN page.entries = nodes /\ page \in Pages
  BY PageIsPart DEF Page
<1>2. builder' = AfterPush(builder, cursor, page)
  BY DEF ReadPage, HandPage
<1>3. CASE Ignores(builder, cursor) \/ nodes = {}
  BY <1>1, <1>2, <1>3 DEF AfterPush, Publishes, EndsTable
<1>4. CASE ~Ignores(builder, cursor) /\ nodes # {}
  <2>1. builder' = Continued(table)
    BY <1>1, <1>2, <1>4 DEF AfterPush, Publishes, EndsTable
  <2>2. Max(nodes) \in nodes /\ Max(nodes) = MaxNode
    BY <1>4, PageHasNoHoles, NodeTableConstants DEF ReadPage, Advance, Successor, NodeID
  <2>3. MaxNode \in DOMAIN table /\ DOMAIN table \subseteq NodeID
    <3>1. Collected(builder, cursor) \in Tables
      BY <1>1, PushCollectsTables DEF ReaderTypeOK, Builders
    <3>2. DOMAIN Collected(builder, cursor) \subseteq NodeID
      BY <3>1 DEF Tables
    <3> QED
      BY <1>1, <2>2, <3>2, PageIsPart DEF Merged
  <2>4. Max(DOMAIN table) = MaxNode
    <3>1. Max(DOMAIN table) \in DOMAIN table /\ MaxNode <= Max(DOMAIN table)
      BY <2>3, LastNode
    <3> HIDE DEF table
    <3> QED
      BY <2>3, <3>1, NodeTableConstants DEF NodeID
  <2> QED
    BY <2>1, <2>4 DEF Continued, Successor
<1> QED
  BY <1>3, <1>4

(***************************************************************************)
(* A read of the table that finds the builder new, and of which every page *)
(* was heard, is published in full (node_table.rs:102), and the last page  *)
(* of every read leaves the builder new for the next.                      *)
(***************************************************************************)
THEOREM WholeReadCorrect == MCSpec => WholeReadIsPublished
<1>1. ASSUME ReaderInv, HeardInv, heard, NodesFrom(cursor) = {}, Read
      PROVE  published' = gatewayTable
  <2>1. PICK nodes \in PageNodes : ReadPage(nodes)
    BY <1>1 DEF Read
  <2>2. nodes = {} /\ ReaderTypeOK /\ cursor \in Nat
    BY <1>1, NodeTableConstants DEF PageNodes, ReaderInv, ReaderTypeOK
  <2>3. builder.expected = cursor /\ builder.table = Between(0, cursor)
    BY <1>1 DEF HeardInv
  <2>4. Page(nodes).bad = FALSE /\ DOMAIN Page(nodes).entries = {}
    BY <2>2, PageIsPart DEF Page
  <2>5. published' = Between(0, cursor)
    BY <2>1, <2>3, <2>4 DEF ReadPage, HandPage, Publishes, Ignores, Continues, EndsTable, Collected
  <2>6. {n \in NodesFrom(0) : n < cursor} = DOMAIN gatewayTable
    BY <1>1, <2>2, NodesAreNumbers DEF NodesFrom
  <2>7. Part(DOMAIN gatewayTable) = gatewayTable
    BY <2>2 DEF Part, ReaderTypeOK, Tables
  <2> QED
    BY <2>5, <2>6, <2>7 DEF Between
<1>2. ASSUME ReaderInv, Read, cursor' = 0
      PROVE  builder' = NewBuilder
  BY <1>2, LastPageLeavesNew DEF Read, ReaderInv
<1>3. ReaderInv /\ HeardInv
        => [Read => /\ heard /\ NodesFrom(cursor) = {} => published' = gatewayTable
                    /\ cursor' = 0 => builder' = NewBuilder]_mcVars
  BY <1>1, <1>2
<1> QED
  BY <1>3, HeardInvariant, PTL DEF WholeReadIsPublished
=============================================================================
