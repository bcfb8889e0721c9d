--------------------------- MODULE NodeTableProofs --------------------------
(***************************************************************************)
(* What NodeTableBuilder::push (node_table.rs:102) makes of any builder    *)
(* and any page.                                                           *)
(***************************************************************************)
EXTENDS NodeTable, FiniteSetTheorems, WellFoundedInduction, TLAPS

(***************************************************************************)
(* A page that is not empty has a last node: the one that the fewest       *)
(* others follow.                                                          *)
(***************************************************************************)
LEMMA LastNode ==
  ASSUME NEW S \in SUBSET NodeID, S # {}
  PROVE  /\ Max(S) \in S
         /\ \A n \in S : n <= Max(S)
<1>0. \A n \in S : n \in Nat /\ n <= MaxNode
  BY NodeTableConstants DEF NodeID
<1> DEFINE Behind(n) == {m \in S : m > n}
           All == {Behind(n) : n \in S}
<1>1. IsFiniteSet(S)
  BY <1>0, NodeTableConstants, FS_BoundedSetOfNaturals
<1>2. IsWellFoundedOn(StrictSubsetOrdering(S), SUBSET S)
  BY <1>1, FS_StrictSubsetOrderingWellFounded, FS_FiniteSubsetsOfFinite
<1>3. All \subseteq SUBSET S /\ All # {}
  OBVIOUS
<1>4. PICK least \in All : \A behind \in All : <<behind, least>> \notin StrictSubsetOrdering(S)
  <2> HIDE DEF All
  <2> QED
    BY <1>2, <1>3, WFMin
<1>5. PICK last \in S : least = Behind(last)
  BY <1>4
<1>6. \A n \in S : last >= n
  <2> SUFFICES ASSUME NEW n \in S, n > last PROVE FALSE
    BY <1>0
  <2>1. Behind(n) \subseteq Behind(last) /\ n \in Behind(last) /\ n \notin Behind(n)
    BY <1>0
  <2>2. <<Behind(n), least>> \in StrictSubsetOrdering(S)
    BY <1>5, <2>1 DEF StrictSubsetOrdering
  <2> QED
    BY <1>4, <2>2
<1>7. Max(S) \in S /\ \A n \in S : Max(S) >= n
  BY <1>6 DEF Max
<1> QED
  BY <1>0, <1>7
(***************************************************************************)
(* What is collected is a table, and what is left a builder.               *)
(***************************************************************************)
LEMMA EmptyIsTable == EmptyTable \in Tables
<1>1. EmptyTable \in [{} -> Address]
  BY DEF EmptyTable
<1> QED
  BY <1>1 DEF Tables

LEMMA MergedIsTable ==
  ASSUME NEW old \in Tables, NEW new \in Tables
  PROVE  [n \in DOMAIN new \cup DOMAIN old |-> IF n \in DOMAIN new THEN new[n] ELSE old[n]]
           \in Tables
<1>1. PICK a \in SUBSET NodeID : old \in [a -> Address]
  BY DEF Tables
<1>2. PICK b \in SUBSET NodeID : new \in [b -> Address]
  BY DEF Tables
<1>3. [n \in DOMAIN new \cup DOMAIN old |-> IF n \in DOMAIN new THEN new[n] ELSE old[n]]
        \in [a \cup b -> Address]
  BY <1>1, <1>2
<1>4. a \cup b \in SUBSET NodeID
  BY <1>1, <1>2
<1> QED
  BY <1>3, <1>4 DEF Tables

LEMMA PushCollectsTables ==
  ASSUME NEW b, b.table \in Tables, NEW start, NEW page \in Pages
  PROVE  /\ Collected(b, start) \in Tables
         /\ AfterPush(b, start, page).table \in Tables
<1>1. Collected(b, start) \in Tables
  BY EmptyIsTable DEF Collected
<1>2. Merged(b, start, page) \in Tables
  <2>1. page.entries \in Tables
    BY DEF Pages
  <2> QED
    BY <1>1, <2>1, MergedIsTable DEF Merged
<1>3. NewBuilder.table \in Tables
  BY EmptyIsTable DEF NewBuilder
<1>4. Continued(Merged(b, start, page)).table \in Tables
  BY <1>2, <1>3 DEF Continued
<1> QED
  BY <1>1, <1>2, <1>3, <1>4 DEF AfterPush

LEMMA NewIsBuilder == NewBuilder \in Builders
BY EmptyIsTable, NodeTableConstants DEF NewBuilder, Builders

LEMMA PushKeepsBuilders ==
  ASSUME NEW b \in Builders, NEW start, NEW page \in Pages
  PROVE  AfterPush(b, start, page) \in Builders
<1>1. b.table \in Tables
  BY DEF Builders
<1>2. Merged(b, start, page) \in Tables
  BY <1>1, MergedIsTable, PushCollectsTables DEF Merged, Pages
<1>3. NewBuilder \in Builders
  BY NewIsBuilder
<1>4. [expected |-> 0, table |-> Merged(b, start, page)] \in Builders
  BY <1>2, NodeTableConstants DEF Builders
<1>5. ASSUME ~Ignores(b, start), ~page.bad, ~Publishes(b, start, page)
      PROVE  Continued(Merged(b, start, page)) \in Builders
  <2> DEFINE table == Merged(b, start, page)
  <2>1. DOMAIN table \in SUBSET NodeID /\ DOMAIN table # {}
    BY <1>2, <1>5 DEF Merged, Publishes, EndsTable, Tables
  <2>2. Max(DOMAIN table) \in NodeID
    BY <2>1, LastNode
  <2>3. Successor(Max(DOMAIN table)) \in 0..MaxNode
    BY <2>2, NodeTableConstants DEF Successor, NodeID
  <2> QED
    BY <1>2, <1>3, <2>3 DEF Continued, Builders
<1> QED
  BY <1>3, <1>4, <1>5 DEF AfterPush
=============================================================================
