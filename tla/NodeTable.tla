------------------------------ MODULE NodeTable -----------------------------
(***************************************************************************)
(* The node table builder (observer/node_table.rs): the controller reads a *)
(* gateway's node table page by page, and the builder, which only listens, *)
(* pieces the pages together again and publishes the table when it sees    *)
(* the empty page that ends it.                                            *)
(*                                                                         *)
(* A node address is a number, 0 standing for NodeAddress::ZERO and for    *)
(* no node id at all (expected_next = None).                               *)
(***************************************************************************)
EXTENDS Naturals, FiniteSetsExt

CONSTANTS
  MaxNode,    \* NodeID::MAX: 65535 in the code
  Address     \* long addresses

ASSUME NodeTableConstants == MaxNode \in Nat \ {0}

NodeID == 1..MaxNode
Tables == UNION {[nodes -> Address] : nodes \in SUBSET NodeID}
EmptyTable == [n \in {} |-> n]

\* A page: its entries by node id (those before the first entry with the
\* invalid node id 0, if it is bad).  Their order does not matter.
Pages == [entries : Tables, bad : BOOLEAN]

Builders == [expected : 0..MaxNode, table : Tables]
NewBuilder == [expected |-> 0, table |-> EmptyTable]

Successor(n) == IF n = MaxNode THEN 0 ELSE n + 1

(***************************************************************************)
(* NodeTableBuilder::push: what it leaves in the builder b, and whether it *)
(* returns the table collected so far.                                     *)
(***************************************************************************)
\* Mutant: any page continues the table.
ContinuesAnyPage(b, start) == TRUE

Continues(b, start) == b.expected = start

Ignores(b, start) == ~Continues(b, start) /\ start = 0

\* Mutant: a page from elsewhere does not clear the table.
CollectedAnyway(b, start) == b.table

Collected(b, start) == IF Continues(b, start) THEN b.table ELSE EmptyTable

\* Mutant: a page replaces the ones before it.
MergedForgetsPages(b, start, page) == page.entries

Merged(b, start, page) ==
  LET new == page.entries
      old == Collected(b, start)
  IN  [n \in DOMAIN new \cup DOMAIN old |-> IF n \in DOMAIN new THEN new[n] ELSE old[n]]

EndsTable(page) == ~page.bad /\ DOMAIN page.entries = {}
Publishes(b, start, page) == ~Ignores(b, start) /\ EndsTable(page)

\* Mutant: the next page is expected to start with the last node of this one.
ContinuedAtLast(table) == [expected |-> Max(DOMAIN table), table |-> table]

Continued(table) ==
  LET next == Successor(Max(DOMAIN table))
  IN  IF next = 0 THEN NewBuilder ELSE [expected |-> next, table |-> table]

AfterPush(b, start, page) ==
  CASE Ignores(b, start) -> NewBuilder
    [] ~Ignores(b, start) /\ page.bad ->
         [expected |-> 0, table |-> Merged(b, start, page)]
    [] Publishes(b, start, page) -> NewBuilder
    [] OTHER -> Continued(Merged(b, start, page))
=============================================================================
