---------------------------- MODULE MCEnumeration ---------------------------
(***************************************************************************)
(* One gateway that is assigned one of two ids, and moved to the other; a  *)
(* node table of one node.  No more than MaxEvents times does a fault or a *)
(* failure happen or a table get read, in any mixture of the three.        *)
(***************************************************************************)
EXTENDS Enumeration, Sequences

CONSTANTS a1, v1, MaxEvents

MCVersionOf == [a \in Address |-> v1]

\* A page with the one node and the page that ends a table.
MCPages == {[entries |-> [n \in {1} |-> a1], bad |-> FALSE],
            [entries |-> EmptyTable, bad |-> FALSE]}

\* The addresses it prints are barcodes, which are those of barcode.rs:185, 190.
Barcodes == INSTANCE Barcode WITH Invalid <- Absent

ASSUME BarcodeVectors ==
  LET address == Barcodes!Prefix \o <<4, 0, 0, 0, 9, 10, 5, 7, 10, 2>>
      barcode == [leading |-> 4, digits |-> <<9, 10, 5, 7, 10, 2>>, check |-> 4]
  IN  /\ Barcodes!Format(address) = barcode
      /\ Barcodes!Parse(barcode) = address
      /\ Barcodes!Parse([barcode EXCEPT !.check = 0]) = Absent

Few == faults + failures + (IF pages > 0 THEN 1 ELSE 0) <= MaxEvents

\* EnumerationSpec with steps to states of few events only, of which there are
\* always enough for the fairness of EnumerationSpec.
MCSpec ==
  /\ EnumerationInit /\ [][EnumerationNext /\ Few']_enumerationVars
  /\ WF_enumerationVars(Enumerating /\ Few')
  /\ WF_enumerationVars(StartObserver /\ Few')
  /\ WF_enumerationVars(WriteState /\ Few')
=============================================================================
