----------------------------- MODULE MCPipeline -----------------------------
(***************************************************************************)
(* Pipeline with two sequence numbers, so that a third command reuses the  *)
(* first one's.                                                            *)
(***************************************************************************)
EXTENDS Pipeline

MCSequence == 0..Sequences - 1
MCRequest == [type : {"node_table", "string"}, valid : {TRUE}, start : 0..MaxNode]
=============================================================================
