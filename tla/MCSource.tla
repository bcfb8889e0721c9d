------------------------------ MODULE MCSource ------------------------------
(* Both kinds of source, with and without a timeout and a retry limit.       *)
EXTENDS Source

MCConfigs ==
  [kind : {"tcp", "serial"}, timed : BOOLEAN, limit : {0, 1, 2}]
=============================================================================
