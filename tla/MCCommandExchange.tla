-------------------------- MODULE MCCommandExchange -------------------------
(***************************************************************************)
(* CommandExchange with two sequence numbers, so that a third command      *)
(* reuses the first one's.                                                 *)
(***************************************************************************)
EXTENDS CommandExchange

MCSequence == 0..Sequences - 1
MCRequest == 1..MaxCommands

=============================================================================
