---------------------------- MODULE MCReportTimes ---------------------------
(***************************************************************************)
(* ReportTimes with a slot counter of two epochs of four slots each, which *)
(* are four entries of the clock.                                          *)
(***************************************************************************)
EXTENDS ReportTimes

MCSkews == {-3, 0}
MCNoSkews == {0}
=============================================================================
