---------------------------- MODULE MCReportBatch ----------------------------
(***************************************************************************)
(* Instances of ReportBatch for TLC.                                       *)
(***************************************************************************)
EXTENDS ReportBatch
=============================================================================
