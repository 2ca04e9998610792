-------------------------- MODULE MCSqliteBatchLedger --------------------------
(* Two batches of one tenant and a younger one of another; the window holds one. *)
EXTENDS SqliteBatchLedger

CONSTANTS ta, tb

MCTenant == <<ta, ta, tb>>
=============================================================================
