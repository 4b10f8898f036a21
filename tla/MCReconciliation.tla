-------------------------- MODULE MCReconciliation --------------------------
(* Reconciliation on a small instance: days of two minutes, a lookback of   *)
(* two days.                                                                *)
EXTENDS Reconciliation

=============================================================================
