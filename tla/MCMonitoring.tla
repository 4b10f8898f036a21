---------------------------- MODULE MCMonitoring ----------------------------
(* Monitoring has one connector, three targets and no bounds to choose.     *)
EXTENDS Monitoring

=============================================================================
