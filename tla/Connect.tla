------------------------------ MODULE Connect ------------------------------
(***************************************************************************)
(* The Kafka Connect worker and the one Debezium connector on it, as far   *)
(* as those who talk to its REST API can tell.  It is not part of this     *)
(* repository: what it does is taken from how register_connector.py, the   *)
(* exporter, the DAG and the runbook use it.                               *)
(***************************************************************************)

VARIABLES
  worker,     \* does the REST API answer?
  submitted,  \* has the worker a config for the connector?
  status      \* what /connectors/<name>/status says

connect == <<worker, submitted, status>>

(* "absent" is a 404; "starting" has no running task yet; in "task failed"  *)
(* the connector itself is still RUNNING.                                   *)
Statuses == {"absent", "starting", "running", "task failed", "connector failed"}

\* The worker picks up the config; the task starts, or does not.
Assign ==
  /\ worker /\ submitted /\ status = "absent" /\ status' = "starting"
  /\ UNCHANGED <<worker, submitted>>

TaskStarts ==
  /\ worker /\ status = "starting"
  /\ status' = "running"
  /\ UNCHANGED <<worker, submitted>>

\* errors.tolerance = none; or PostgreSQL was away longer than errors.retry.timeout.
Fails ==
  /\ worker /\ status \in {"starting", "running"}
  /\ status' \in {"task failed", "connector failed"}
  /\ UNCHANGED <<worker, submitted>>

\* docs/RUNBOOK.md, debezium-connector-down: POST .../restart.
OperatorRestarts ==
  /\ worker /\ status \in {"task failed", "connector failed"}
  /\ status' = "starting"
  /\ UNCHANGED <<worker, submitted>>

WorkerStops == worker /\ worker' = FALSE /\ UNCHANGED <<submitted, status>>

\* The configs are in a topic: a restarted worker starts its connector again.
WorkerStarts ==
  /\ ~worker /\ worker' = TRUE
  /\ status' = IF submitted THEN "starting" ELSE "absent"
  /\ UNCHANGED submitted

ConnectInit == worker \in BOOLEAN /\ submitted = FALSE /\ status = "absent"

ConnectTypeOK ==
  /\ worker \in BOOLEAN /\ submitted \in BOOLEAN /\ status \in Statuses
  /\ ~submitted => status = "absent"

=============================================================================
