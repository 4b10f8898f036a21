---------------------------- MODULE Registration ----------------------------
(***************************************************************************)
(* scripts/register_connector.py: wait for Connect, PUT the connector's    *)
(* config, poll its status until it runs.  The compose service             *)
(* connect-init runs it and, with restart: on-failure, runs it again until *)
(* it exits 0.                                                             *)
(*                                                                         *)
(* One deadline, WAIT_SECONDS after the start, bounds both loops.  It may  *)
(* pass at any of their iterations: time itself is left out.               *)
(***************************************************************************)
EXTENDS Connect

VARIABLES
  rpc,   \* where main() stands
  code   \* the exit code, "none" while it runs

registration == <<rpc, code>>

Exit(c) == rpc' = "exited" /\ code' = c
GoTo(l) == rpc' = l /\ UNCHANGED code

\* load_payload: the template is read and resolved.
Load == rpc = "load" /\ GoTo("wait") /\ UNCHANGED connect

\* A template that cannot be read, or names a variable that is not set.
LoadFails == rpc = "load" /\ Exit("2") /\ UNCHANGED connect

\* wait_for_connect.
WaitForConnect ==
  /\ rpc = "wait" /\ worker /\ GoTo("put")
  /\ UNCHANGED connect

\* PUT /connectors/<name>/config creates or updates.
Put ==
  /\ rpc = "put" /\ worker /\ submitted' = TRUE /\ GoTo("poll")
  /\ UNCHANGED <<worker, status>>

\* An error, or no answer: the config may be there all the same.
PutFails ==
  /\ rpc = "put" /\ Exit("1")
  /\ submitted' \in {submitted, worker \/ submitted}
  /\ UNCHANGED <<worker, status>>

\* wait_for_running: an answer that is neither good nor bad is asked for again.
Poll ==
  /\ rpc = "poll" /\ worker
  /\ \/ status = "running" /\ Exit("0")
     \/ status \in {"task failed", "connector failed"} /\ Exit("1")
  /\ UNCHANGED connect

\* TimeoutError of either loop.
DeadlinePasses ==
  /\ rpc \in {"wait", "poll"} /\ Exit("1")
  /\ UNCHANGED connect

\* Slip: a configuration error is final.
RestartOnOne ==
  /\ rpc = "exited" /\ code = "1"
  /\ rpc' = "load" /\ code' = "none"
  /\ UNCHANGED connect

\* Slip: the code of the last run stays.
RestartWithCode ==
  /\ rpc = "exited" /\ code # "0"
  /\ GoTo("load")
  /\ UNCHANGED connect

\* restart: on-failure.
Restart ==
  /\ rpc = "exited" /\ code # "0"
  /\ rpc' = "load" /\ code' = "none"
  /\ UNCHANGED connect

\* docs/RUNBOOK.md, a lost slot: delete the connector and register it again.
OperatorReregisters ==
  /\ worker /\ status \in {"task failed", "connector failed"} /\ rpc = "exited"
  /\ submitted' = FALSE /\ status' = "absent"
  /\ rpc' = "load" /\ code' = "none"
  /\ UNCHANGED worker

RegistrationInit == rpc = "load" /\ code = "none"

RegistrationStep == Load \/ WaitForConnect \/ Put \/ Poll \/ Restart

RegistrationTypeOK ==
  /\ rpc \in {"load", "wait", "put", "poll", "exited"}
  /\ code \in {"none", "0", "1", "2"}
  /\ rpc = "exited" <=> code # "none"

=============================================================================
