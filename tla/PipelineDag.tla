---------------------------- MODULE PipelineDag ----------------------------
(***************************************************************************)
(* The DAG crypto_analytics_pipeline: task instances under Airflow's       *)
(* trigger rules and retries, the one run_results.json every dbt           *)
(* invocation overwrites, and the two tables of analytics_ops the last     *)
(* tasks write.  Runs follow each other (max_active_runs=1).               *)
(*                                                                         *)
(* Airflow and dbt are modelled as this file uses them: a task runs when   *)
(* its trigger rule is met, an attempt that fails is repeated while        *)
(* retries are left, and dbt leaves its results in the shared target       *)
(* directory when it gets as far as running something.                     *)
(***************************************************************************)
EXTENDS Integers, FiniteSets

CONSTANTS
  MaxRuns,   \* bound: runs of the DAG
  Retries    \* DEFAULT_ARGS["retries"] (2)

ASSUME BoundAssumption == MaxRuns \in Nat /\ Retries \in Nat

VARIABLES
  run,       \* the run being executed, or the last one
  state,     \* state of each task instance of that run
  tries,     \* failed attempts of each one that is not finished
  artifact,  \* target/run_results.json: which invocation wrote it, and its verdict
  published, \* analytics_ops.dbt_test_results: <<run_id, artifact>> per insert
  recorded,  \* analytics_ops.pipeline_runs: <<run_id, status>> per insert
  outcome,   \* state of each finished DAG run, "running" or "none" before
  rebuilt,   \* history: runs whose marts build passed
  refused    \* history: runs in which a dbt build failed with results on disk

vars == <<run, state, tries, artifact, published, recorded, outcome, rebuilt, refused>>

\* Slip: the recorder is made to wait for the docs as well.
UpstreamDocsRecorded ==
  [start     |-> {},
   connector |-> {"start"},
   warehouse |-> {"start"},
   ingest    |-> {"connector", "warehouse"},
   settle    |-> {"ingest"},
   deps      |-> {"settle"},
   freshness |-> {"deps"},
   staging   |-> {"freshness"},
   marts     |-> {"staging"},
   docs      |-> {"marts"},
   publish   |-> {"marts"},
   record    |-> {"publish", "ingest", "docs"},
   finish    |-> {"record"}]

\* start and finish are the EmptyOperators; preflight is a group of two tasks.
Upstream ==
  [start     |-> {},
   connector |-> {"start"},
   warehouse |-> {"start"},
   ingest    |-> {"connector", "warehouse"},
   settle    |-> {"ingest"},
   deps      |-> {"settle"},
   freshness |-> {"deps"},
   staging   |-> {"freshness"},
   marts     |-> {"staging"},
   docs      |-> {"marts"},
   publish   |-> {"marts"},
   record    |-> {"publish", "ingest"},
   finish    |-> {"record"}]

Tasks  == DOMAIN Upstream
Leaves == {t \in Tasks : \A u \in Tasks : t \notin Upstream[u]}

Builds == {"staging", "marts"}

\* Slip: the publisher runs on success only.
RulePublishOnSuccess(t) == IF t \in {"record", "finish"} THEN "all_done" ELSE "all_success"

Rule(t) == IF t \in {"publish", "record", "finish"} THEN "all_done" ELSE "all_success"

(* Attempts a task may still make after a failed one.  An EmptyOperator     *)
(* does not fail, and a sensor that times out is not retried.  A poke that  *)
(* raises would be; nothing reads the sensor but its final state, so one    *)
(* attempt with either outcome stands for all of them.                      *)
RetriesOf(t) ==
  CASE t \in {"start", "finish", "settle"} -> 0
    [] t = "deps" -> 1
    [] OTHER -> Retries

Final == {"success", "failed", "upstream_failed"}

Artifacts  == [run : 1 .. MaxRuns, by : Builds \cup {"docs"}, passed : BOOLEAN]
NoArtifact == [run |-> 0, by |-> "none", passed |-> TRUE]

---------------------------------------------------------------------------
(* What the scheduler does.                                                 *)

Active == run > 0 /\ outcome[run] = "running"

StartRun ==
  /\ ~Active /\ run < MaxRuns
  /\ run' = run + 1
  /\ state' = [t \in Tasks |-> "none"] /\ tries' = [t \in Tasks |-> 0]
  /\ outcome' = [outcome EXCEPT ![run + 1] = "running"]
  /\ UNCHANGED <<artifact, published, recorded, rebuilt, refused>>

UpstreamDone(t) == \A u \in Upstream[t] : state[u] \in Final
UpstreamLost(t) == \E u \in Upstream[t] : state[u] \in {"failed", "upstream_failed"}

\* Slip: the trigger rules only look at tasks that failed themselves.
SkipNear(t) ==
  /\ Active /\ state[t] = "none" /\ Rule(t) = "all_success"
  /\ \E u \in Upstream[t] : state[u] = "failed"
  /\ state' = [state EXCEPT ![t] = "upstream_failed"]
  /\ UNCHANGED <<run, tries, artifact, published, recorded, outcome, rebuilt, refused>>

\* all_success: not run at all once something upstream is lost.
Skip(t) ==
  /\ Active /\ state[t] = "none" /\ Rule(t) = "all_success" /\ UpstreamLost(t)
  /\ state' = [state EXCEPT ![t] = "upstream_failed"]
  /\ UNCHANGED <<run, tries, artifact, published, recorded, outcome, rebuilt, refused>>

MayRun(t) ==
  /\ Active /\ state[t] = "none" /\ UpstreamDone(t)
  /\ Rule(t) = "all_done" \/ ~UpstreamLost(t)

\* Once a task has its final state, how many attempts that took matters no more.
Ends(t, final) ==
  /\ state' = [state EXCEPT ![t] = final]
  /\ tries' = [tries EXCEPT ![t] = 0]

Succeeds(t) == Ends(t, "success")

\* An exception, a timeout, or a worker that dies: retried, then failed.
Fails(t) ==
  IF tries[t] < RetriesOf(t)
  THEN tries' = [tries EXCEPT ![t] = @ + 1] /\ UNCHANGED state
  ELSE Ends(t, "failed")

\* A DAG run fails if one of its leaves did.
EndRun ==
  /\ Active /\ \A t \in Tasks : state[t] \in Final
  /\ outcome' = [outcome EXCEPT ![run] =
       IF \A t \in Leaves : state[t] = "success" THEN "success" ELSE "failed"]
  /\ UNCHANGED <<run, state, tries, artifact, published, recorded, rebuilt, refused>>

---------------------------------------------------------------------------
(* What the tasks do.  One step is one attempt.                             *)

\* The tasks whose effects lie outside this module.
Check(t) ==
  /\ t \in {"start", "connector", "warehouse", "ingest", "settle", "deps",
            "freshness", "finish"}
  /\ MayRun(t)
  /\ \/ Succeeds(t)
     \/ t \notin {"start", "finish"} /\ Fails(t)
  /\ UNCHANGED <<run, artifact, published, recorded, outcome, rebuilt, refused>>

(* dbt build.  Its verdict is the exit code; it may also die before it has  *)
(* written results, or after.                                               *)
DbtBuild(t) ==
  /\ t \in Builds /\ MayRun(t)
  /\ \/ /\ artifact' = [run |-> run, by |-> t, passed |-> TRUE]
        /\ \/ /\ Succeeds(t)
              /\ rebuilt' = IF t = "marts" THEN rebuilt \cup {run} ELSE rebuilt
           \/ Fails(t) /\ UNCHANGED rebuilt
        /\ UNCHANGED refused
     \/ /\ artifact' = [run |-> run, by |-> t, passed |-> FALSE]
        /\ Fails(t)
        /\ refused' = refused \cup {run}
        /\ UNCHANGED rebuilt
     \/ Fails(t) /\ UNCHANGED <<artifact, rebuilt, refused>>
  /\ UNCHANGED <<run, published, recorded, outcome>>

(* dbt docs generate || true: succeeds whatever dbt says, and overwrites    *)
(* the results too; only a timeout fails it.                                *)
DbtDocs ==
  /\ MayRun("docs")
  /\ \/ artifact' = [run |-> run, by |-> "docs", passed |-> TRUE]
     \/ UNCHANGED artifact
  /\ Succeeds("docs") \/ Fails("docs")
  /\ UNCHANGED <<run, published, recorded, outcome, rebuilt, refused>>

\* Slip: the file is taken to be there.
PublishUnchecked ==
  /\ MayRun("publish")
  /\ published' = published \cup {<<run, artifact>>}
  /\ Succeeds("publish") \/ Fails("publish")
  /\ UNCHANGED <<run, artifact, recorded, outcome, rebuilt, refused>>

(* publish_dbt_results: whatever file is there, under this run's id.        *)
PublishResults ==
  /\ MayRun("publish")
  /\ \/ /\ artifact # NoArtifact
        /\ published' = published \cup {<<run, artifact>>}
     \/ artifact = NoArtifact /\ UNCHANGED published
  /\ Succeeds("publish") \/ Fails("publish")
  /\ UNCHANGED <<run, artifact, recorded, outcome, rebuilt, refused>>

\* The client cannot insert.
PublishFails ==
  /\ MayRun("publish") /\ Fails("publish")
  /\ UNCHANGED <<run, artifact, published, recorded, outcome, rebuilt, refused>>

\* Slip: only the tasks record_run depends on are looked at.
RunStatusNear ==
  IF \E t \in Upstream["record"] : state[t] = "failed" THEN "failed" ELSE "success"

\* The status record_run derives from the task instances as they are now.
RunStatus == IF \E t \in Tasks : state[t] = "failed" THEN "failed" ELSE "success"

RecordRun ==
  /\ MayRun("record")
  /\ recorded' = recorded \cup {<<run, RunStatus>>}
  /\ Succeeds("record") \/ Fails("record")
  /\ UNCHANGED <<run, artifact, published, outcome, rebuilt, refused>>

RecordFails ==
  /\ MayRun("record") /\ Fails("record")
  /\ UNCHANGED <<run, artifact, published, recorded, outcome, rebuilt, refused>>

---------------------------------------------------------------------------
Init ==
  /\ run = 0
  /\ state = [t \in Tasks |-> "none"] /\ tries = [t \in Tasks |-> 0]
  /\ artifact = NoArtifact /\ published = {} /\ recorded = {}
  /\ outcome = [r \in 1 .. MaxRuns |-> "none"]
  /\ rebuilt = {} /\ refused = {}

Attempt ==
  \/ \E t \in Tasks : Check(t) \/ DbtBuild(t)
  \/ DbtDocs \/ PublishResults \/ PublishFails \/ RecordRun \/ RecordFails

Schedule == EndRun \/ \E t \in Tasks : Skip(t)

Next == StartRun \/ Attempt \/ Schedule

Spec == Init /\ [][Next]_vars

\* The scheduler and its workers keep working; attempts are bounded by timeouts.
FairSpec == Spec /\ WF_vars(Attempt \/ Schedule)

---------------------------------------------------------------------------
(* Properties.                                                              *)

TypeOK ==
  /\ run \in 0 .. MaxRuns
  /\ state \in [Tasks -> Final \cup {"none"}]
  /\ tries \in [Tasks -> Nat] /\ \A t \in Tasks : tries[t] <= RetriesOf(t)
  /\ artifact \in Artifacts \cup {NoArtifact}
  /\ published \subseteq (1 .. MaxRuns) \X Artifacts
  /\ recorded \subseteq (1 .. MaxRuns) \X {"success", "failed"}
  /\ outcome \in [1 .. MaxRuns -> {"none", "running", "success", "failed"}]
  /\ rebuilt \subseteq 1 .. MaxRuns /\ refused \subseteq 1 .. MaxRuns

(* A DAG run is green only if its marts were rebuilt and their tests        *)
(* passed.  publish, record and finish run whatever happened (ALL_DONE), so *)
(* the only task that carries a failure to the run's state is dbt_docs.     *)
GreenMeansRebuilt == \A r \in 1 .. MaxRuns : outcome[r] = "success" => r \in rebuilt

(* A row of pipeline_runs says success only of a run whose marts were       *)
(* rebuilt, although the tasks that never ran are not `failed' and the      *)
(* recorder looks at the others while the run is still going on.            *)
RecordedMeansRebuilt == \A r \in 1 .. MaxRuns : <<r, "success">> \in recorded => r \in rebuilt

(* "Runs even when the dbt tasks failed - especially then": when a run in   *)
(* which a dbt build reported failures ends without having rebuilt the      *)
(* marts, results of a dbt command of that very run are in the warehouse,   *)
(* unless the publisher itself could not write.  They need not be those     *)
(* with the failures: a retry that came out green writes over them.         *)
FailuresArePublished ==
  \A r \in refused :
    outcome[r] = "failed" /\ r = run /\ r \notin rebuilt
      => state["publish"] = "failed" \/ \E p \in published : p[1] = r /\ p[2].run = r

(* Every run comes to an end: no trigger rule waits for a task that will    *)
(* never run, and retries do not go on for ever.                            *)
RunsEnd == Active ~> ~Active

=============================================================================
