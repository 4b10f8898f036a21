------------------------- MODULE PipelineDagProofs -------------------------
(***************************************************************************)
(* Proofs about PipelineDag, for every number of runs and of retries.      *)
(***************************************************************************)
EXTENDS PipelineDag, FiniteSetTheorems, TLAPS

---------------------------------------------------------------------------
(* The inductive invariant.                                                 *)

(* What a task instance's state says of the ones upstream of it, by its     *)
(* trigger rule.                                                            *)
StateInv ==
  \A t \in Tasks :
    /\ state[t] = "upstream_failed" => UpstreamLost(t)
    /\ Rule(t) = "all_success" /\ state[t] = "success"
         => \A u \in Upstream[t] : state[u] = "success"
    /\ Rule(t) = "all_done" /\ state[t] \in Final => UpstreamDone(t)

\* The state of the marts task is what the history says of the current run.
MartsInv == run > 0 /\ state["marts"] = "success" => run \in rebuilt

IInv == TypeOK /\ StateInv /\ MartsInv /\ GreenMeansRebuilt /\ RecordedMeansRebuilt

---------------------------------------------------------------------------
(* Facts about the graph and the operators.                                 *)

LEMMA TasksAre ==
  Tasks = {"start", "connector", "warehouse", "ingest", "settle", "deps", "freshness",
           "staging", "marts", "docs", "publish", "record", "finish"}
BY DEF Tasks, Upstream

LEMMA UpstreamAre == \A t \in Tasks : Upstream[t] \subseteq Tasks
BY TasksAre DEF Upstream

LEMMA RulesAre == \A t \in Tasks : Rule(t) \in {"all_success", "all_done"}
BY DEF Rule

LEMMA RetriesAre == \A t \in Tasks : RetriesOf(t) \in Nat
<1>1. \A t : RetriesOf(t) \in {0, 1, Retries}
  BY Zenon DEF RetriesOf
<1> QED BY <1>1, BoundAssumption

\* A task that ends without having been run, or that runs, does so once.
Moves(t) ==
  \E final \in Final :
    /\ state' = [state EXCEPT ![t] = final]
    /\ \/ final = "upstream_failed" /\ Rule(t) = "all_success" /\ UpstreamLost(t)
       \/ final # "upstream_failed" /\ MayRun(t)

LEMMA AttemptMoves ==
  ASSUME TypeOK, NEW t \in Tasks, MayRun(t), Succeeds(t) \/ Fails(t)
  PROVE  /\ UNCHANGED state \/ Moves(t)
         /\ state'[t] = "success" <=> Succeeds(t)
         /\ state' \in [Tasks -> Final \cup {"none"}]
         /\ tries' \in [Tasks -> Nat] /\ \A u \in Tasks : tries'[u] <= RetriesOf(u)
<1>1. state[t] = "none" /\ state \in [Tasks -> Final \cup {"none"}] /\ tries \in [Tasks -> Nat]
  BY DEF MayRun, TypeOK
<1>2. CASE Succeeds(t)
  BY <1>1, <1>2, RetriesAre DEF Succeeds, Ends, Moves, Final, TypeOK
<1>3. CASE Fails(t) /\ tries[t] < RetriesOf(t)
  <2>1. state' = state /\ tries' = [tries EXCEPT ![t] = @ + 1]
    BY <1>3 DEF Fails
  <2>2. ~Succeeds(t)
    BY <1>1, <2>1 DEF Succeeds, Ends
  <2> QED BY <1>1, <1>3, <2>1, <2>2, RetriesAre DEF TypeOK
<1>4. CASE Fails(t) /\ ~(tries[t] < RetriesOf(t))
  <2>1. state' = [state EXCEPT ![t] = "failed"] /\ tries' = [tries EXCEPT ![t] = 0]
    BY <1>4 DEF Fails, Ends
  <2>2. ~Succeeds(t)
    BY <1>1, <2>1 DEF Succeeds, Ends
  <2> QED BY <1>1, <2>1, <2>2, RetriesAre DEF Moves, Final, TypeOK
<1> QED BY <1>2, <1>3, <1>4

LEMMA MovesKeepsStates ==
  ASSUME TypeOK, StateInv, NEW t \in Tasks, state[t] = "none", Moves(t)
  PROVE  StateInv'
<1>1. PICK final \in Final :
        /\ state' = [state EXCEPT ![t] = final]
        /\ \/ final = "upstream_failed" /\ Rule(t) = "all_success" /\ UpstreamLost(t)
           \/ final # "upstream_failed" /\ MayRun(t)
  BY DEF Moves
<1>2. /\ state'[t] = final
      /\ \A u \in Tasks : u # t => state'[u] = state[u]
      /\ \A u \in Tasks : state[u] # "none" => state'[u] = state[u]
  BY <1>1 DEF TypeOK
<1>3. \A u \in Tasks : /\ UpstreamLost(u) => UpstreamLost(u)'
                       /\ UpstreamDone(u) => UpstreamDone(u)'
  BY <1>2, UpstreamAre DEF UpstreamLost, UpstreamDone, Final
<1> SUFFICES ASSUME NEW u \in Tasks
             PROVE  /\ state'[u] = "upstream_failed" => UpstreamLost(u)'
                    /\ Rule(u) = "all_success" /\ state'[u] = "success"
                         => \A v \in Upstream[u] : state'[v] = "success"
                    /\ Rule(u) = "all_done" /\ state'[u] \in Final => UpstreamDone(u)'
  BY DEF StateInv
<1>4. CASE u # t
  <2>1. state'[u] = state[u]
    BY <1>2, <1>4
  <2>2. Rule(u) = "all_success" /\ state[u] = "success"
          => \A v \in Upstream[u] : state'[v] = "success"
    BY <1>2, UpstreamAre DEF StateInv
  <2> QED BY <1>3, <2>1, <2>2 DEF StateInv
<1>5. CASE u = t
  <2>1. state'[t] = "upstream_failed" => UpstreamLost(t)'
    BY <1>1, <1>2, <1>3
  <2>2. Rule(t) = "all_success" /\ state'[t] = "success"
          => \A v \in Upstream[t] : state'[v] = "success"
    <3> SUFFICES ASSUME Rule(t) = "all_success", state'[t] = "success", NEW v \in Upstream[t]
                 PROVE  state'[v] = "success"
      OBVIOUS
    <3>1. MayRun(t)
      BY <1>1, <1>2
    <3>2. UpstreamDone(t) /\ ~UpstreamLost(t)
      BY <3>1 DEF MayRun
    <3>3. state[v] = "success"
      BY <3>2 DEF UpstreamDone, UpstreamLost, Final
    <3> QED BY <1>2, <3>3, UpstreamAre
  <2>3. Rule(t) = "all_done" /\ state'[t] \in Final => UpstreamDone(t)'
    <3>1. Rule(t) = "all_done" => MayRun(t)
      BY <1>1
    <3> QED BY <3>1, <1>3 DEF MayRun
  <2> QED BY <1>5, <2>1, <2>2, <2>3
<1> QED BY <1>4, <1>5

(* If no task failed, none was skipped: a skipped one has a failed or a     *)
(* skipped one upstream, and start has nothing upstream.                    *)
LEMMA NobodyFailedNobodySkipped ==
  ASSUME StateInv, \A t \in Tasks : state[t] # "failed"
  PROVE  state["marts"] # "upstream_failed"
<1>1. \A t \in Tasks : state[t] = "upstream_failed"
                       => \E u \in Upstream[t] : state[u] = "upstream_failed"
  BY UpstreamAre DEF StateInv, UpstreamLost
<1>2. /\ "start" \in Tasks /\ Upstream["start"] = {}
      /\ "connector" \in Tasks /\ Upstream["connector"] = {"start"}
      /\ "warehouse" \in Tasks /\ Upstream["warehouse"] = {"start"}
      /\ "ingest" \in Tasks /\ Upstream["ingest"] = {"connector", "warehouse"}
      /\ "settle" \in Tasks /\ Upstream["settle"] = {"ingest"}
      /\ "deps" \in Tasks /\ Upstream["deps"] = {"settle"}
      /\ "freshness" \in Tasks /\ Upstream["freshness"] = {"deps"}
      /\ "staging" \in Tasks /\ Upstream["staging"] = {"freshness"}
      /\ "marts" \in Tasks /\ Upstream["marts"] = {"staging"}
  BY TasksAre DEF Upstream
<1>3. state["connector"] # "upstream_failed" /\ state["warehouse"] # "upstream_failed"
  BY <1>1, <1>2
<1>4. state["ingest"] # "upstream_failed"
  BY <1>1, <1>2, <1>3
<1>5. state["deps"] # "upstream_failed"
  BY <1>1, <1>2, <1>4
<1>6. state["staging"] # "upstream_failed"
  BY <1>1, <1>2, <1>5
<1> QED BY <1>1, <1>2, <1>6

\* dbt_docs is a leaf, and it needs the marts.
LEMMA DocsIsLeaf ==
  /\ "docs" \in Leaves /\ "docs" \in Tasks
  /\ Upstream["docs"] = {"marts"} /\ Rule("docs") = "all_success"
<1>1. \A u \in Tasks : "docs" \notin Upstream[u]
  BY TasksAre DEF Upstream
<1> QED BY <1>1, TasksAre DEF Upstream, Rule, Leaves

LEMMA RecorderIsLast ==
  /\ Upstream["record"] = {"publish", "ingest"} /\ Upstream["publish"] = {"marts"}
  /\ "publish" \in Tasks /\ Rule("publish") = "all_done"
BY TasksAre DEF Upstream, Rule

---------------------------------------------------------------------------
(* Every step.                                                              *)

\* What an attempt at a task may do besides changing its state.
LEMMA AttemptKeeps ==
  ASSUME IInv, NEW t \in Tasks, MayRun(t), Succeeds(t) \/ Fails(t),
         UNCHANGED <<run, outcome>>,
         artifact' \in Artifacts \cup {NoArtifact},
         published' \subseteq (1 .. MaxRuns) \X Artifacts,
         recorded' \subseteq (1 .. MaxRuns) \X {"success", "failed"},
         rebuilt \subseteq rebuilt', rebuilt' \subseteq 1 .. MaxRuns,
         refused' \subseteq 1 .. MaxRuns,
         t = "marts" /\ Succeeds(t) => run \in rebuilt',
         \A r \in 1 .. MaxRuns : <<r, "success">> \in recorded' => r \in rebuilt'
  PROVE  IInv'
<1>1. /\ UNCHANGED state \/ Moves(t)
      /\ state'[t] = "success" <=> Succeeds(t)
      /\ state' \in [Tasks -> Final \cup {"none"}]
      /\ tries' \in [Tasks -> Nat] /\ \A u \in Tasks : tries'[u] <= RetriesOf(u)
  BY AttemptMoves DEF IInv
<1>2. TypeOK'
  BY <1>1 DEF IInv, TypeOK
<1>3. StateInv'
  <2>1. state[t] = "none"
    BY DEF MayRun
  <2>2. CASE UNCHANGED state
    BY <2>2 DEF IInv, StateInv, UpstreamLost, UpstreamDone
  <2> QED BY <1>1, <2>1, <2>2, MovesKeepsStates DEF IInv
<1>4. MartsInv'
  <2>1. CASE t = "marts"
    BY <1>1, <2>1 DEF MartsInv
  <2>2. CASE t # "marts"
    <3>1. state'["marts"] = state["marts"]
      BY <1>1, <2>2, TasksAre DEF Moves, IInv, TypeOK
    <3> QED BY <3>1 DEF IInv, MartsInv
  <2> QED BY <2>1, <2>2
<1>5. GreenMeansRebuilt' /\ RecordedMeansRebuilt'
  BY DEF IInv, GreenMeansRebuilt, RecordedMeansRebuilt
<1> QED BY <1>2, <1>3, <1>4, <1>5 DEF IInv

LEMMA InitInv == Init => IInv
<1> SUFFICES ASSUME Init PROVE IInv
  OBVIOUS
<1>1. TypeOK
  BY BoundAssumption, RetriesAre DEF Init, TypeOK
<1>2. StateInv
  BY DEF Init, StateInv, Final
<1> QED BY <1>1, <1>2 DEF Init, IInv, MartsInv, GreenMeansRebuilt, RecordedMeansRebuilt

LEMMA StepInv == IInv /\ [Next]_vars => IInv'
<1> SUFFICES ASSUME IInv, [Next]_vars PROVE IInv'
  OBVIOUS
<1> USE DEF IInv
<1>0. run \in Nat /\ MaxRuns \in Nat /\ (Active => run \in 1 .. MaxRuns)
  BY BoundAssumption DEF TypeOK, Active
<1>1. CASE StartRun
  <2>1. run' = run + 1 /\ run' \in 1 .. MaxRuns
    BY <1>0, <1>1 DEF StartRun
  <2>2. /\ state' = [t \in Tasks |-> "none"] /\ tries' = [t \in Tasks |-> 0]
        /\ outcome' = [outcome EXCEPT ![run + 1] = "running"]
        /\ UNCHANGED <<artifact, published, recorded, rebuilt, refused>>
    BY <1>1 DEF StartRun
  <2>3. TypeOK'
    BY <2>1, <2>2, <1>0, RetriesAre DEF TypeOK
  <2>4. StateInv'
    BY <2>2 DEF StateInv, Final
  <2>5. MartsInv'
    BY <2>2, TasksAre DEF MartsInv
  <2>6. GreenMeansRebuilt' /\ RecordedMeansRebuilt'
    BY <2>1, <2>2 DEF TypeOK, GreenMeansRebuilt, RecordedMeansRebuilt
  <2> QED BY <2>3, <2>4, <2>5, <2>6
<1>2. ASSUME NEW t \in Tasks, Check(t) PROVE IInv'
  <2>1. /\ MayRun(t) /\ (Succeeds(t) \/ Fails(t)) /\ t # "marts"
        /\ UNCHANGED <<run, artifact, published, recorded, outcome, rebuilt, refused>>
    BY <1>2 DEF Check
  <2> QED BY <2>1, AttemptKeeps DEF TypeOK, RecordedMeansRebuilt
<1>3. ASSUME NEW t \in Tasks, DbtBuild(t) PROVE IInv'
  <2>1. MayRun(t) /\ (Succeeds(t) \/ Fails(t)) /\ UNCHANGED <<run, published, recorded, outcome>>
    BY <1>3 DEF DbtBuild
  <2>2. run \in 1 .. MaxRuns /\ t \in Builds
    BY <1>0, <1>3, <2>1 DEF MayRun, DbtBuild
  <2>3. artifact' \in Artifacts \cup {NoArtifact}
    <3>1. \A passed \in BOOLEAN : [run |-> run, by |-> t, passed |-> passed] \in Artifacts
      BY <2>2 DEF Artifacts
    <3>2. \/ artifact' = artifact
          \/ artifact' = [run |-> run, by |-> t, passed |-> TRUE]
          \/ artifact' = [run |-> run, by |-> t, passed |-> FALSE]
      BY <1>3 DEF DbtBuild
    <3> QED BY <3>1, <3>2 DEF TypeOK
  <2>4. rebuilt' \in {rebuilt, rebuilt \cup {run}} /\ refused' \in {refused, refused \cup {run}}
    BY <1>3 DEF DbtBuild
  <2>5. t = "marts" /\ Succeeds(t) => run \in rebuilt'
    <3>1. Fails(t) => ~Succeeds(t)
      BY <2>1 DEF Fails, Succeeds, Ends, MayRun, TypeOK
    <3> QED BY <1>3, <3>1 DEF DbtBuild
  <2> QED BY <2>1, <2>2, <2>3, <2>4, <2>5, AttemptKeeps DEF TypeOK, RecordedMeansRebuilt
<1>4. CASE DbtDocs
  <2>1. /\ MayRun("docs") /\ (Succeeds("docs") \/ Fails("docs"))
        /\ UNCHANGED <<run, published, recorded, outcome, rebuilt, refused>>
        /\ artifact' \in {artifact, [run |-> run, by |-> "docs", passed |-> TRUE]}
    BY <1>4 DEF DbtDocs
  <2>2. run \in 1 .. MaxRuns
    BY <1>0, <2>1 DEF MayRun
  <2>3. artifact' \in Artifacts \cup {NoArtifact}
    <3>1. [run |-> run, by |-> "docs", passed |-> TRUE] \in Artifacts
      BY <2>2 DEF Artifacts
    <3> QED BY <2>1, <3>1 DEF TypeOK
  <2> QED BY <2>1, <2>3, AttemptKeeps, DocsIsLeaf DEF TypeOK, RecordedMeansRebuilt
<1>5. CASE PublishResults
  <2>1. /\ MayRun("publish") /\ (Succeeds("publish") \/ Fails("publish"))
        /\ UNCHANGED <<run, artifact, recorded, outcome, rebuilt, refused>>
    BY <1>5 DEF PublishResults
  <2>2. run \in 1 .. MaxRuns
    BY <1>0, <2>1 DEF MayRun
  <2>3. \/ published' = published
        \/ artifact # NoArtifact /\ published' = published \cup {<<run, artifact>>}
    BY <1>5 DEF PublishResults
  <2>4. published' \subseteq (1 .. MaxRuns) \X Artifacts
    BY <2>2, <2>3 DEF TypeOK
  <2> QED BY <2>1, <2>4, AttemptKeeps, RecorderIsLast DEF TypeOK, RecordedMeansRebuilt
<1>6. CASE PublishFails
  BY <1>6, AttemptKeeps, RecorderIsLast DEF PublishFails, TypeOK, RecordedMeansRebuilt
<1>7. CASE RecordRun
  <2>1. /\ MayRun("record") /\ (Succeeds("record") \/ Fails("record")) /\ "record" \in Tasks
        /\ UNCHANGED <<run, artifact, published, outcome, rebuilt, refused>>
        /\ recorded' = recorded \cup {<<run, RunStatus>>}
    BY <1>7, TasksAre DEF RecordRun
  <2>2. run \in 1 .. MaxRuns /\ run > 0
    BY <1>0, <2>1 DEF MayRun
  <2>3. RunStatus \in {"success", "failed"}
    BY DEF RunStatus
  <2>4. RunStatus = "success" => run \in rebuilt
    <3> SUFFICES ASSUME RunStatus = "success" PROVE run \in rebuilt
      OBVIOUS
    <3>1. \A t \in Tasks : state[t] # "failed"
      BY DEF RunStatus
    <3>2. state["publish"] \in Final
      BY <2>1, RecorderIsLast DEF MayRun, UpstreamDone
    <3>3. state["marts"] \in Final
      BY <3>2, RecorderIsLast DEF StateInv, UpstreamDone
    <3>4. state["marts"] = "success"
      BY <3>1, <3>3, NobodyFailedNobodySkipped, TasksAre DEF Final
    <3> QED BY <2>2, <3>4 DEF MartsInv
  <2>5. /\ recorded' \subseteq (1 .. MaxRuns) \X {"success", "failed"}
        /\ \A r \in 1 .. MaxRuns : <<r, "success">> \in recorded' => r \in rebuilt'
    BY <2>1, <2>2, <2>3, <2>4 DEF TypeOK, RecordedMeansRebuilt
  <2> QED BY <2>1, <2>5, AttemptKeeps DEF TypeOK
<1>8. CASE RecordFails
  BY <1>8, AttemptKeeps, TasksAre DEF RecordFails, TypeOK, RecordedMeansRebuilt
<1>9. CASE EndRun
  <2>1. /\ Active /\ run \in 1 .. MaxRuns
        /\ UNCHANGED <<run, state, tries, artifact, published, recorded, rebuilt, refused>>
        /\ outcome' = [outcome EXCEPT ![run] =
             IF \A t \in Leaves : state[t] = "success" THEN "success" ELSE "failed"]
    BY <1>0, <1>9 DEF EndRun
  <2>2. (\A t \in Leaves : state[t] = "success") => run \in rebuilt
    <3> SUFFICES ASSUME \A t \in Leaves : state[t] = "success" PROVE run \in rebuilt
      OBVIOUS
    <3>1. state["docs"] = "success"
      BY DocsIsLeaf
    <3>2. state["marts"] = "success"
      BY <3>1, DocsIsLeaf DEF StateInv
    <3> QED BY <2>1, <3>2 DEF MartsInv
  <2>3. TypeOK'
    BY <2>1 DEF TypeOK
  <2>4. GreenMeansRebuilt'
    BY <2>1, <2>2 DEF GreenMeansRebuilt, TypeOK
  <2>5. StateInv' /\ MartsInv' /\ RecordedMeansRebuilt'
    BY <2>1 DEF StateInv, MartsInv, RecordedMeansRebuilt, UpstreamLost, UpstreamDone
  <2> QED BY <2>3, <2>4, <2>5
<1>10. ASSUME NEW t \in Tasks, Skip(t) PROVE IInv'
  <2>1. /\ state[t] = "none" /\ state' = [state EXCEPT ![t] = "upstream_failed"]
        /\ Rule(t) = "all_success" /\ UpstreamLost(t)
        /\ UNCHANGED <<run, tries, artifact, published, recorded, outcome, rebuilt, refused>>
    BY <1>10 DEF Skip
  <2>2. StateInv'
    BY <2>1, MovesKeepsStates DEF Moves, Final
  <2>3. TypeOK'
    BY <2>1 DEF TypeOK, Final
  <2>4. MartsInv' /\ GreenMeansRebuilt' /\ RecordedMeansRebuilt'
    BY <2>1 DEF MartsInv, GreenMeansRebuilt, RecordedMeansRebuilt, TypeOK
  <2> QED BY <2>2, <2>3, <2>4
<1>11. CASE UNCHANGED vars
  BY <1>11 DEF vars, TypeOK, StateInv, MartsInv, GreenMeansRebuilt, RecordedMeansRebuilt,
     UpstreamLost, UpstreamDone
<1> QED BY <1>1, <1>2, <1>3, <1>4, <1>5, <1>6, <1>7, <1>8, <1>9, <1>10, <1>11
        DEF Next, Attempt, Schedule

(* Every reachable state is well typed: nothing is ever published that no   *)
(* dbt invocation wrote.                                                    *)
THEOREM TypeCorrect == Spec => []TypeOK
BY InitInv, StepInv, PTL DEF Spec, IInv

(* A green run rebuilt its marts, however many retries the tasks have: the  *)
(* failure of a build reaches the one leaf that is not ALL_DONE.            *)
THEOREM GreenIsRebuilt == Spec => []GreenMeansRebuilt
BY InitInv, StepInv, PTL DEF Spec, IInv

(* A recorded success is one too, although the recorder does not look at    *)
(* tasks that were skipped and does not wait for dbt_docs.                  *)
THEOREM RecordedIsRebuilt == Spec => []RecordedMeansRebuilt
BY InitInv, StepInv, PTL DEF Spec, IInv

---------------------------------------------------------------------------
(* The failures of a build are published.                                   *)

(* The publisher comes after both builds and is never skipped, so that no   *)
(* build fails behind its back; and from the first failed build of a run    *)
(* on, the results on disk are of this run.                                 *)
PublishInv ==
  /\ refused \subseteq 1 .. run
  /\ run \in refused => artifact.run = run
  /\ state["marts"] # "none" => state["staging"] # "none"
  /\ state["publish"] # "none" => state["marts"] # "none"
  /\ state["publish"] # "upstream_failed"
  /\ state["publish"] = "success" /\ run \in refused
       => \E p \in published : p[1] = run /\ p[2].run = run
  /\ run > 0 /\ outcome[run] = "failed" => state["publish"] # "none"

LEMMA PublishersPlace ==
  /\ {"staging", "marts", "publish"} \subseteq Tasks
  /\ Upstream["marts"] = {"staging"} /\ Upstream["publish"] = {"marts"}
  /\ Rule("publish") = "all_done"
BY TasksAre DEF Upstream, Rule

(* One task moves: the order of the builds and the publisher is kept.       *)
LEMMA MovesKeepsOrder ==
  ASSUME TypeOK, PublishInv, NEW t \in Tasks, state[t] = "none", Moves(t)
  PROVE  /\ \A u \in Tasks : u # t => state'[u] = state[u]
         /\ state'["marts"] # "none" => state'["staging"] # "none"
         /\ state'["publish"] # "none" => state'["marts"] # "none"
         /\ state'["publish"] # "upstream_failed"
<1>1. PICK final \in Final :
        /\ state' = [state EXCEPT ![t] = final]
        /\ \/ final = "upstream_failed" /\ Rule(t) = "all_success" /\ UpstreamLost(t)
           \/ final # "upstream_failed" /\ MayRun(t)
  BY DEF Moves
<1>2. /\ state'[t] = final /\ final # "none"
      /\ \A u \in Tasks : u # t => state'[u] = state[u]
  BY <1>1 DEF TypeOK, Final
<1>3. t = "marts" => state["staging"] # "none"
  BY <1>1, PublishersPlace DEF UpstreamLost, MayRun, UpstreamDone, Final
<1>4. t = "publish" => state["marts"] # "none" /\ final # "upstream_failed"
  BY <1>1, PublishersPlace DEF UpstreamLost, MayRun, UpstreamDone, Final
<1> QED BY <1>2, <1>3, <1>4, PublishersPlace DEF PublishInv

(* What an attempt at a task has to respect besides.                        *)
LEMMA AttemptPublishes ==
  ASSUME IInv, PublishInv, NEW t \in Tasks, MayRun(t), Succeeds(t) \/ Fails(t),
         UNCHANGED <<run, outcome>>,
         refused' \subseteq refused \cup {run},
         run \in refused' => artifact'.run = run,
         refused' = refused \/ t \in Builds,
         published \subseteq published',
         t = "publish" /\ run \in refused => <<run, artifact>> \in published' \/ ~Succeeds(t)
  PROVE  PublishInv'
<1>1. /\ UNCHANGED state \/ Moves(t)
      /\ state'[t] = "success" <=> Succeeds(t)
  BY AttemptMoves DEF IInv
<1>2. state[t] = "none" /\ run > 0 /\ outcome[run] = "running" /\ run \in Nat
  BY DEF MayRun, Active, IInv, TypeOK
<1>3. /\ \A u \in Tasks : u # t => state'[u] = state[u]
      /\ state'["marts"] # "none" => state'["staging"] # "none"
      /\ state'["publish"] # "none" => state'["marts"] # "none"
      /\ state'["publish"] # "upstream_failed"
  BY <1>1, <1>2, MovesKeepsOrder DEF IInv, PublishInv
<1>4. refused' \subseteq 1 .. run
  BY <1>2 DEF PublishInv
<1>5. ASSUME state'["publish"] = "success", run \in refused'
      PROVE  \E p \in published' : p[1] = run /\ p[2].run = run
  <2>1. CASE t = "publish"
    <3>1. run \in refused /\ Succeeds(t)
      BY <1>1, <1>5, <2>1 DEF Builds
    <3>2. <<run, artifact>> \in published' /\ artifact.run = run
      BY <2>1, <3>1 DEF PublishInv
    <3> QED BY <3>2
  <2>2. CASE t # "publish"
    <3>1. state["publish"] = "success"
      BY <1>3, <1>5, <2>2, PublishersPlace
    <3>2. t \notin Builds
      BY <1>2, <3>1 DEF PublishInv, Builds
    <3> QED BY <1>5, <3>1, <3>2 DEF PublishInv
  <2> QED BY <2>1, <2>2
<1> QED BY <1>2, <1>3, <1>4, <1>5 DEF PublishInv

LEMMA StepPublish == IInv /\ PublishInv /\ [Next]_vars => PublishInv'
<1> SUFFICES ASSUME IInv, PublishInv, [Next]_vars PROVE PublishInv'
  OBVIOUS
<1>0. /\ run \in Nat /\ MaxRuns \in Nat
      /\ \A t \in Tasks : MayRun(t) => run \in 1 .. MaxRuns
  BY BoundAssumption DEF IInv, TypeOK, MayRun, Active
<1>1. CASE StartRun
  <2>1. /\ run' = run + 1 /\ run < MaxRuns
        /\ \A t \in Tasks : state'[t] = "none"
        /\ outcome' = [outcome EXCEPT ![run + 1] = "running"]
        /\ UNCHANGED <<artifact, published, recorded, rebuilt, refused>>
    BY <1>1 DEF StartRun
  <2>2. run + 1 \in 1 .. MaxRuns /\ refused' \subseteq 1 .. run' /\ run' \notin refused'
    BY <1>0, <2>1 DEF PublishInv
  <2>3. outcome'[run'] = "running"
    BY <2>1, <2>2 DEF IInv, TypeOK
  <2> QED BY <2>1, <2>2, <2>3, PublishersPlace DEF PublishInv
<1>2. ASSUME NEW t \in Tasks, Check(t) PROVE PublishInv'
  <2>1. /\ MayRun(t) /\ (Succeeds(t) \/ Fails(t)) /\ t # "publish"
        /\ UNCHANGED <<run, artifact, published, recorded, outcome, rebuilt, refused>>
    BY <1>2 DEF Check
  <2> QED BY <2>1, AttemptPublishes DEF PublishInv
<1>3. ASSUME NEW t \in Tasks, DbtBuild(t) PROVE PublishInv'
  <2>1. /\ MayRun(t) /\ (Succeeds(t) \/ Fails(t)) /\ t \in Builds
        /\ UNCHANGED <<run, published, recorded, outcome>>
    BY <1>3 DEF DbtBuild
  <2>2. /\ refused' \subseteq refused \cup {run}
        /\ run \in refused' => artifact'.run = run
    BY <1>3 DEF DbtBuild, PublishInv
  <2> QED BY <2>1, <2>2, AttemptPublishes DEF Builds
<1>4. CASE DbtDocs
  <2>1. /\ MayRun("docs") /\ (Succeeds("docs") \/ Fails("docs"))
        /\ UNCHANGED <<run, published, recorded, outcome, rebuilt, refused>>
        /\ artifact' \in {artifact, [run |-> run, by |-> "docs", passed |-> TRUE]}
    BY <1>4 DEF DbtDocs
  <2>2. run \in refused' => artifact'.run = run
    BY <2>1 DEF PublishInv
  <2> QED BY <2>1, <2>2, AttemptPublishes, DocsIsLeaf
<1>5. CASE PublishResults
  <2>1. /\ MayRun("publish") /\ (Succeeds("publish") \/ Fails("publish"))
        /\ UNCHANGED <<run, artifact, recorded, outcome, rebuilt, refused>>
        /\ \/ published' = published \cup {<<run, artifact>>}
           \/ artifact = NoArtifact /\ published' = published
    BY <1>5 DEF PublishResults
  <2>2. run \in refused => artifact # NoArtifact
    BY <1>0, <2>1, PublishersPlace DEF PublishInv, NoArtifact
  <2> QED BY <2>1, <2>2, AttemptPublishes, PublishersPlace DEF PublishInv
<1>6. CASE PublishFails
  <2>1. /\ MayRun("publish") /\ Fails("publish")
        /\ UNCHANGED <<run, artifact, published, recorded, outcome, rebuilt, refused>>
    BY <1>6 DEF PublishFails
  <2>2. ~Succeeds("publish")
    BY <2>1, PublishersPlace DEF Fails, Succeeds, Ends, MayRun, IInv, TypeOK
  <2> QED BY <2>1, <2>2, AttemptPublishes, PublishersPlace DEF PublishInv
<1>7. CASE RecordRun \/ RecordFails
  <2>1. /\ MayRun("record") /\ (Succeeds("record") \/ Fails("record")) /\ "record" \in Tasks
        /\ UNCHANGED <<run, artifact, published, outcome, rebuilt, refused>>
    BY <1>7, TasksAre DEF RecordRun, RecordFails
  <2> QED BY <2>1, AttemptPublishes DEF PublishInv
<1>8. CASE EndRun
  <2>1. /\ \A t \in Tasks : state[t] \in Final
        /\ UNCHANGED <<run, state, tries, artifact, published, recorded, rebuilt, refused>>
    BY <1>8 DEF EndRun
  <2>2. state["publish"] # "none"
    BY <2>1, PublishersPlace DEF Final
  <2> QED BY <2>1, <2>2 DEF PublishInv
<1>9. ASSUME NEW t \in Tasks, Skip(t) PROVE PublishInv'
  <2>1. /\ state[t] = "none" /\ state' = [state EXCEPT ![t] = "upstream_failed"]
        /\ Rule(t) = "all_success" /\ UpstreamLost(t)
        /\ UNCHANGED <<run, tries, artifact, published, recorded, outcome, rebuilt, refused>>
    BY <1>9 DEF Skip
  <2>2. Moves(t) /\ t # "publish"
    BY <2>1, PublishersPlace DEF Moves, Final
  <2>3. /\ state'["publish"] = state["publish"]
        /\ state'["marts"] # "none" => state'["staging"] # "none"
        /\ state'["publish"] # "none" => state'["marts"] # "none"
    BY <2>1, <2>2, MovesKeepsOrder, PublishersPlace DEF IInv
  <2> QED BY <2>1, <2>3 DEF PublishInv
<1>10. CASE UNCHANGED vars
  BY <1>10 DEF vars, PublishInv
<1> QED BY <1>1, <1>2, <1>3, <1>4, <1>5, <1>6, <1>7, <1>8, <1>9, <1>10
        DEF Next, Attempt, Schedule

(* "Especially then": whatever is retried and in whatever order, the        *)
(* results of a run that failed in a dbt build are in the warehouse when    *)
(* the run is over, unless the publisher could not write.                   *)
THEOREM FailuresReachTheWarehouse == Spec => []FailuresArePublished
<1>1. Init => PublishInv
  BY PublishersPlace DEF Init, PublishInv
<1>2. IInv /\ PublishInv => FailuresArePublished
  <2> SUFFICES ASSUME IInv, PublishInv, run \in refused, outcome[run] = "failed",
                      state["publish"] # "failed"
               PROVE  \E p \in published : p[1] = run /\ p[2].run = run
    BY DEF FailuresArePublished
  <2>1. run > 0
    BY DEF PublishInv, IInv, TypeOK
  <2>2. state["publish"] = "success"
    BY <2>1, PublishersPlace DEF PublishInv, IInv, TypeOK, Final
  <2> QED BY <2>2 DEF PublishInv
<1> QED BY <1>1, <1>2, InitInv, StepInv, StepPublish, PTL DEF Spec

---------------------------------------------------------------------------
(* Why runs end.  That a run ends needs fairness; that it cannot get stuck  *)
(* and cannot go on for ever does not.                                      *)

\* The attempts all tasks may make together, and those a run has used up.
Budget == {p \in Tasks \X (0 .. Retries + 1) : p[2] <= RetriesOf(p[1])}
Spent  == {p \in Budget : state[p[1]] \in Final \/ p[2] < tries[p[1]]}

MaySkip(t) == state[t] = "none" /\ Rule(t) = "all_success" /\ UpstreamLost(t)

(* A run under way is over but for its verdict, or the scheduler has a task *)
(* it may start or skip: no trigger rule waits for a task that will never   *)
(* be final.                                                                *)
NeverStuck ==
  Active => (\A t \in Tasks : state[t] \in Final) \/ \E t \in Tasks : MayRun(t) \/ MaySkip(t)

(* Every attempt and every skip uses up some of the budget of the run, and  *)
(* none gives any back.                                                     *)
StepsAreCounted ==
  [][Attempt \/ (\E t \in Tasks : Skip(t)) => Cardinality(Spent) < Cardinality(Spent')]_vars

WithinBudget == Cardinality(Spent) <= Cardinality(Budget)

LEMMA FourAreFinite == ASSUME NEW a, NEW b, NEW c, NEW d PROVE IsFiniteSet({a, b, c, d})
<1>1. /\ IsFiniteSet({}) /\ {a} = {} \cup {a} /\ {a, b} = {a} \cup {b}
      /\ {a, b, c} = {a, b} \cup {c} /\ {a, b, c, d} = {a, b, c} \cup {d}
  BY FS_EmptySet
<1>2. IsFiniteSet({a}) BY <1>1, FS_AddElement
<1>3. IsFiniteSet({a, b}) BY <1>1, <1>2, FS_AddElement
<1>4. IsFiniteSet({a, b, c}) BY <1>1, <1>3, FS_AddElement
<1> QED BY <1>1, <1>4, FS_AddElement

LEMMA BudgetIsFinite == IsFiniteSet(Budget)
<1>1. IsFiniteSet(Tasks)
  <2> DEFINE Head == {"start", "connector", "warehouse", "ingest"}
             Middle == {"settle", "deps", "freshness", "staging"}
             Tail4 == {"marts", "docs", "publish", "record"}
  <2>1. IsFiniteSet(Head) /\ IsFiniteSet(Middle) /\ IsFiniteSet(Tail4)
    BY FourAreFinite
  <2>2. Tasks = (Head \cup Middle) \cup (Tail4 \cup {"finish"})
    BY TasksAre
  <2> HIDE DEF Head, Middle, Tail4
  <2>3. IsFiniteSet(Head \cup Middle)
    BY <2>1, FS_Union
  <2>4. IsFiniteSet(Tail4 \cup {"finish"})
    BY <2>1, FS_AddElement
  <2> QED BY <2>2, <2>3, <2>4, FS_Union
<1>2. IsFiniteSet(0 .. Retries + 1)
  BY BoundAssumption, FS_Interval
<1>3. IsFiniteSet(Tasks \X (0 .. Retries + 1))
  BY <1>1, <1>2, FS_Product
<1> QED BY <1>3, FS_Subset DEF Budget

LEMMA BudgetHolds ==
  ASSUME NEW t \in Tasks, NEW n \in Nat, n <= RetriesOf(t)
  PROVE  <<t, n>> \in Budget
<1>1. RetriesOf(t) \in {0, 1, Retries}
  BY Zenon DEF RetriesOf
<1> QED BY <1>1, BoundAssumption DEF Budget

LEMMA GrowthCounts ==
  ASSUME Spent \subseteq Spent', NEW p \in Spent', p \notin Spent
  PROVE  Cardinality(Spent) < Cardinality(Spent')
<1>1. Spent' \subseteq Budget
  BY DEF Spent, Budget
<1>2. IsFiniteSet(Spent')
  BY <1>1, BudgetIsFinite, FS_Subset
<1>3. /\ Cardinality(Spent) <= Cardinality(Spent') /\ IsFiniteSet(Spent)
      /\ Cardinality(Spent) = Cardinality(Spent') => Spent = Spent'
  BY <1>2, FS_Subset
<1>4. Cardinality(Spent) \in Nat /\ Cardinality(Spent') \in Nat
  BY <1>2, <1>3, FS_CardinalityType
<1> QED BY <1>3, <1>4

\* A task that has its final state has used up all its attempts.
LEMMA EndingSpends ==
  ASSUME TypeOK, NEW t \in Tasks, state[t] = "none", NEW final \in Final,
         state' = [state EXCEPT ![t] = final],
         tries' = [tries EXCEPT ![t] = 0] \/ tries' = tries
  PROVE  Cardinality(Spent) < Cardinality(Spent')
<1> DEFINE p == <<t, RetriesOf(t)>>
<1>1. /\ state'[t] = final /\ "none" \notin Final
      /\ \A u \in Tasks : u # t => state'[u] = state[u] /\ tries'[u] = tries[u]
  BY DEF TypeOK, Final
<1>2. p \in Budget /\ p[1] = t /\ p[2] = RetriesOf(t)
  BY RetriesAre, BudgetHolds
<1>3. p \in Spent'
  BY <1>1, <1>2 DEF Spent, Budget
<1>4. p \notin Spent
  <2>1. tries[t] \in Nat /\ tries[t] <= RetriesOf(t) /\ RetriesOf(t) \in Nat
    BY RetriesAre DEF TypeOK
  <2> QED BY <1>1, <1>2, <2>1 DEF Spent
<1>5. Spent \subseteq Spent'
  <2> SUFFICES ASSUME NEW q \in Spent PROVE q \in Spent'
    OBVIOUS
  <2>1. q \in Budget /\ q[1] \in Tasks /\ (state[q[1]] \in Final \/ q[2] < tries[q[1]])
    BY DEF Spent, Budget
  <2>2. state'[q[1]] \in Final \/ q[2] < tries'[q[1]]
    BY <1>1, <2>1
  <2> QED BY <2>1, <2>2 DEF Spent, Budget
<1> QED BY <1>3, <1>4, <1>5, GrowthCounts

\* A failed attempt that is repeated has used up one.
LEMMA RetryingSpends ==
  ASSUME TypeOK, NEW t \in Tasks, state[t] = "none", tries[t] < RetriesOf(t),
         state' = state, tries' = [tries EXCEPT ![t] = @ + 1]
  PROVE  Cardinality(Spent) < Cardinality(Spent')
<1> DEFINE p == <<t, tries[t]>>
<1>1. /\ tries[t] \in Nat /\ RetriesOf(t) \in Nat /\ tries'[t] = tries[t] + 1
      /\ \A u \in Tasks : u # t => tries'[u] = tries[u]
  BY RetriesAre DEF TypeOK
<1>2. p \in Budget /\ p[1] = t /\ p[2] = tries[t]
  BY <1>1, BudgetHolds
<1>3. p \in Spent'
  BY <1>1, <1>2 DEF Spent, Budget
<1>4. p \notin Spent
  BY <1>1, <1>2 DEF Spent, Final
<1>5. Spent \subseteq Spent'
  <2> SUFFICES ASSUME NEW q \in Spent PROVE q \in Spent'
    OBVIOUS
  <2>1. q \in Budget /\ q[1] \in Tasks /\ q[2] \in Nat
        /\ (state[q[1]] \in Final \/ q[2] < tries[q[1]])
    BY DEF Spent, Budget
  <2>2. state'[q[1]] \in Final \/ q[2] < tries'[q[1]]
    BY <1>1, <2>1
  <2> QED BY <2>1, <2>2 DEF Spent, Budget
<1> QED BY <1>3, <1>4, <1>5, GrowthCounts

LEMMA StepSpends ==
  ASSUME TypeOK, Attempt \/ \E t \in Tasks : Skip(t)
  PROVE  Cardinality(Spent) < Cardinality(Spent')
<1>1. ASSUME NEW t \in Tasks, MayRun(t), Succeeds(t) \/ Fails(t)
      PROVE  Cardinality(Spent) < Cardinality(Spent')
  <2>1. state[t] = "none" /\ "success" \in Final /\ "failed" \in Final
    BY <1>1 DEF MayRun, Final
  <2>2. CASE Succeeds(t)
    BY <2>1, <2>2, EndingSpends DEF Succeeds, Ends
  <2>3. CASE Fails(t) /\ tries[t] < RetriesOf(t)
    BY <2>1, <2>3, RetryingSpends DEF Fails
  <2>4. CASE Fails(t) /\ ~(tries[t] < RetriesOf(t))
    BY <2>1, <2>4, EndingSpends DEF Fails, Ends
  <2> QED BY <1>1, <2>2, <2>3, <2>4
<1>2. ASSUME NEW t \in Tasks, Skip(t)
      PROVE  Cardinality(Spent) < Cardinality(Spent')
  BY <1>2, EndingSpends DEF Skip, Final
<1>3. ASSUME Attempt
      PROVE  \E t \in Tasks : MayRun(t) /\ (Succeeds(t) \/ Fails(t))
  <2>1. {"docs", "publish", "record"} \subseteq Tasks
    BY TasksAre
  <2>2. ASSUME NEW t \in Tasks, Check(t) \/ DbtBuild(t)
        PROVE  MayRun(t) /\ (Succeeds(t) \/ Fails(t))
    BY <2>2 DEF Check, DbtBuild
  <2>3. DbtDocs => MayRun("docs") /\ (Succeeds("docs") \/ Fails("docs"))
    BY DEF DbtDocs
  <2>4. PublishResults \/ PublishFails
          => MayRun("publish") /\ (Succeeds("publish") \/ Fails("publish"))
    BY DEF PublishResults, PublishFails
  <2>5. RecordRun \/ RecordFails => MayRun("record") /\ (Succeeds("record") \/ Fails("record"))
    BY DEF RecordRun, RecordFails
  <2> QED BY <1>3, <2>1, <2>2, <2>3, <2>4, <2>5 DEF Attempt
<1> QED BY <1>1, <1>2, <1>3

(* Retries run out: in one run the scheduler takes at most as many steps as *)
(* all tasks have attempts (RetriesOf), whatever fails and is skipped.      *)
THEOREM RunsAreBounded == Spec => StepsAreCounted /\ []WithinBudget
<1>1. TypeOK /\ [Next]_vars
        => [Attempt \/ (\E t \in Tasks : Skip(t)) => Cardinality(Spent) < Cardinality(Spent')]_vars
  BY StepSpends
<1>2. WithinBudget
  BY BudgetIsFinite, FS_Subset DEF WithinBudget, Spent
<1> QED BY <1>1, <1>2, TypeCorrect, PTL DEF Spec, StepsAreCounted

(* The graph in the order in which it is worked off: a task with nothing    *)
(* unfinished upstream may run or may be skipped, whatever its trigger rule.*)
LEMMA ReadyMoves ==
  ASSUME TypeOK, Active, NEW t \in Tasks, UpstreamDone(t)
  PROVE  state[t] \in Final \/ MayRun(t) \/ MaySkip(t)
BY RulesAre DEF TypeOK, MayRun, MaySkip

(* The scheduler is never stuck: as long as a run has a task that is not    *)
(* final, one of them may run or has to be skipped.                         *)
THEOREM AlwaysSomethingToDo == Spec => []NeverStuck
<1>1. TypeOK => NeverStuck
  <2> SUFFICES ASSUME TypeOK, Active, \A t \in Tasks : ~MayRun(t) /\ ~MaySkip(t)
               PROVE  \A t \in Tasks : state[t] \in Final
    BY DEF NeverStuck
  <2>1. \A t \in Tasks : UpstreamDone(t) => state[t] \in Final
    BY ReadyMoves
  <2>2. \A t \in Tasks : (\A u \in Upstream[t] : state[u] \in Final) => state[t] \in Final
    BY <2>1 DEF UpstreamDone
  <2> DEFINE Done(t) == state[t] \in Final
  <2>3. /\ Done("start")
        /\ Done("start") => Done("connector") /\ Done("warehouse")
        /\ Done("connector") /\ Done("warehouse") => Done("ingest")
        /\ Done("ingest") => Done("settle")
        /\ Done("settle") => Done("deps")
        /\ Done("deps") => Done("freshness")
        /\ Done("freshness") => Done("staging")
        /\ Done("staging") => Done("marts")
        /\ Done("marts") => Done("docs") /\ Done("publish")
        /\ Done("publish") /\ Done("ingest") => Done("record")
        /\ Done("record") => Done("finish")
    BY <2>2, TasksAre DEF Upstream
  <2> HIDE DEF Done
  <2>4. \A t \in {"start", "connector", "warehouse", "ingest", "settle", "deps", "freshness",
                   "staging", "marts", "docs", "publish", "record", "finish"} : Done(t)
    BY <2>3
  <2> QED BY <2>4, TasksAre DEF Done
<1> QED BY <1>1, TypeCorrect, PTL

=============================================================================
