------------------------------ MODULE StageRuns ------------------------------
(****************************************************************************)
(* One pipeline run under the supervisor: the stage_runs rows of its        *)
(* database (state.py) and the tick that drives them (scheduler.py).        *)
(*                                                                          *)
(* A row is a target and a stage.  The supervisor is one sequential         *)
(* process: between ticks it applies operator commands; a tick launches     *)
(* overrides, reconciles running rows with their workers, normalises the    *)
(* rows the run does not select, applies and schedules artifact scans,      *)
(* promotes, launches into the pools and derives the run's status.  Each    *)
(* row it visits is a step of its own, and workers, scans and backoff       *)
(* timers move between any two steps.                                       *)
(*                                                                          *)
(* How a worker is submitted and found again is StageLaunch's subject, how  *)
(* scans are queued and cancelled VerifyQueue's.                            *)
(****************************************************************************)
EXTENDS PipelineDag

CONSTANTS
    Targets,         \* labels of the run's enabled targets
    PoolOf,          \* stage -> its pool
    Capacity,        \* pool -> max_concurrent
    CondorStages,    \* stages launched on condor; the others run locally
    PreflightStages, \* stages whose launch first looks for their output
    PreSkipped,      \* stages the configuration skips at creation (streaming,
                     \* linear geometry)
    SkipVerify,      \* scheduler.skip_artifact_verify
    MaxAttempts,     \* max_stage_attempts
    MaxEvictions,    \* max_eviction_stage_attempts
    MaxScans,        \* verify_max_workers
    RunSetups,       \* records [active, force, onDisk]: how the run is created
    Commands,        \* kinds of command an operator may send
    Faults,          \* what can go wrong: launch, lost, stale, evict, unseen
    RerunSelections, \* stage selections a force_rerun command may carry
    MaxInterventions \* bound on commands and supervisor restarts

Rows == Targets \X Stages
Pools == {PoolOf[s] : s \in Stages}

ASSUME StageRunsAssumption ==
    /\ IsFiniteSet(Targets)
    /\ PreSkipped \subseteq Stages
    /\ Capacity \in [Pools -> Nat]
    /\ MaxAttempts \in Nat \ {0}
    /\ MaxEvictions \in Nat
    /\ MaxEvictions >= MaxAttempts
    /\ SkipVerify \in BOOLEAN
    /\ MaxInterventions \in Nat
    /\ RerunSelections \subseteq SUBSET Stages
    /\ RunSetups \subseteq
         [active : SUBSET Stages, force : BOOLEAN, onDisk : SUBSET Rows]

VARIABLES
    status,        \* stage_runs.status
    reason,        \* artifacts['skip_reason'] of a skipped row
    check,         \* artifacts['external_check']
    attempts,      \* stage_runs.attempts
    backoff,       \* stage_runs.not_before lies in the future
    forced,        \* stage_runs.force_launch
    worker,        \* the worker the row's descriptor names
    orphan,        \* a worker of this row runs that no descriptor names
    disk,          \* the stage's artifacts are complete on disk
    scan,          \* the row's artifact scan
    runStatus,     \* runs.status
    paused,        \* runs.paused
    forceRerun,    \* runs.force_rerun
    active,        \* runs.stages
    phase,         \* where the supervisor is in its loop
    todo,          \* rows the current loop of the tick has still to visit
    interventions  \* commands applied and restarts so far

ledger == <<reason, check, attempts, backoff, forced>>
work   == <<worker, orphan, disk>>
run    == <<runStatus, paused, forceRerun, active>>
vars   == <<status, ledger, work, scan, run, phase, todo, interventions>>

StageStatuses == {"pending", "ready", "running", "success", "failed",
                  "blocked", "skipped", "canceled", "external"}
TerminalStatuses    == {"success", "failed", "skipped", "canceled"}
SatisfiedStatuses   == {"success", "skipped"}
NonterminalStatuses == {"pending", "ready", "running", "blocked", "external"}
ActiveRunStatuses   == {"running", "stalled"}
TerminalRunStatuses == {"success", "failed", "canceled"}
SkipReasons == {"none", "config", "not_selected", "superseded", "artifacts", "trusted"}
Phases == {"idle", "force", "reconcile", "drain", "verify", "override", "launch"}
Exits == {"ok", "err", "term", "lost"}
Verdicts == {"complete", "incomplete", "error"}

TypeOK ==
    /\ status \in [Rows -> StageStatuses]
    /\ reason \in [Rows -> SkipReasons]
    /\ check \in [Rows -> {"none", "0", "1"}]
    /\ attempts \in [Rows -> Nat]
    /\ backoff \in [Rows -> BOOLEAN]
    /\ forced \in [Rows -> BOOLEAN]
    /\ worker \in [Rows -> {"none", "live"} \cup Exits]
    /\ orphan \in [Rows -> BOOLEAN]
    /\ disk \in [Rows -> BOOLEAN]
    /\ scan \in [Rows -> {"idle", "busy"} \cup Verdicts]
    /\ runStatus \in ActiveRunStatuses \cup TerminalRunStatuses
    /\ paused \in BOOLEAN
    /\ forceRerun \in BOOLEAN
    /\ active \in SUBSET Stages
    /\ phase \in Phases
    /\ todo \in SUBSET Rows
    /\ interventions \in 0 .. MaxInterventions

(****************************************************************************)
(* Questions about rows, asked of a status function st so that the tick can *)
(* chain its bulk updates.                                                  *)
(****************************************************************************)
RowsOf(t, S) == {<<t, s>> : s \in S}

DownstreamRows(r) == RowsOf(r[1], downstream_stages[r[2]])

\* Mutant: any terminal dependency satisfies.
deps_satisfied_terminal(st, r) ==
    \A d \in EffectiveDeps[r[2]] : st[<<r[1], d>>] \in TerminalStatuses

deps_satisfied(st, r) ==
    \A d \in EffectiveDeps[r[2]] : st[<<r[1], d>>] \in SatisfiedStatuses

\* A row outside the selection still needs a scan unless a stage that reads
\* its output, and is itself of interest to the run, is already satisfied.
artifact_verify_needed(st, act, r) ==
    /\ r[2] \in artifact_verify_closure(act) \ act
    /\ st[r] \notin SatisfiedStatuses
    /\ \A d \in direct_dependents[r[2]] \cap artifact_verify_closure(act) :
           st[<<r[1], d>>] \notin SatisfiedStatuses

running_stage_runs == {r \in Rows : status[r] = "running"}

(****************************************************************************)
(* Bulk updates                                                             *)
(****************************************************************************)
\* Rows the run has nothing to do with, and rows it selects that an earlier
\* selection had skipped.
NotSelected(st, rs, act) ==
    {r \in Rows : /\ r[2] \notin artifact_verify_closure(act) \cup act
                  /\ st[r] \notin {"success", "failed"}
                  /\ ~ (st[r] = "skipped" /\ rs[r] = "not_selected")}

Reselected(st, rs, act) ==
    {r \in Rows : r[2] \in act /\ st[r] = "skipped" /\ rs[r] = "not_selected"}

apply_not_selected_skips(st, rs, act) ==
    [r \in Rows |-> IF r \in NotSelected(st, rs, act) THEN "skipped"
                    ELSE IF r \in Reselected(st, rs, act) THEN "pending"
                    ELSE st[r]]

\* Every skip reason survives this pass, so a skipped row is never relabelled.
Superseded(st, act) ==
    {r \in Rows : /\ r[2] \in artifact_verify_closure(act) \ act
                  /\ ~ artifact_verify_needed(st, act, r)
                  /\ st[r] \notin {"success", "failed", "skipped"}}

apply_superseded_skips(st, act) ==
    [r \in Rows |-> IF r \in Superseded(st, act) THEN "skipped" ELSE st[r]]

repair_orphaned_pending_upstream(st) ==
    [r \in Rows |-> IF st[r] = "pending" /\ r[2] \in run_stage_closure(active) \ active
                    THEN "external" ELSE st[r]]

Trusted(st) ==
    {r \in Rows : r[2] \in artifact_verify_closure(active) \ active /\ st[r] = "external"}

promote_stages(st, ck) ==
    LET open(r) == st[r] \in {"blocked", "pending"} /\ deps_satisfied(st, r)
        vetted(r) == r[2] \in active \/ ck[r] # "none"
    IN  [r \in Rows |-> IF open(r) /\ vetted(r) THEN "ready"
                        ELSE IF open(r) THEN "pending"
                        ELSE st[r]]

\* Mutant: blocks everything downstream, finished rows included.
FailAndBlock_everything(r) ==
    [x \in Rows |-> IF x = r THEN "failed"
                    ELSE IF x \in DownstreamRows(r) THEN "blocked" ELSE status[x]]

\* A failed row and what block_downstream does to the rows behind it.
FailAndBlock(r) ==
    [x \in Rows |->
        IF x = r THEN "failed"
        ELSE IF x \in DownstreamRows(r) /\ status[x] \in {"pending", "ready", "external"}
        THEN "blocked"
        ELSE status[x]]

\* Skipping or resetting a row whose worker lives leaves the worker running
\* with no descriptor.
Abandon(R) ==
    /\ orphan' = [r \in Rows |-> orphan[r] \/ (r \in R /\ worker[r] = "live")]
    /\ worker' = [r \in Rows |-> IF r \in R THEN "none" ELSE worker[r]]
    /\ UNCHANGED disk

\* Mutant: forgets the workers without stopping them.
Terminate_forgets(R) == Abandon(R)

\* Mutant: touches no worker.
Terminate_nothing(R) == UNCHANGED work

\* Stopping the workers of rows that are about to be rewritten.
Terminate(R) ==
    /\ worker' = [r \in Rows |-> IF r \in R THEN "none" ELSE worker[r]]
    /\ UNCHANGED <<orphan, disk>>

(****************************************************************************)
(* Creation: create_run, the skips its configuration asks for, and          *)
(* apply_post_create_run_setup.                                             *)
(****************************************************************************)
Created(act) ==
    [r \in Rows |-> IF r[2] \in PreSkipped THEN "skipped"
                    ELSE IF r[2] \in act THEN "pending" ELSE "external"]

Init ==
    \E setup \in RunSetups :
        LET act == setup.active
            made == Created(act)
            configured == [r \in Rows |-> IF r[2] \in PreSkipped THEN "config" ELSE "none"]
            kept == apply_not_selected_skips(made, configured, act)
        IN  /\ active = act
            /\ forceRerun = setup.force
            /\ disk = [r \in Rows |-> r \in setup.onDisk]
            /\ status = apply_superseded_skips(kept, act)
            /\ reason = [r \in Rows |->
                  IF r \in NotSelected(made, configured, act) THEN "not_selected"
                  ELSE IF r \in Superseded(kept, act) THEN "superseded"
                  ELSE configured[r]]
            /\ check = [r \in Rows |-> "none"]
            /\ attempts = [r \in Rows |-> 0]
            /\ backoff = [r \in Rows |-> FALSE]
            /\ forced = [r \in Rows |-> FALSE]
            /\ worker = [r \in Rows |-> "none"]
            /\ orphan = [r \in Rows |-> FALSE]
            /\ scan = [r \in Rows |-> "idle"]
            /\ runStatus = "running"
            /\ paused = FALSE
            /\ phase = "idle"
            /\ todo = {}
            /\ interventions = 0

(****************************************************************************)
(* Operator commands (_apply_commands), between ticks                       *)
(****************************************************************************)
Intervene ==
    /\ interventions < MaxInterventions
    /\ interventions' = interventions + 1

Command(kind) ==
    /\ kind \in Commands
    /\ phase = "idle"
    /\ Intervene
    /\ UNCHANGED <<phase, todo>>

\* Cancelling a scan drops what the pool would return; an answer of the fast
\* path is not cancelled and may still come.
CancelScans(R) ==
    \E kept \in SUBSET {r \in R : scan[r] # "idle"} :
        scan' = [r \in Rows |-> IF r \in R \ kept THEN "idle" ELSE scan[r]]

Cancel ==
    /\ Command("cancel")
    /\ Terminate(running_stage_runs)
    /\ CancelScans(Rows)
    /\ status' = [r \in Rows |-> IF status[r] \in NonterminalStatuses
                                 THEN "canceled" ELSE status[r]]
    /\ runStatus' = "canceled"
    /\ UNCHANGED <<ledger, paused, forceRerun, active>>

SetPaused(kind, value) ==
    /\ Command(kind)
    /\ paused # value
    /\ paused' = value
    /\ UNCHANGED <<status, ledger, work, scan, runStatus, forceRerun, active>>

Pause  == SetPaused("pause", TRUE)
Resume == SetPaused("resume", FALSE)

\* Mutant: reopens the row alone.
RetryCone_alone(r, down) == {x \in {r} : reason[x] # "config"}

\* Rows reset_stage_for_retry reopens: those skipped by configuration stay.
RetryCone(r, down) ==
    {x \in {r} \cup (IF down THEN DownstreamRows(r) ELSE {}) : reason[x] # "config"}

reset_stage_for_retry(R) ==
    /\ status' = [r \in Rows |-> IF r \notin R THEN status[r]
                                 ELSE IF r[2] \in active THEN "pending" ELSE "external"]
    /\ reason' = [r \in Rows |-> IF r \in R THEN "none" ELSE reason[r]]
    /\ check' = [r \in Rows |-> IF r \in R THEN "none" ELSE check[r]]
    /\ attempts' = [r \in Rows |-> IF r \in R THEN 0 ELSE attempts[r]]
    /\ backoff' = [r \in Rows |-> backoff[r] /\ r \notin R]
    /\ Abandon(R)
    /\ UNCHANGED forced

\* A running target is stopped and goes straight back to ready; any other is
\* reopened together with the rows behind it, whatever those are doing.
RetryStage(r, down) ==
    /\ Command(IF down THEN "retry_stage" ELSE "retry_alone")
    /\ IF status[r] = "running"
       THEN /\ Terminate({r})
            /\ status' = [status EXCEPT ![r] = "ready"]
            /\ attempts' = [attempts EXCEPT ![r] = 0]
            /\ backoff' = [backoff EXCEPT ![r] = FALSE]
            /\ UNCHANGED <<reason, check, forced>>
       ELSE reset_stage_for_retry(RetryCone(r, down))
    /\ CancelScans({r} \cup (IF down THEN DownstreamRows(r) ELSE {}))
    /\ runStatus' = "running"
    /\ UNCHANGED <<paused, forceRerun, active>>

RetryRun ==
    /\ Command("retry_run")
    /\ LET seeds == {r \in Rows : status[r] \in {"failed", "canceled", "blocked"}}
       IN  reset_stage_for_retry(UNION {RetryCone(r, TRUE) : r \in seeds})
    /\ CancelScans(Rows)
    /\ runStatus' = "running"
    /\ UNCHANGED <<paused, forceRerun, active>>

\* The command names its targets; here they are all of the run's.
ForceRerun(S) ==
    /\ Command("force_rerun")
    /\ LET R == Targets \X S
       IN  /\ Terminate(R \cap running_stage_runs)
           /\ status' = [r \in Rows |-> IF r \in R THEN "pending" ELSE status[r]]
           /\ reason' = [r \in Rows |-> IF r \in R THEN "none" ELSE reason[r]]
           /\ check' = [r \in Rows |-> IF r \in R THEN "none" ELSE check[r]]
           /\ attempts' = [r \in Rows |-> IF r \in R THEN 0 ELSE attempts[r]]
           /\ backoff' = [r \in Rows |-> backoff[r] /\ r \notin R]
    /\ CancelScans(Rows)
    /\ runStatus' = "running"
    /\ forceRerun' = TRUE
    /\ active' = S
    /\ UNCHANGED <<forced, paused>>

ForceLaunch(r) ==
    /\ Command("force_launch")
    /\ status[r] \in NonterminalStatuses \ {"running"}
    /\ forced' = [forced EXCEPT ![r] = TRUE]
    /\ UNCHANGED <<status, reason, check, attempts, backoff, work, scan, run>>

(****************************************************************************)
(* Launching (_try_launch_ready_row, _launch_force_overrides)               *)
(****************************************************************************)
Visit(ph, r) ==
    /\ phase = ph
    /\ r \in todo
    /\ todo' = todo \ {r}
    /\ UNCHANGED <<phase, run, interventions>>

ForceLaunchable(st) == {r \in Rows : st[r] = "ready" /\ forced[r] /\ ~backoff[r]}

Launching(r) == \E ph \in {"force", "override", "launch"} : Visit(ph, r)

\* An override that launched is spent; one that did not is kept.
SpendOverride(r) == forced' = [forced EXCEPT ![r] = @ /\ phase = "launch"]

LaunchRefused(r) ==
    /\ Launching(r)
    /\ \/ r[2] \notin active
       \/ deps_satisfied(status, r) /\ status[r] # "ready"
    /\ UNCHANGED <<status, ledger, work, scan>>

LaunchDemoted(r) ==
    /\ Launching(r)
    /\ r[2] \in active
    /\ ~ deps_satisfied(status, r)
    /\ status' = [status EXCEPT ![r] = "pending"]
    /\ UNCHANGED <<ledger, work, scan>>

LaunchSkipped(r) ==
    /\ Launching(r)
    /\ r[2] \in active \cap PreflightStages
    /\ deps_satisfied(status, r)
    /\ ~forceRerun
    /\ disk[r]
    /\ status' = [status EXCEPT ![r] = "skipped"]
    /\ reason' = [reason EXCEPT ![r] = "artifacts"]
    /\ SpendOverride(r)
    /\ UNCHANGED <<check, attempts, backoff, work, scan>>

Claimable(r) ==
    /\ Launching(r)
    /\ r[2] \in active
    /\ deps_satisfied(status, r)
    /\ status[r] = "ready"
    /\ attempts' = [attempts EXCEPT ![r] = @ + 1]

LaunchOk(r) ==
    /\ Claimable(r)
    /\ status' = [status EXCEPT ![r] = "running"]
    /\ backoff' = [backoff EXCEPT ![r] = FALSE]
    /\ worker' = [worker EXCEPT ![r] = "live"]
    /\ SpendOverride(r)
    /\ UNCHANGED <<reason, check, orphan, disk, scan>>

LaunchFails(r) ==
    /\ "launch" \in Faults
    /\ Claimable(r)
    /\ IF attempts[r] + 1 >= MaxAttempts
       THEN /\ status' = FailAndBlock(r)
            /\ backoff' = [backoff EXCEPT ![r] = FALSE]
       ELSE /\ backoff' = [backoff EXCEPT ![r] = TRUE]
            /\ UNCHANGED status
    /\ UNCHANGED <<reason, check, forced, work, scan>>

(****************************************************************************)
(* The tick, phase by phase (_tick_run)                                     *)
(****************************************************************************)
Enter(ph, R) ==
    /\ phase' = ph
    /\ todo' = R
    /\ UNCHANGED interventions

Leave(ph) ==
    /\ phase = ph
    /\ todo = {}

\* Only running and stalled runs are ticked; overrides go first, paused or not.
BeginTick ==
    /\ phase = "idle"
    /\ runStatus \in ActiveRunStatuses
    /\ Enter("force", ForceLaunchable(status))
    /\ UNCHANGED <<status, ledger, work, scan, run>>

EndForce ==
    /\ Leave("force")
    /\ IF paused THEN Enter("idle", {}) ELSE Enter("reconcile", running_stage_runs)
    /\ UNCHANGED <<status, ledger, work, scan, run>>

(* Reconcile one running row with its worker (reconcile_running_stages). *)
Reconciling(r) ==
    /\ Visit("reconcile", r)
    /\ UNCHANGED <<reason, check, attempts, forced, scan>>

ForgetWorker(r) == worker' = [worker EXCEPT ![r] = "none"]

KeepRunning(r) ==
    /\ Reconciling(r)
    /\ worker[r] = "live"
    /\ UNCHANGED <<status, backoff, work>>

Finalize(r) ==
    /\ Reconciling(r)
    /\ \/ worker[r] = "ok" /\ status' = [status EXCEPT ![r] = "success"]
       \/ worker[r] = "term" /\ status' = [status EXCEPT ![r] = "canceled"]
       \/ worker[r] = "err" /\ status' = FailAndBlock(r)
       \/ worker[r] = "lost" /\ r[2] \in CondorStages /\ status' = FailAndBlock(r)
    /\ ForgetWorker(r)
    /\ UNCHANGED <<backoff, orphan, disk>>

\* Mutant: a status no query of the scheduler selects.
Requeue_unknown_status(r) ==
    /\ status' = [status EXCEPT ![r] = "requeued"]
    /\ backoff' = [backoff EXCEPT ![r] = TRUE]

Requeue(r) ==
    /\ status' = [status EXCEPT ![r] = "ready"]
    /\ backoff' = [backoff EXCEPT ![r] = TRUE]

GiveUp(r) ==
    /\ status' = FailAndBlock(r)
    /\ UNCHANGED backoff

\* Mutant: compares with > instead of >=.
requeue_or_fail_once_more(r, budget) ==
    IF attempts[r] > budget THEN GiveUp(r) ELSE Requeue(r)

requeue_or_fail(r, budget) ==
    IF attempts[r] >= budget THEN GiveUp(r) ELSE Requeue(r)

\* A local worker gone without an exit record.
RequeueLost(r) ==
    /\ Reconciling(r)
    /\ worker[r] = "lost"
    /\ r[2] \notin CondorStages
    /\ requeue_or_fail(r, MaxAttempts)
    /\ ForgetWorker(r)
    /\ UNCHANGED <<orphan, disk>>

\* A live local worker whose status file carries another launch's token is
\* stopped when the row is requeued, and left running when the row gives up.
RequeueStale(r) ==
    /\ "stale" \in Faults
    /\ Reconciling(r)
    /\ worker[r] = "live"
    /\ r[2] \notin CondorStages
    /\ requeue_or_fail(r, MaxAttempts)
    /\ IF attempts[r] >= MaxAttempts THEN Abandon({r}) ELSE Terminate({r})

\* An eviction loop or a hold past its timeout: the cluster is removed first.
RequeueEvicted(r) ==
    /\ "evict" \in Faults
    /\ Reconciling(r)
    /\ worker[r] = "live"
    /\ r[2] \in CondorStages
    /\ requeue_or_fail(r, MaxEvictions)
    /\ Terminate({r})

\* A cluster neither the queue nor the history shows, three polls in a row.
FailUnseen(r) ==
    /\ "unseen" \in Faults
    /\ Reconciling(r)
    /\ worker[r] = "live"
    /\ r[2] \in CondorStages
    /\ status' = FailAndBlock(r)
    /\ Abandon({r})
    /\ UNCHANGED backoff

\* Normalisation of the rows, and promotion at once when externals are trusted.
EndReconcile ==
    LET kept == apply_not_selected_skips(status, reason, active)
        trimmed == apply_superseded_skips(kept, active)
        repaired == repair_orphaned_pending_upstream(trimmed)
        trust == IF SkipVerify THEN Trusted(repaired) ELSE {}
        settled == [r \in Rows |-> IF r \in trust THEN "skipped" ELSE repaired[r]]
        skipped == NotSelected(status, reason, active) \cup Superseded(kept, active)
        reopened == Reselected(status, reason, active)
        ck == [r \in Rows |-> IF r \in skipped \cup reopened THEN "none" ELSE check[r]]
        next == IF SkipVerify THEN promote_stages(settled, ck) ELSE settled
    IN  /\ Leave("reconcile")
        /\ status' = next
        /\ reason' = [r \in Rows |->
              IF r \in trust THEN "trusted"
              ELSE IF r \in Superseded(kept, active) THEN "superseded"
              ELSE IF r \in NotSelected(status, reason, active) THEN "not_selected"
              ELSE IF r \in reopened THEN "none"
              ELSE reason[r]]
        /\ check' = ck
        /\ Abandon(skipped)
        /\ IF SkipVerify THEN Enter("override", ForceLaunchable(next))
           ELSE Enter("drain", {r \in Rows : scan[r] \in Verdicts})
        /\ UNCHANGED <<attempts, backoff, forced, scan, run>>

(* Artifact scans (_run_verify_pass, _apply_verify_outcome) *)
VerifyCandidate(r) ==
    /\ status[r] \in {"pending", "external"}
    /\ artifact_verify_needed(status, active, r)
    /\ status[r] = "external" => check[r] # "1"
    /\ status[r] = "pending" => check[r] = "none" /\ deps_satisfied(status, r)

VerifyCandidates == {r \in Rows : VerifyCandidate(r)}

\* A verdict still counts if the row waits for one; an error changes nothing.
Applicable(r, verdict) ==
    /\ verdict # "error"
    /\ ~ (forceRerun /\ r[2] \in active)
    /\ status[r] \in {"pending", "external"}
    /\ check[r] # "1"

ApplyVerdict(r, verdict) ==
    IF ~ Applicable(r, verdict) THEN UNCHANGED <<status, reason, check>>
    ELSE IF verdict = "complete"
    THEN /\ status' = [status EXCEPT ![r] = "skipped"]
         /\ reason' = [reason EXCEPT ![r] = "artifacts"]
         /\ check' = [check EXCEPT ![r] = "1"]
    ELSE /\ status' = IF status[r] = "external" THEN FailAndBlock(r) ELSE status
         /\ check' = [check EXCEPT ![r] = "0"]
         /\ UNCHANGED reason

ScanAnswer(r) == IF disk[r] THEN "complete" ELSE "incomplete"

ApplyScan(r) ==
    /\ Visit("drain", r)
    /\ ApplyVerdict(r, scan[r])
    /\ scan' = [scan EXCEPT ![r] = "idle"]
    /\ UNCHANGED <<attempts, backoff, forced, work>>

EndDrain ==
    /\ Leave("drain")
    /\ Enter("verify", VerifyCandidates)
    /\ UNCHANGED <<status, ledger, work, scan, run>>

\* The manifest fast path answers at once, or the scan is queued for the pool.
VerifyFast(r) ==
    /\ Visit("verify", r)
    /\ scan[r] = "idle"
    /\ ApplyVerdict(r, ScanAnswer(r))
    /\ UNCHANGED <<attempts, backoff, forced, work, scan>>

VerifyScheduled(r) ==
    /\ Visit("verify", r)
    /\ scan' = IF scan[r] = "idle" /\ Cardinality({x \in Rows : scan[x] # "idle"}) < MaxScans
               THEN [scan EXCEPT ![r] = "busy"] ELSE scan
    /\ UNCHANGED <<status, ledger, work>>

\* The pass ends with the superseded skips, then the tick promotes.
EndVerify ==
    LET hits == Superseded(status, active)
        ck == [r \in Rows |-> IF r \in hits THEN "none" ELSE check[r]]
        next == promote_stages(apply_superseded_skips(status, active), ck)
    IN  /\ Leave("verify")
        /\ status' = next
        /\ reason' = [r \in Rows |-> IF r \in hits THEN "superseded" ELSE reason[r]]
        /\ check' = ck
        /\ Abandon(hits)
        /\ Enter("override", ForceLaunchable(next))
        /\ UNCHANGED <<attempts, backoff, forced, scan, run>>

\* Each pool takes as many ready rows as it has room for.
RunningIn(p) == {r \in running_stage_runs : PoolOf[r[2]] = p}
FetchableIn(p) == {r \in Rows : status[r] = "ready" /\ ~backoff[r] /\ PoolOf[r[2]] = p}

\* Mutant: each tick has the pool's whole capacity to fill.
FillPools_ignores_running ==
    /\ Leave("override")
    /\ \E batch \in SUBSET {r \in Rows : status[r] = "ready" /\ ~backoff[r]} :
           /\ \A p \in Pools : Cardinality(batch \cap FetchableIn(p)) <= Capacity[p]
           /\ Enter("launch", batch)
    /\ UNCHANGED <<status, ledger, work, scan, run>>

FillPools ==
    /\ Leave("override")
    /\ \E batch \in SUBSET {r \in Rows : status[r] = "ready" /\ ~backoff[r]} :
           /\ \A p \in Pools :
                LET room == Capacity[p] - Cardinality(RunningIn(p))
                    taken == Cardinality(batch \cap FetchableIn(p))
                IN  /\ taken <= room \/ taken = 0
                    /\ taken >= room \/ FetchableIn(p) \subseteq batch
           /\ Enter("launch", batch)
    /\ UNCHANGED <<status, ledger, work, scan, run>>

\* Mutant: canceled rows do not count.
derive_run_final_status_lenient(st) ==
    IF \E r \in Rows : st[r] = "failed" THEN "failed" ELSE "success"

derive_run_final_status(st) ==
    IF \E r \in Rows : st[r] = "failed" THEN "failed"
    ELSE IF \E r \in Rows : st[r] = "canceled" THEN "canceled"
    ELSE "success"

\* Mutant: counts only rows that can be launched now, not those in backoff.
Stuck_ignores_backoff ==
    /\ running_stage_runs = {}
    /\ \A r \in Rows : ~ (status[r] = "ready" /\ ~backoff[r])
    /\ VerifyCandidates = {}
    /\ \A r \in Rows : scan[r] = "idle"

\* Mutant: a row that waits for a dependency counts as work still to come.
Stuck_waits_for_pending ==
    /\ running_stage_runs = {}
    /\ \A r \in Rows : status[r] \notin {"ready", "pending"}
    /\ VerifyCandidates = {}
    /\ \A r \in Rows : scan[r] = "idle"

\* Nothing runs, nothing can be launched (a row in backoff can), no scan is due.
Stuck ==
    /\ running_stage_runs = {}
    /\ \A r \in Rows : ~ (status[r] = "ready" /\ deps_satisfied(status, r))
    /\ VerifyCandidates = {}
    /\ \A r \in Rows : scan[r] = "idle"

EndTick ==
    /\ Leave("launch")
    /\ runStatus' =
         IF \A r \in Rows : status[r] \notin NonterminalStatuses
         THEN derive_run_final_status(status)
         ELSE IF Stuck THEN "stalled"
         ELSE IF runStatus = "stalled" THEN "running"
         ELSE runStatus
    /\ Enter("idle", {})
    /\ UNCHANGED <<status, ledger, work, scan, paused, forceRerun, active>>

(****************************************************************************)
(* The environment                                                          *)
(****************************************************************************)
Outside == UNCHANGED <<status, reason, check, attempts, forced, run, phase, todo,
                       interventions>>

WorkerExits(r) ==
    /\ worker[r] = "live"
    /\ \E e \in Exits :
         /\ e = "lost" => "lost" \in Faults
         /\ worker' = [worker EXCEPT ![r] = e]
         /\ disk' = [disk EXCEPT ![r] = @ \/ e = "ok"]
    /\ Outside
    /\ UNCHANGED <<backoff, orphan, scan>>

OrphanExits(r) ==
    /\ orphan[r]
    /\ orphan' = [orphan EXCEPT ![r] = FALSE]
    /\ \E done \in BOOLEAN : disk' = [disk EXCEPT ![r] = @ \/ done]
    /\ Outside
    /\ UNCHANGED <<backoff, worker, scan>>

ScanFinishes(r, verdict) ==
    /\ scan[r] = "busy"
    /\ verdict \in {"error", ScanAnswer(r)}
    /\ scan' = [scan EXCEPT ![r] = verdict]
    /\ Outside
    /\ UNCHANGED <<backoff, work>>

BackoffElapses(r) ==
    /\ backoff[r]
    /\ backoff' = [backoff EXCEPT ![r] = FALSE]
    /\ Outside
    /\ UNCHANGED <<work, scan>>

\* A row's verdict, block_downstream and clear_launch_fields are transactions of
\* their own: after the first of them the rows behind a failure are not blocked
\* and the row still names its dead worker.
HalfFinalized(r) ==
    /\ phase = "reconcile"
    /\ \/ worker[r] = "ok" /\ status' = [status EXCEPT ![r] = "success"]
       \/ worker[r] = "term" /\ status' = [status EXCEPT ![r] = "canceled"]
       \/ worker[r] = "err" /\ status' = [status EXCEPT ![r] = "failed"]
       \/ /\ worker[r] = "lost"
          /\ r[2] \in CondorStages \/ attempts[r] >= MaxAttempts
          /\ status' = [status EXCEPT ![r] = "failed"]

\* A supervisor that dies loses its scans and its place in the tick; the rows
\* and the workers stay.
SupervisorRestarts ==
    /\ "restart" \in Commands
    /\ Intervene
    /\ UNCHANGED status \/ \E r \in todo : HalfFinalized(r)
    /\ phase' = "idle"
    /\ todo' = {}
    /\ scan' = [r \in Rows |-> "idle"]
    /\ UNCHANGED <<ledger, work, run>>

(****************************************************************************)
(* The system                                                               *)
(****************************************************************************)
LaunchRow(r) ==
    \/ LaunchRefused(r)
    \/ LaunchDemoted(r)
    \/ LaunchSkipped(r)
    \/ LaunchOk(r)
    \/ LaunchFails(r)

ReconcileRow(r) ==
    \/ KeepRunning(r)
    \/ Finalize(r)
    \/ RequeueLost(r)
    \/ RequeueStale(r)
    \/ RequeueEvicted(r)
    \/ FailUnseen(r)

VerifyRow(r) ==
    \/ ApplyScan(r)
    \/ VerifyFast(r)
    \/ VerifyScheduled(r)

Supervisor ==
    \/ BeginTick
    \/ EndForce
    \/ EndReconcile
    \/ EndDrain
    \/ EndVerify
    \/ FillPools
    \/ EndTick
    \/ \E r \in Rows : LaunchRow(r) \/ ReconcileRow(r) \/ VerifyRow(r)

Operator ==
    \/ Cancel
    \/ Pause
    \/ Resume
    \/ RetryRun
    \/ \E r \in Rows : ForceLaunch(r) \/ \E down \in BOOLEAN : RetryStage(r, down)
    \/ \E S \in RerunSelections : ForceRerun(S)

Environment ==
    \E r \in Rows :
        \/ WorkerExits(r)
        \/ OrphanExits(r)
        \/ BackoffElapses(r)
        \/ \E verdict \in Verdicts : ScanFinishes(r, verdict)

Next == Supervisor \/ Operator \/ Environment \/ SupervisorRestarts

Spec == Init /\ [][Next]_vars

\* The supervisor keeps looping, a worker exits or is lost sooner or later, and
\* a scan that is retried often enough answers.
Fairness ==
    /\ WF_vars(Supervisor)
    /\ \A r \in Rows :
        /\ WF_vars(WorkerExits(r))
        /\ WF_vars(BackoffElapses(r))
        /\ WF_vars(\E verdict \in Verdicts : ScanFinishes(r, verdict))
        /\ SF_vars(ScanFinishes(r, ScanAnswer(r)))

FairSpec == Spec /\ Fairness

(****************************************************************************)
(* Properties                                                               *)
(****************************************************************************)
\* Every requeue path draws on one counter: a local stage is never launched
\* more often than max_stage_attempts since its last reset, a condor stage
\* never more often than the larger eviction allowance.
Budget(r) == IF r[2] \in CondorStages THEN MaxEvictions ELSE MaxAttempts

AttemptsBounded == \A r \in Rows : attempts[r] <= Budget(r)

\* A row that runs has every input it waited for still settled: no command,
\* requeue, demotion or verdict takes a dependency away under a worker.
RunningHasInputs ==
    \A r \in Rows : status[r] = "running" =>
        \A d \in EffectiveDeps[r[2]] : status[<<r[1], d>>] \in SatisfiedStatuses

\* No row has two workers at once: one of its own and one left from an earlier
\* launch.
NoDuplicateWorker == \A r \in Rows : ~ (orphan[r] /\ worker[r] = "live")

\* A run that is over is quiet: nothing in it is left to do, and no worker a
\* row knows of is alive.
OverIsQuiet ==
    runStatus \in TerminalRunStatuses =>
        \A r \in Rows : status[r] \in TerminalStatuses /\ worker[r] # "live"

\* A run reported successful has the output of every stage it selected on
\* disk, whichever way the row was settled: run, found by a scan or found by
\* the launch's own look.
SuccessIsOnDisk ==
    runStatus = "success" =>
        \A r \in Rows : r[2] \in active /\ reason[r] # "config" => disk[r]

\* A tick that declares a stall can name a culprit for every row that is left:
\* a failed or canceled row it waits for, or a row skipped by its launch's own
\* look after this tick's promotion, behind which the next tick promotes.
Promotable(r) ==
    status[r] \in {"pending", "blocked"} /\ r[2] \in active /\ deps_satisfied(status, r)

Culprits(r) ==
    {x \in {r} \cup RowsOf(r[1], Ancestors[r[2]]) :
        status[x] \in {"failed", "canceled"} \/ Promotable(x)}

StallHasCulprit ==
    [][runStatus # "stalled" /\ runStatus' = "stalled" =>
         \A r \in Rows : status[r] \in NonterminalStatuses => Culprits(r) # {}]_vars

\* The supervisor never runs more workers of a pool than its capacity, over
\* all targets (without the force_launch override, which is meant to).
PoolWithinCapacity == \A p \in Pools : Cardinality(RunningIn(p)) <= Capacity[p]

\* What has succeeded is undone by an operator only, between ticks.
SuccessIsKept ==
    [][\A r \in Rows : status[r] = "success" /\ status'[r] # "success" => phase = "idle"]_vars

\* A worker starts only when the artifacts of everything it waits for are
\* complete on disk.
InputsOnDisk ==
    \A r \in Rows : status[r] = "running" =>
        \A d \in EffectiveDeps[r[2]] : reason[<<r[1], d>>] # "config" => disk[<<r[1], d>>]

\* Whatever of the modelled faults happens on the way, a run settles once nobody
\* intervenes any more: it ends, stalls for good, or stays paused.
RunSettles == <>[](paused \/ runStatus \in TerminalRunStatuses \cup {"stalled"})
=============================================================================
