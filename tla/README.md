# SynDiff pipeline orchestration in TLA+

SynDiff builds templates for TESS full frame images and makes difference images
with them. The numerical work is done by stages. This project is about the
programs around the numbers: a supervisor daemon that keeps the state of many
pipeline runs in one SQLite database, launches the stages as local processes or
HTCondor clusters, finds them again after crashes and restarts, verifies
artifacts on disk, and obeys operators who speak to it through database rows and
files; the threads and queues inside its heaviest stage, `ps1_process`; and the
controller that rents a Colab runtime for a training job and has to end its
billing. What is modelled lies in
`src/syndiff_pipeline/common/orchestration/`, `common/provenance/`,
`template_creation/processing/ps1_process.py`, `src/scripts/colab_job.py` and its
helpers in `forward_model/`, cited below by file name.

`PROJECT.json` maps every definition to its source lines, lists the components,
the runs with their properties, a mutant of the code that breaks each property,
the hazards of the code, the disagreements found, and the theorems.

## The system

| part | state it keeps | operations | talks to |
|---|---|---|---|
| pipeline DAG (`spec.py`, `template_creation/orchestration/stages.py`) | none | closures, dependents, effective dependencies of a target | rows |
| stage rows (`state.py`) | `runs`, `stage_runs`: status, attempts, backoff, skip reason, external check, descriptor, force_launch | claim, finish, requeue, block, promote, bulk skips, resets | supervisor, CLI |
| supervisor tick (`scheduler.py`) | its place in the loop, pools, scans in flight | commands, force overrides, reconcile, normalise, verify, promote, launch, run status | rows, workers, pools, lease |
| condor launch (`scheduler.py`, `launcher.py`, `condor.py`, `stage_liveness.py`) | condor queue, clusters file, poll-miss file, descriptor | submit, record, describe, query, remove | condor, rows |
| local launch (`launcher.py`, `run_stage.py`, `scheduler.py`) | process, pid, status file with a token, descriptor | clear, spawn, describe, status writes, resolve, signal | rows, files |
| the cell pipeline (`ps1_process.py`) | task list, five bounded queues, SEP futures, band cache with use counts, cell buffer, the cell store | fetch, combine, submit, collect, publish, gather, pad, save | threads and a process pool of one stage |
| Colab job controller (`colab_job.py`, `colab_submit.py`, `gpu_job_runner.py`, `colab_emergency_upload.py`) | `controller.json`, `remote_status.json`, the runtime, STOP file, cleanup lock | submit, two watchdogs, cleanup, supervise, stop, force, recover, emergency release | login host, Colab, Drive, operator |
| lease and stop (`lease.py`, `scheduler_control.py`, `daemon.py`) | `daemon.lease`, `daemon.stop`, pid file | acquire, settle, renew, release, stop, wait, clear | two hosts over one shared file system |
| artifact verification (`verify_worker.py`, `scheduler.py`) | fast futures, slow tasks, cancel marks | ask, submit, drain, cancel | rows, disk |
| provenance (`publish.py`, `ingest.py`, `store.py`, `reindex.py`, `gc.py`) | spool files, `provenance.db`, artifact directories | publish, append, rotate, ingest, reindex, collect | workers, supervisor |
| commands table (`state.py`, `cli.py`) | queued and processed commands | queue, fetch, apply, mark | CLI, supervisor |
| notifications, discord bot, host statistics, eviction exclusion, logs, reports, workspace configuration | files of their own | posting, formatting, configuring | read the rows |
| the stages (`template_creation/processing`, `difference_imaging`, `photometry`, `star`, `forward_model`) | arrays and FITS files | image processing | files |

### What is hard

- **Two workers of a row.** A row is tied to its worker by a descriptor that is
  written after the worker exists. Whatever rewrites the row (retry, rerun,
  requeue, a give-up, a bulk skip) has to stop the worker first.
- **One counter, three limits.** Launch failures, lost workers, stale tokens and
  evictions share `attempts`.
- **A run that neither ends nor stalls**, or stalls too early: the tick decides
  from the rows, the pools' scans and the backoff timers.
- **Late answers.** A scan, a poll, a status file or a stop request is about an
  earlier incarnation of what it names.
- **A lease without locks** on a shared file system, whose safety rests on time.
- **Crashes between two steps** of a launch, of a spool drain, of a finalize.
- **Bounded queues and sentinels.** Five queues of a stage can be full at once; the
  main thread is consumer and producer; a sentinel sent too early ends a thread
  with work behind it.
- **A billed runtime nobody watches.** A submit can die anywhere, and what
  cleans up after it can too.
- **Whole-file writes.** Each party of a Colab job loads `controller.json`, talks to a
  remote for minutes, and writes all of it back.

For each part the properties that make it correct:

- rows and tick: bounded launches; a running row's inputs stay settled and on
  disk; one worker per row; a finished run is quiet and its output is there; a
  stall has a culprit; every run settles; pools keep their capacity; success is
  kept;
- launch on condor: a live cluster is the one the row names and the clusters file
  records it; success belongs to the current launch; a running stage ends;
- local launch: the same of processes, and a worker on record is not given up;
- lease: at most one owner, whom the file names; a stray owner leaves; a stop
  reaches the one it is for;
- verification: full scans are current; every open row is decided;
- provenance: every artifact is indexed, unless a named fault loses it, and then only
  those of the producer in question;
- cell pipeline: nothing is left behind when publishing is judged, a failure names
  cells that were really lost, rows are complete, cached cells live as long as they
  are needed, the run ends;
- Colab job: a healthy runtime is kept, artifacts are saved before it goes, and
  billing ends or the file says why not.

## The modules

| module | what it is |
|---|---|
| `PipelineDag` | constants and sets: the DAG and its closures |
| `StageRuns` | the rows of one run and the tick; extends `PipelineDag` |
| `StageLaunch` | one row's launch on condor, step by step |
| `Ownership` | abstract: one supervisor, takeovers only when there is none |
| `SupervisorLease` | the lease and stop protocol; implements `Ownership` |
| `VerifyQueue` | the fast and slow pools and their verdicts |
| `LocalLaunch` | one row's launch as a local process, step by step |
| `SpoolDrain` | publishing, spool files, rotation, ingest, full reindex |
| `CellPipeline` | the threads and queues inside one `ps1_process` worker |
| `ColabJob` | one training job on a rented runtime |
| `MC*` | instances for TLC |
| `*_proofs` | theorems about the module of that name, checked by TLAPS: one for each of `StageRuns`, `StageLaunch`, `LocalLaunch`, `SupervisorLease`, `VerifyQueue`, `SpoolDrain`, `CellPipeline` and `ColabJob` |

How they fit: `StageRuns` sees a launch as one step that yields a worker, loses
it (`orphan`) or fails; `StageLaunch` opens that step up for condor stages and
`LocalLaunch` for local ones. `StageRuns` sees a scan as asked, busy and answered;
`VerifyQueue` opens that up. `SupervisorLease` justifies that `StageRuns` and the
others have one supervisor, and its restarts are the restart of `StageRuns`; a
takeover by another host is `move` of `LocalLaunch`. `CellPipeline` is the inside
of one worker: its `done` and `failed` are the two exits the others see, and a
pipeline that hangs is a worker that does not exit. `SpoolDrain` is the
supervisor's between-ticks work that the rows do not depend on. `ColabJob` shares
nothing with the supervisor; it is a controller of its own.

### PipelineDag, StageRuns

A row is a pair of target and stage. `status`, `reason` (skip reason), `check`
(external check), `attempts`, `backoff`, `forced` are columns of `stage_runs`.
`worker` is what the row's descriptor refers to: nothing, a live worker, or the
exit it left behind; `orphan` is a live worker of the row no descriptor names.
`disk` is whether the stage's artifacts are complete, `scan` where its scan is.
`runStatus`, `paused`, `forceRerun`, `active` are columns of `runs`.

`phase` and `todo` are the supervisor's place in `_tick_run`: *force* overrides,
*reconcile* of every running row, *drain* of scan results, *verify* of the
candidates, *override* again, *launch* of what the pools take, and *idle*, where
commands are applied. The loops visit the rows of `todo` in any order, one row
per step, so worker exits, scans and timers fall between any two of them. What
the code does in one go is one action with its bulk updates chained: `EndReconcile`
is normalisation (not-selected skips, superseded skips, repair, and trust and
promotion when verification is off), `EndVerify` is the end of the verify pass and
promotion. A finished row is finalized in three transactions; `HalfFinalized` is a
supervisor that dies between them, which leaves dependents that nothing blocks. `Fairness`: the loop goes on, workers exit or are lost, a scan that is
repeated answers for good in the end.

Abstractions: disk only grows; the failing and the dropped scan are the verdict
`error`; `lost` includes the grace and the misses that led there; a manifest or index answer
is `VerifyFast`; promotion of rows whose external check is warmed is
unreachable here; targets are all enabled; one `force_rerun` names all targets
(no command line emits it); `retry_alone` is `retry_stage` with
`--no-reset-downstream`. `MaxInterventions` bounds commands and restarts.

### StageLaunch

One condor row. `Claim`, `Submit`, `Record`, `Describe` are the four writes of
`_try_launch_ready_row`; `Interrupted` is a supervisor that dies, or an exception
that leaves the tick, between two of them. `SubmitFails` includes an answer that
cannot be parsed although a cluster was queued. `NeverSubmitted`, `Visible` and
`Invisible` are the branches of `_reconcile_condor_stage`: no cluster known (given
up after 300 s), condor shows it (running, evicted or ended), or nobody does (poll
grace, growing log, misses up to the limit). `SendKill` and `Sweep` are the two
halves of `syndiff kill`, which removes clusters from another process.
`lapses` is a history variable: which of interruption, lost submit answer and
too long a blindness have happened. Properties are conditioned on it, so that
they say which lapse breaks what. The exit status of a removed or
failed cluster is a choice among what `exit_statuses` allows (exit codes and
log tails are abstracted). `remove_cluster` may fail (`rm`), and no caller looks:
the row goes on without its cluster. Backoff, holds and the transactions inside one
reconcile are left out.

### LocalLaunch

One local row. `Claim`, `Clear` (the old status file is removed), `Spawn` and
`Describe` are the writes of a launch; `Begin` and `Finish` are the worker's writes
into the status file, which has one name for all launches of the stage; the reconcile
resolves a row by its descriptor's pid or by a status file that carries its token.
Workers survive their supervisor. `Restart` interrupts a launch at any write, and
may come up on another host, where a pid means nothing. `lapses` says which of
crash, move and slow (a worker that begins after the start grace) have happened.
A worker and its pid are named by the launch that started it, so reused pids are left
out, as are the requeue backoff and other rows.

### CellPipeline

Tasks go from the list through ingest workers (`rawQ`), band combiners (`combQ`), the
coordinator and its SEP processes to the store and to `main` (`outQ`). Threads of a
kind are alike: a set of tasks in hand and a count stand for them. The two modes
differ in `main`: in *publish* (`skip_convolved`) it joins every thread in turn and then counts
what is missing; in *rows* it gathers one row after the other with the next one in
sight, fetches padding from the band cache by use count, loads by itself what did
not come, and feeds the saver. Faults are a failed fetch, combine, SEP or band publish, a broken
process pool, a row or fingerprint conflict that raises, a timeout that comes early, a saver
that cannot open its store. `lost` is a history variable: the cells a fault made a
thread drop. A cell belongs to one row (`CellPipelineAssumption`); with no row at all main goes straight
to the end. Pixels, masks, catalogues and the fetching itself are left out.

### ColabJob

`Submit` goes from `enter` through allocation, endpoint, launch, proof and `running` to
the supervisor's start. It can raise or be killed at each. Its crash watchdog and its
provision deadline run `_submit_cleanup` under one lock. `supervise` is the loop on
the login host: load the file, fetch the status, act, sync, write back, and on a
terminal status a final sync and release. `RunnerEnds` and `RunnerHangs` are the
training; `emergency_upload_and_release` is its own way out. Where minutes of remote calls lie
between load and write, the loaded copy (`mem`) is part of the process's state. `past`
holds the faults that have happened and what they cut short.

The runtime is known in two ways: `registered` says that colab-cli's registry on the login
host names its session, and the controller file (`endpoint`) that its endpoint was
saved. Everything that talks to the runtime goes by the session; whether it is still
billed is asked by the endpoint (`Listed`). `stop_assignment_verified` is modelled
with both: `colab stop` needs the session, `colab unassign` the endpoint and the
authority, and a stop is verified when neither is listed. So a runtime that is in neither
counts as stopped and stays assigned. `New`, `Raise` and `NewByChild` may leave such a
runtime behind, and `Prune` takes a session out of the registry later. `NewByChild` is the `colab new`
that outlives a killed submit.

`RuntimeIsReleased` names four blind spots, each a tag of `past`: `handoff` (killed between setting
*running* and starting the supervisor), `cutcleanup` (a cleanup killed after it wrote
*failed*), `unwatched` (a resume killed before its watchdog starts, or a `colab new` that ends
after the watchdog of its killed submit has verified that there is nothing to stop) and `unregistered`
(a stop verified by absence). Without any one of the four TLC finds the property violated.
Commands come after submit is over. Provisioning phases, plots, status displays and a second
supervisor beside the first are left out.

### SupervisorLease, Ownership

Three supervisor processes, two on one host, and a shell per host.
`Start`, `Decide` (first read), `DropStop`, `NextGeneration` (the file is read again
for the generation), `WriteCandidate` and `Confirm` (settle sleep and second read)
acquire, each a step of its own, so that processes that race may take the same
generation; `Renew`, `RenewFails`, `SeeStop` are the heartbeat thread;
`Exit` clears the stop request and releases. `ReadTarget`, `RequestStop`,
`SignalOwner`, `FinishLocalStop`, `SeeReleased`, `FinishRemoteStop`, `GiveUp` are
`stop_daemon`. Time is two assumptions: the settle sleep outlasts another
process's window between read and write, and a lease that is renewed is fresh.
Each failure of either (`Confirm` while someone is about to write, `Expire` of a
live owner's lease, a process that sleeps between read and write in `Delay`)
counts as a stall, and `MaxStalls` bounds them: 0 is the protocol under its
assumptions, 1 what a single violation can do. An owner that is stopping no longer
renews (`scheduler.py:240`), so a last tick that takes longer than the stale time
counts as a stall too. `served` is history, which no action reads: the
supervisors since the file last forgot its generation.

`Ownership` is what a client of the lease may rely on: one supervisor at a time, and
generations that fence: who takes over holds a larger one than every supervisor
before it, and they start over only while nobody is at work. The refinement maps its
generations to those of `served`. What it says beyond `AtMostOneOwner` is about the file:
a release, a clearing shell or a late candidate that lost a generation while it is
needed would break it with a single owner.

Left out: SIGTERM during settling other than as a kill; pid reuse; the pid-file
fallback of `stop_daemon`; the flock beside the lease, which is best effort on the
shared file systems the lease is for; clock skew. The discord bot uses the same
lease code with another file.

### VerifyQueue

Per key the fast scan, the slow scan, the row's state and the epoch (how often it
was reset) in which the scan behind its verdict was asked. `AskFast`, `TakeFast`,
`Drain` are the main thread's verify pass, `RetryStage` and `CancelRun` the
commands, `FinishFast`, `StartSlow`, `FinishSlow`, `FinishZombie` the pools. A
zombie is a running full scan whose key was canceled: it keeps its worker. One
external and one pending key; the order of candidates and the budget per tick
are left out.

### SpoolDrain

`Publish` is the rename of an artifact. `Append` is open and write; `Open` and `Write` are the
same with the supervisor in between; `GiveUp` is a producer that dies or fails before its
record is written. `Rotate`, `Read`, `Commit`, `Unlink` are a drain pass file by
file. `Clear` and `Walk` are the operator's full reindex, which empties the table and finds
again what describes itself: artifacts of the two shared stores, not those of runs.
Faults: crash, failed transaction (`store`), failed read, failed unlink, delayed append,
missing record, clear. `past` says which kinds have happened since the stores were
last walked. Malformed lines, the order of records in a file and REPLACE details are
left out.

## The runs

Every run takes less than two minutes with two workers. Where `CHECK_DEADLOCK` is
FALSE the system really stops: a run that has ended and an operator who has used up the bound.

| run | instance | shows |
|---|---|---|
| `stages_chain` | mapping → ps1_process (condor) → downsample, all selected, artifacts on disk or not; cancel, pause, resume, retry_run, force_launch, restart, three of them; launch, lost, evict faults | `TypeOK`, `AttemptsBounded`, `NoDuplicateWorker`, `OverIsQuiet`, `SuccessIsOnDisk`, `InputsOnDisk`, `StallHasCulprit`, `RunSettles` |
| `stages_stream` | mapping → {ps1_download, remap} → downsample → diff with ps1_download skipped by configuration; diff alone or downsample and diff selected; every subset of upstream artifacts on disk; cancel, retry_run, retry_stage, restart, two of them; lost, stale, unseen workers | `RunningHasInputs` under scans, superseded rows, external failures and a DAG with two parents |
| `stages_pools` | two targets, diff_prep → diff, one pool of one; all faults, cancel, whole and narrower reruns, retry without downstream; verification off | `PoolWithinCapacity`, `SuccessIsKept` |
| `stages_retry_duplicate` | the chain and one retry_stage | a targeted retry doubles a worker (below) |
| `launch_lapses` | three launches, one interruption, two commands, six faults | `SuccessIsEarned`, `LiveIsRecorded`, `LiveIsNamed`, `LiveKeepsRunning`, `RunningEnds` |
| `local_restarts` | three launches, two crashes or moves, two commands, five faults | `LiveIsNamed`, `SuccessIsEarned`, `RecordedIsKept`, `RunningEnds` |
| `lease_timely` | no stalls, crashes, both shells, three stops | `AtMostOneOwner`, `OwnerIsNamed`, `ImplementsOwnership`, `StopHitsItsTarget` |
| `lease_stalls` | one stall, crashes, unwritable lease, the remote shell, one stop | `StrayOwnersLeave`, `StopIsObeyed` |
| `verify_scans` | two keys, one worker, two commands, one fault, one change of the disk | `FullScanIsCurrent`, `OpenRowIsDecided` |
| `spool_faults` | two producers, one of them self-describing, two artifacts each, two faults of seven kinds | `LossHasCause`, `LossIsLocal`, `EverythingIndexed` |
| `cells_chain` | two projections of rows with cross padding, both modes, two readers and combiners, queues of one and two, one fault of any kind, a cell the archive lacks | `NothingLeftBehind`, `FailureHasCause`, `RowsAreComplete`, `ManualHasCause`, `HitsStayCached`, `RunEnds` |
| `colab_billing` | a fresh or resumed submit, one fault of thirteen kinds, one stop, force or recover | `HealthyIsKept`, `ArtifactsBeforeRelease`, `RuntimeIsReleased` |

### Why the bounds are enough

A tick visits rows one at a time and asks of each only its own columns, its
dependencies and its dependents, so three stages in a chain give a row with both,
and the diamond gives a row with two parents of which one can be superseded while
the other is not. `MaxAttempts` 2 and `MaxEvictions` 3 separate the three requeue limits;
two or three interventions allow a command, a crash in the middle of its effects and a
repair. One pool of one with two targets is the
smallest at which a pool can be overfilled. In a launch, three claims give an
original, a relaunch and one more whose adopted cluster may be either. Two
same-host processes and one on another host give both ways a lease can be
reclaimed (dead pid, staleness) and a third contender while two race; a second
stop can come from a shell that waited for an earlier owner. Two records per producer are
what it takes for a leftover file to be replaced.

A local launch adds a host that changes to what condor has, and a crash and a move
need two restarts. Two projections whose rows pad each other are the smallest in
which a cell is a row's cell and another projection's padding, which is what the
use counts are for; queues of one and two with two combiners let every queue be full
at once and a sentinel overtake or be overtaken. `FAIL_LIMIT` 2 separates the first failed
poll of a runtime from the one that gives it up; the safety properties of `ColabJob` were
also run with two faults, too slow to keep for the liveness.

Every property has a mutant, a plausible slip in the code the
run's own bounds catch: the cases happen.

### Fairness

Fairness is asserted of what the code schedules or the environment must do in the
end, and is weak unless said otherwise:

- the supervisor's loop (a daemon restarted by its operators), its launches, reconciles and
  drains, the heartbeat thread, the pools' threads, timers and graces, and workers,
  which exit or are lost;
- `CellPipeline`: some thread moves while one can (`Work`), which is weaker than
  fairness of each thread;
- `SpoolDrain`: a producer goes on with an append or gives it up; a reindex goes on;
- `ColabJob`: processes that live go on, a killed supervisor is restarted (its unit has
  `Restart=on-failure`), a training that runs ends, a command once begun is finished.

Strong fairness is asserted in three places: condor answers a poll that is repeated for ever
(`Visible`), a scan that is repeated for ever does not fail for ever
(`ScanFinishes`), and the log of a stalled training is older than the grace in the
end although polls fail in between (`SupFinalSync`). Commands, crashes, faults and starts of
supervisors are never fair.

## What is proved

TLAPS checks the theorems below for every value of the constants that satisfies the named
assumptions of the modules: any number of targets, stages, launches, processes, files, rows and
threads, and any bound on faults, commands and queues. Every safety invariant and every action property the runs
check is among them, and so is the refinement of `Ownership`.

| module | theorem | states | further hypothesis |
|---|---|---|---|
| `StageRuns_proofs` | `TypeCorrect` | `[]TypeOK` | |
| | `AttemptsStayBounded` | `[]AttemptsBounded` | |
| | `SuccessStays` | `SuccessIsKept` | |
| | `InputsStaySettled` | `[]RunningHasInputs` | `CommandsTakeDependents` |
| | `OverStaysQuiet` | `[]OverIsQuiet` | |
| | `SuccessStaysOnDisk` | `[]SuccessIsOnDisk` | |
| | `InputsStayOnDisk` | `[]InputsOnDisk` | `WholeRuns`, `CommandsTakeDependents` |
| | `StallsHaveCulprits` | `StallHasCulprit` | `WholeRuns`, `Acyclic` |
| | `WorkersStaySingle` | `[]NoDuplicateWorker` | `WholeRuns`, `NothingIsAbandoned`, `KeepsTheOrder` |
| | `PoolsKeepCapacity` | `[]PoolWithinCapacity` | `NoForcedLaunches` |
| `StageLaunch_proofs` | `TypeCorrect` | `[]TypeOK` | |
| | `SuccessStaysEarned`, `LiveStaysRecorded`, `LiveStaysNamed` | `[]SuccessIsEarned`, `[]LiveIsRecorded`, `[]LiveIsNamed` | |
| | `LiveStaysRunning` | `LiveKeepsRunning` | |
| `LocalLaunch_proofs` | `TypeCorrect` | `[]TypeOK` | |
| | `SuccessStaysEarned`, `LiveStaysNamed` | `[]SuccessIsEarned`, `[]LiveIsNamed` | |
| | `RecordedStaysKept` | `RecordedIsKept` | |
| `SupervisorLease_proofs` | `TypeCorrect` | `[]TypeOK` | finitely many processes |
| | `OneOwnerAtATime`, `OwnerStaysNamed` | `[]AtMostOneOwner`, `[]OwnerIsNamed` | `NothingStalls` |
| | `LeaseImplementsOwnership` | `ImplementsOwnership` | `NothingStalls` |
| | `StopStaysOnTarget` | `StopHitsItsTarget` | |
| `VerifyQueue_proofs` | `TypeCorrect` | `[]TypeOK` | |
| | `PoolStaysSmall` | `[](Busy <= MaxWorkers)` | |
| | `FullScansStayCurrent` | `[]FullScanIsCurrent` | |
| `SpoolDrain_proofs` | `TypeCorrect` | `[]TypeOK` | |
| | `LossStaysCaused` | `[]LossHasCause` | |
| | `LossStaysLocal` | `LossIsLocal` | |
| `CellPipeline_proofs` | `TypeCorrect` | `[]TypeOK` | |
| | `RowsStayComplete` | `[]RowsAreComplete` | |
| | `NothingStaysBehind`, `FailureKeepsItsCause` | `[]NothingLeftBehind`, `[]FailureHasCause` | |
| | `HitsStayInCache`, `ManualKeepsItsCause` | `[]HitsStayCached`, `[]ManualHasCause` | |
| `ColabJob_proofs` | `TypeCorrect` | `[]TypeOK` | |
| | `HealthyStays`, `ArtifactsStaySafe` | `[]HealthyIsKept`, `[]ArtifactsBeforeRelease` | |

Each proof has the same shape: an inductive invariant, one lemma per action or group of actions with a step for
each conjunct the action can disturb, and a last step of temporal logic. TLC checked every inductive
invariant on the run of its module before it was proved.

### Rows and the tick

*Attempts.* `AttemptsBounded` is not inductive. A row in `ready` might have used its budget up,
and the next launch would overdraw it; that it never has is a consequence of the
order of the tests in the requeue paths. `BudgetInv` adds `SpareAttempt`: a row that waits or that the
tick has picked for launching has an attempt left; and `SkippedOutside`: a row skipped as not selected
lies outside the selection, so that reselecting it, which keeps its attempts, never brings a
spent row back. The assumption `MaxEvictions >= MaxAttempts` is
necessary: launch failures and lost workers are compared with the one, evictions with the other.

*Order.* Two theorems rest on one fact about steps: a settled row (success or skipped) keeps its
status in every step that is not a command, and a row starts only when the launch loop has
picked it and its dependencies are settled (`SettledStays`, `StartsInOrder`). The
loops need to know that what they picked has not changed under them, `VisitedOpen`:
rows picked for launching still wait, rows picked for reconciling still run. `TickInv` is `BudgetInv` and `VisitedOpen`.
A command unsettles rows, so it has to take the rows behind them along: `CommandsTakeDependents`
excludes a retry with `--no-reset-downstream` and reruns of a selection that leaves
dependents out, and both really break `RunningHasInputs`. Resets walk `Deps` while launches look at
`EffectiveDeps`; `EffectiveDepsAssumption` (an effective dependency is an
ancestor by `Deps`) is what makes the one cover the other.

*The end of a run.* `SettledInv` ties the run's status to its rows and the rows to the disk: a run that is over
has no row that could still move, a live worker is that of a running row, and an
exit, a success, a verdict of a scan or a skip for artifacts has its artifacts on disk. A tick may be
in its middle when a command or a crash changes the run, so this has to hold at every phase.

*Runs of the whole pipeline.* A run that selects a part of the pipeline trusts, supersedes or leaves
out what it does not select, and promises less; a superseded scan even skips rows whose output
is still read (below). `WholeRuns` (every stage selected, which is the default of the command line) rules that out.
`StallsHaveCulprits` picks, in an acyclic DAG, an unfinished row none of whose ancestors is unfinished, and looks at
what a tick does with it; TLC checks it for partial selections as well (`stages_chain` has none, but it holds in the
instances of `stages_stream` and `stages_pools`).

*One worker.* `SettledUpwards` says that whatever comes before a row that runs or is settled is settled; so the rows
behind a failed one do not run, and a reset finds no worker behind them. The hypotheses
exclude what the code does break: `NothingIsAbandoned` leaves out retries of one stage (the
violation of `stages_retry_duplicate`), a worker that is given up alive (stale token, unseen cluster), and a
`force_rerun` where the configuration skips stages, since it resets those to pending as well. `KeepsTheOrder` says that what a stage waits for
in this configuration follows the order of the registry among the stages not skipped. It holds with `ps1_download`
skipped and in linear geometry with `remap` skipped; it does not with `downsample.convolved_dir` set
(`stages.py:62`), where downsample waits for mapping alone while `ps1_process` still runs: a retry
after that one failed may reset a running downsample.

*Pools.* What is about to be launched counts: `ClaimsFit` bounds, for each pool, the rows that run
together with the rows the current tick has picked. A forced launch ignores capacity by design, so `NoForcedLaunches`
leaves that command out, and `NoOverride` says that then no row carries the mark.

### Launches

On condor, `LaunchInv` numbers clusters in the order of their launches and says how far the launch in progress
is (claimed, submitted, recorded); `DescribesCurrent` is that without an interruption the row describes the cluster of its current launch,
`AllRecorded` that the file names every cluster ever submitted, dead or alive. The latter is stronger than
`LiveIsRecorded`, which is not inductive, as nothing takes a line out of the file. `OneIsLive` states
`LiveIsNamed` also inside a launch. `SuccessIsEarned` needs no more than that interruption is excluded; failed
removals, blind polls and lost answers may have happened.

For local launches `FileIsTrue` replaces the cluster file: what the status file says of a launch was so when its
worker wrote it, and an exit is final. With that `SuccessIsEarned` holds under every lapse. `OneIsLive` is as above, with the grace:
once it is over, the worker has left its record.

### Lease and stop

`LeaseInv` holds up to the first stall: the lease of a live process is fresh, so nobody may reclaim it; an
owner holds the lease to its end; and once there is an owner nobody is between the first read and the write. The last is
what the settle sleep is for. Without it (one stall) the property fails, and `StrayOwnersLeave` takes its place.
`GenerationsFence` is the part about generations. Two processes that race to acquire may hold the same, so nothing can be said
of all that are handed out; but a generation that is taken is larger than that of every supervisor so far, since the file
keeps up with them, and whoever is confirmed finds nobody left who might hold it too. Hence `LeaseImplementsOwnership`.
The theorems about owners and the refinement have `NothingStalls` as hypothesis since their properties do not mention stalls;
`StopHitsItsTarget` does, so its invariant is kept up to the first stall and the theorem needs no hypothesis.
`RequestInv` says what a stop request means: who it is for has written its candidate, and the request names that generation.
No two supervisors since the file last forgot had the same one, so the request stops no other.

The types hold under any stalls and faults. What needs an argument is the bound on the generations: a process takes a number once in
its life, so `CountedGenerations` bounds every generation in the file, a request or a hand by the number of
processes that have done so (`Beyond`). The hypothesis that the processes are finitely many
only makes that number meaningful.

### Scans, spool

`QueueInv` follows a full scan through table, pool and zombie: each carries an epoch that is the row's, unless its key is
marked canceled. `PoolInv` counts what runs in the slow pool together with the scans that a retry has dropped
and that still occupy a worker; `ResetsInv` says that a row has been reset by commands only. `SpoolInv` describes the files (the renamed file holds the older records, an open
file descriptor goes with a rename, a pass has a file in work only while it has it to do); `LossStaysLocal` follows from it
step by step. `LossHasCause` is not inductive: `TracesOfDelay` and `DrainUnderWay` say which pending states
have already left their trace in the past, so that a later loss has its cause.

### The cell pipeline

`RowsAreComplete` is inductive as it stands. For a run that publishes, `ChainInv` says where the sentinels are: in the raw queue last and
one for each combiner that is to meet one, in the combined queue at most one and nothing behind it, and main goes down
the chain only when the stage above has ended. `HeldInv` is a conservation law: at any time every cell is
published, absent, lost, in writing or on some bundle in the chain. With nothing left behind, what
is missing is lost.

That every cell is in the chain at the start is a lemma about `FlattenSeq` and `SetToSeq`
(`PublishTasksCover`). The prover has no induction theorem it can instantiate; the file proves one for sets
of numbers (`Induction`, from the well-foundedness of finite sets under inclusion) and uses it to show that the
recursive function behind `FlattenSeq` exists and what it returns.

For a run that assembles rows, `CacheInv` says when a cell may leave the band cache and what may be missing from it:

- `OnceInv`: the cell of a row is under way once. It is in one stage only, and none of those behind it, so what main has
  gathered does not come again (`GatheredInv`).
- `CountInv`: the use count of a cell that pads anything is at least the padding steps that are still to come plus, while its own
  row has not been used up, one. This compares a number the code decrements with the cardinality of a set that the position of
  main defines. A cell that a step evicts has count zero, so no padding step ahead wants it and no hit of it is upstream
  (`HitInv`, which is `HitsStayCached` without its condition).
- `RowKept` and `PaddingKept`: every cell of a row, and every padding source of a step to come, is under way, gathered or cached,
  lost to a fault, or not in the archive. So what main does not find and loads by itself is lost or does not
  exist (`ManualInv`).

The types, `OnceInv` and `RowKept` hold whatever happens. The others hold under `Calm`: no timeout has come early and the pool has not
broken, which is also the condition of both properties. A fetch, combine, SEP or publish fault, a failed row,
a conflict and an absent saver are not excluded. At the start all this rests on the task list
again: the interleaved list has every cell of a row once and every padding source at least once per
projection (`InterleavedTasksCover`, by the same induction). `NoShortcuts` adds that a publishing run has no hits and loads nothing
by itself.

The types of the pipeline contain its bounds, and those are more than types. `SizesInv` bounds queues, readers and the pool of
writes. A publishing run that has succeeded puts one sentinel per combiner into the raw queue again (`ps1_process.py:4202`), where
nobody takes them any more and a full queue would block main for good:
`SpentInv` says that the raw queue is empty once the last combiner has ended, `CountsInv` that combiners and
the sentinels they answer with never exceed their number, and that main has counted its sentinels from zero. `ArrivalsInv`
says that what reaches main in a run that assembles rows belongs to a row. They rest on `ChainInv` and `CacheInv`.

The assumption that the rows' cells are disjoint is used in `OnceInv`. It is what the code has: cells are grouped by their
projection and their y (`ps1_process.py:320-330`), and the comment at `ps1_process.py:2203-2208` relies on it.

### The Colab job

`SubmitInv` and `SeenInv` relate the processes of a job (what a watchdog or a supervisor may
find, given how far the submit and the training are), `HealthyInv` is their conjunction under the condition
`Innocent`: none of the excused causes has happened. It is needed because a process acts on a copy of
the file it read minutes ago: the copy has to be
true enough for what is done on it. `SmoothInv` does the same for the artifacts: under `Smooth`, what is closing, aborting or
releasing has saved or uploaded what there was.

### Checked by TLC only

- Every liveness property: fairness and ENABLED are outside the prover's reach.
- The violation in `stages_retry_duplicate`.


## Where the code and its documents disagree

One run ends in a violation, of a property that a document states:

- `stages_retry_duplicate` (`NoDuplicateWorker`): a targeted retry stops the worker of the
  row it names, then resets the rows behind it whatever they do. A running one
  loses its descriptor and is launched again while its worker lives.

The rest was seen while modelling and is carried by no run; properties whose
formula names an exception name it for one of these.

### Rows, scans and launches

- A cancel applied while a row has no descriptor (a crash in the middle of a launch) removes
  nothing and marks the row canceled (`scheduler.py:2387`).
- A superseded scan skips mapping although downsample, in the same run, still reads its
  output (`state.py:355`), so `InputsOnDisk` is checked only where all is selected.
- A selected pending row is promoted without the verification the documents describe as
  a gate (`state.py:769`).
- An incomplete scan fails an external row, where the documents say cached and
  retried (`scheduler.py:1030`).
- A retry cancels the slow scan of a row and not the fast one (`scheduler.py:1324`); an
  answer from before the retry decides the reopened row.
- A cancel mark set when nothing is in flight swallows the next scan's result
  (`verify_worker.py:255`).
- A fast scan that raises stays in the table and ends each tick of its run
  (`scheduler.py:1341`), against the comment at `scheduler.py:1021`; hence `Ticking` in `OpenRowIsDecided`.
- A launch that finds its output and skips makes the run `stalled` for one tick;
  `StallHasCulprit` allows for it.
- `force_launch` outlives a retry of its row.
- A `force_rerun` with a narrower selection can leave a ready row outside the active
  stages that is never launched, so that the run neither ends nor stalls (`state.py:1951`).
- `read_recorded_cluster_id` returns the first line of the file where its docstring says the
  latest (`condor.py:193`).
- A cluster no poll shows is given up and not removed (`scheduler.py:810`).
- Local stages: a give-up does not stop a worker that lives; a row without a descriptor is
  requeued without the grace its condor branch has; an orphan that overwrites the shared
  status file gets a healthy relaunch terminated once its grace is over; after a takeover pids are looked up on
  the wrong host.

`NoDuplicateWorker` also fails once a give-up leaves a live worker behind (a stale token on the last attempt, a
cluster no poll shows), and under `retry_run` when a row behind a failed one is running; it is checked
without these.

### Lease and stop

- A starter reads the next generation (`lease.py:453`) and writes its candidate (`:461`) apart, so two that
  race may hold the same, and `stop_targets_owner` (`:403`) compares only the generation: a shell that
  read the candidate of the one that loses then stops the one that wins. This needs one shell and no stall;
  `StopHitsItsTarget` is stated for requests that were meant for a supervisor.
- A local stop releases the lease twice (`scheduler_control.py:388`), and a remote one clears what
  is left of it (`:427`); both forget the generation, against the docstring at `lease.py:413`. A
  shell that has read the earlier owner and not yet sent its request can then stop a later owner of
  the same generation. `StopHitsItsTarget` and `Ownership` count from the last time the file forgot.
- Two shells that stop at once can also clear each other's request. `StopIsObeyed` is checked with one.
- An owner that cannot renew gives up after the time that makes the lease stale, not
  before (`scheduler.py:275`).

### Provenance

- A `.draining` file left by a crash is replaced by the rename of the next pass when the
  producer has written again (`ingest.py:72`), and its records are lost to the index.
- A spool file that cannot be read is removed (`ingest.py:87`), against the comment at
  `ingest.py:126`; an append whose descriptor was opened before the rename is lost after it (`publish.py:194`).
- The advice to drain before a full reindex (`bookkeeping.md:353`) does not help: the
  drained records of artifacts that do not describe themselves are the ones the reindex
  deletes.

### The cell pipeline

- A cell found in the store goes into the band cache (`ps1_process.py:975`), and one that pads nothing has no
  use count and stays there to the end, where the comment at `:909` speaks of memory bounded by the
  worker pool.
- The comment at `ps1_process.py:3703` has padding dispatched just in time; the task list of the whole run
  is made at once (`:4075`), with padding one row behind.
- The coordinator gets exactly one sentinel according to `ps1_process.py:4199`; it gets one per combiner
  in *rows*, and leaves at the first.
- "A cell lost anywhere fails the stage" (`ps1_process.py:4130`), but a broken process pool makes it hang: the
  coordinator ends before its sentinel. A fingerprint conflict raised in `main` can wait for ever for
  readers blocked on a full queue.
- A padding cell fetched again after its eviction is never evicted again.
- A download batch handed to `ZarrWriter` after its close sentinel waits for ever (`ps1_download.py:856`).

### The Colab job

- After `--resume` the status cached from the run before can be terminal, and stops a healthy
  training (`colab_job.py:2206`), against the comment at `colab_job.py:2574`; `cached` in `HealthyIsKept`.
- `sync_artifacts_local` returns True whatever downloads failed (`colab_job.py:2347`), so a final sync
  counts with an older checkpoint; the last line of `ArtifactsBeforeRelease`.
- `finalize_abnormal_job` is for "when the VM dies" (`colab_job.py:2399`), but a runtime that
  does not answer is never finalized: the supervisor polls it for ever.
- A job that ends without a parameter artifact repeats its final sync for ever.
- The supervisor exits with 2 after an orphaned or abnormal end, and its unit restarts it
  for ever; so does the `kill -9` of `stop --force`.
- Whole-file writes drop what others wrote meanwhile, `force_stopped` among it (`colab_job.py:2425`,
  `:2511`, `:2926`).
- `_submit_cleanup` does not look at the state again once it has the lock (`colab_job.py:1000`): a
  watchdog at its deadline may stop a job just set running, and a submit may set *running* after a
  cleanup (`colab_job.py:2156`).
- `stop_colab_session` promises to "verify the server endpoint is unassigned" (`colab_job.py:955`). With no
  endpoint on record it verifies that the session's name is not listed (`colab_submit.py:337-341`), which holds
  at once for a runtime that was assigned and is not in the local registry: `session_stopped` is set, the error
  is taken out and billing goes on. The comments know such runtimes (`colab_submit.py:94-96`,
  `colab_job.py:861-867`), and so does submit, which raises when it finds no endpoint
  (`colab_job.py:1833-1836`) and then cleans up in just this way; `unregistered` in `RuntimeIsReleased`.
- The other three blind spots (`colab_job.py:2164`, `:1009`, the start of a resume and a `colab new` that
  outlives its submit, `:1829`) leave a billed runtime nobody watches.
- `orphaned_runtime` is not set back when the runtime answers again; a stop during a cleanup
  can leave *orphaned* on a runtime that is released.
- When the unit exists already, the fallback to tmux starts a second supervisor.

## What is not modelled

- The numerical stages, about two thirds of the source: image processing, photometry, star and
  forward models, their plots and scripts. They are functions of arrays of floating point
  numbers; they appear as steps that succeed or fail, the checks of their artifacts as
  verdicts. The map therefore covers a few per cent of the source and will not
  cover much more.
- Notifications, the bot, reports, host statistics and the eviction exclusion read
  the rows and change nothing the rows depend on. The bot's lease is the supervisor's.
- Parsing and formatting: the command line (its effects are in `StageRuns` and
  `StageLaunch`), parameters, workspaces, fingerprints.
- Of modelled parts: reused pids; the pid-file fallback of `stop_daemon`; the registry of local
  command line runs; garbage collection, which reports unless told to delete; the reindex of one dataset;
  provisioning phases and fallback supervisors of a Colab job; the coordinator of the cell pipeline waiting
  while memory is short (`ps1_process.py:1664-1674`): a delay if memory recovers, and if it does not
  `RunEnds` says nothing.
- Clocks appear as graces that elapse, never as numbers. SQL is taken as atomic
  transactions, which is what the code's single writer relies on.

## Plan

1. *Done*: rows and tick with a finalize cut in two, launches on condor (with a failing
   condor_rm) and on the host, lease, verification, publishing and spool with the full reindex, the cell
   pipeline, the Colab job.
2. *Done*: the safety properties of all of these proved; the refinement
   of `Ownership`.
3. Left: `StallHasCulprit` for runs that select a part of the pipeline; an abstract `DagRun` (a stage starts after its inputs,
   ends once, is redone on request) that `StageRuns` implements.

The bounds of new runs stay those above: two or three of everything that races,
one or two of each fault.
