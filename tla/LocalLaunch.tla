----------------------------- MODULE LocalLaunch ------------------------------
(****************************************************************************)
(* How one local stage gets its worker process and is found again: claim,   *)
(* removal of the old status file, Popen and set_launch_descriptor, the     *)
(* status file the worker writes, the reconcile of a running row, cancel    *)
(* and retry (scheduler.py, launcher.py, run_stage.py, daemon.py).          *)
(*                                                                          *)
(* Workers survive their supervisor.  What tells a restarted one of them is *)
(* the descriptor of the row, which names a pid, and the status file, which *)
(* every worker of the stage overwrites with its own launch token and pid.  *)
(* A worker and its pid are named by the launch that started it.            *)
(****************************************************************************)
EXTENDS Naturals, FiniteSets

CONSTANTS
    MaxAttempts,     \* max_stage_attempts
    Faults,          \* spawn, crash, move, die, slow
    Commands,        \* cancel, retry
    MaxLaunches,     \* bound on claims
    MaxCrashes,      \* bound on restarts of the supervisor
    MaxCommands      \* bound on commands

ASSUME LocalLaunchAssumption ==
    /\ MaxAttempts \in Nat \ {0}
    /\ {MaxLaunches, MaxCrashes, MaxCommands} \subseteq Nat

Launches == 1 .. MaxLaunches
None == 0
NoFile == [token |-> None, state |-> "missing"]

VARIABLES
    status,       \* stage_runs.status of the row
    attempts,     \* stage_runs.attempts
    launch,       \* the launch_token, counted
    native,       \* stage_runs.native_id
    fresh,        \* the claim is younger than _LOCAL_START_GRACE_S
    file,         \* the status file of the stage
    worker,       \* the process of each launch
    elsewhere,    \* workers on another host than the supervisor
    step,         \* how far the supervisor is in a launch
    crashes,      \* restarts so far
    commands,     \* commands so far
    lapses        \* history: crash, move, slow, once they have happened

row  == <<status, attempts, launch, native, fresh>>
past == <<crashes, commands, lapses>>
vars == <<row, file, worker, elsewhere, step, past>>

Live(w) == worker[w] \in {"starting", "working"}

TypeOK ==
    /\ status \in {"ready", "running", "success", "failed", "canceled"}
    /\ attempts \in Nat
    /\ launch \in 0 .. MaxLaunches
    /\ native \in Launches \cup {None}
    /\ fresh \in BOOLEAN
    /\ file \in {NoFile} \cup [token : Launches, state : {"running", "ok", "err"}]
    /\ worker \in [Launches -> {"none", "starting", "working", "ok", "err", "killed", "lost"}]
    /\ elsewhere \subseteq Launches
    /\ step \in {"idle", "claimed", "cleared", "spawned"}
    /\ crashes \in 0 .. MaxCrashes
    /\ commands \in 0 .. MaxCommands
    /\ lapses \subseteq {"crash", "move", "slow"}

Init ==
    /\ status = "ready" /\ attempts = 0 /\ launch = 0 /\ native = None /\ fresh = FALSE
    /\ file = NoFile
    /\ worker = [w \in Launches |-> "none"]
    /\ elsewhere = {}
    /\ step = "idle"
    /\ crashes = 0 /\ commands = 0 /\ lapses = {}

(****************************************************************************)
(* What several actions use                                                 *)
(****************************************************************************)
\* A pid is looked up on the supervisor's own host.
is_process_alive(w) == w # None /\ Live(w) /\ w \notin elsewhere

\* SIGTERM to the process group; no stage installs a handler.
terminate_process_tree(w) ==
    worker' = IF is_process_alive(w) THEN [worker EXCEPT ![w] = "killed"] ELSE worker

clear_launch_fields == native' = None /\ fresh' = FALSE

\* Given up after the last attempt, whether its worker lives or not.
give_up ==
    /\ attempts >= MaxAttempts
    /\ status' = "failed"
    /\ clear_launch_fields
    /\ UNCHANGED <<attempts, launch, worker>>

requeue ==
    /\ attempts < MaxAttempts
    /\ terminate_process_tree(native)
    /\ status' = "ready"
    /\ clear_launch_fields
    /\ UNCHANGED <<attempts, launch>>

requeue_or_fail == give_up \/ requeue

(****************************************************************************)
(* Launching                                                                *)
(****************************************************************************)
Claim ==
    /\ step = "idle"
    /\ status = "ready"
    /\ launch < MaxLaunches
    /\ status' = "running"
    /\ attempts' = attempts + 1
    /\ launch' = launch + 1
    /\ fresh' = TRUE
    /\ step' = "claimed"
    /\ UNCHANGED <<native, file, worker, elsewhere, past>>

RemoveStatusFile ==
    /\ step = "claimed"
    /\ file' = NoFile
    /\ step' = "cleared"
    /\ UNCHANGED <<row, worker, elsewhere, past>>

Spawn ==
    /\ step = "cleared"
    /\ worker' = [worker EXCEPT ![launch] = "starting"]
    /\ step' = "spawned"
    /\ UNCHANGED <<row, file, elsewhere, past>>

\* Popen raises; there is no descriptor yet and nothing to terminate.
SpawnFails ==
    /\ "spawn" \in Faults
    /\ step = "cleared"
    /\ requeue_or_fail
    /\ step' = "idle"
    /\ UNCHANGED <<file, elsewhere, past>>

\* set_launch_descriptor
Describe ==
    /\ step = "spawned"
    /\ native' = launch
    /\ step' = "idle"
    /\ UNCHANGED <<status, attempts, launch, fresh, file, worker, elsewhere, past>>

Launching == Claim \/ RemoveStatusFile \/ Spawn \/ SpawnFails \/ Describe

\* The supervisor dies, or an exception leaves the tick, and it starts again: on
\* the same host, or on another one of the workspace, where no worker is seen.
Restart ==
    /\ crashes < MaxCrashes
    /\ crashes' = crashes + 1
    /\ step' = "idle"
    /\ \/ /\ "crash" \in Faults
          /\ step # "idle"
          /\ lapses' = lapses \cup {"crash"}
          /\ UNCHANGED elsewhere
       \/ /\ "move" \in Faults
          /\ lapses' = lapses \cup {"crash", "move"}
          /\ elsewhere' = elsewhere \cup {w \in Launches : Live(w)}
    /\ UNCHANGED <<row, file, worker, commands>>

(****************************************************************************)
(* The worker: run_stage                                                    *)
(****************************************************************************)
WriteStatus(w, state) == file' = [token |-> w, state |-> state]

Begin(w) ==
    /\ worker[w] = "starting"
    /\ WriteStatus(w, "running")
    /\ worker' = [worker EXCEPT ![w] = "working"]
    /\ UNCHANGED <<row, elsewhere, step, past>>

Finish(w) ==
    /\ worker[w] = "working"
    /\ \E result \in {"ok", "err"} :
        /\ WriteStatus(w, result)
        /\ worker' = [worker EXCEPT ![w] = result]
    /\ UNCHANGED <<row, elsewhere, step, past>>

\* Killed from outside, or the status file cannot be written: no exit record.
Die(w) ==
    /\ "die" \in Faults
    /\ Live(w)
    /\ worker' = [worker EXCEPT ![w] = "lost"]
    /\ UNCHANGED <<row, file, elsewhere, step, past>>

Work(w) == Begin(w) \/ Finish(w) \/ Die(w)

(****************************************************************************)
(* Reconciling a running row                                                *)
(****************************************************************************)
\* Mutant: whatever the file says is about the current launch.
token_any == file # NoFile

token_ok == file.token = launch

\* Mutant: a worker is known by its descriptor only.
resolve_native_only == native

\* The row's pid, or the one in the file if that is the current launch's.
resolve_local_pid == IF native = None /\ token_ok THEN file.token ELSE native

Alive == is_process_alive(resolve_local_pid)

Reconciling ==
    /\ step = "idle"
    /\ status = "running"
    /\ UNCHANGED <<file, elsewhere, step, past>>

\* Canceled is a worker whose exit code or log tells of a signal.
Finalize ==
    /\ Reconciling
    /\ token_ok /\ file.state # "running"
    /\ status' \in {"canceled", IF file.state = "ok" THEN "success" ELSE "failed"}
    /\ clear_launch_fields
    /\ UNCHANGED <<attempts, launch, worker>>

Adopt ==
    /\ Reconciling
    /\ token_ok /\ file.state = "running" /\ Alive
    /\ native' = resolve_local_pid
    /\ UNCHANGED <<status, attempts, launch, fresh, worker>>

\* Alive, no record of its own yet, and within the grace: the row is kept.
StillStarting == Alive /\ ~ token_ok /\ fresh

\* Mutant: a row without a live worker is kept as well.
Lost_waits ==
    /\ Reconciling
    /\ Alive /\ ~ token_ok /\ ~ fresh
    /\ requeue_or_fail

\* Dead without an exit record, or another launch's record past the grace.
Lost ==
    /\ Reconciling
    /\ ~ (token_ok /\ (file.state # "running" \/ Alive))
    /\ ~ StillStarting
    /\ requeue_or_fail

Reconcile == Finalize \/ Adopt \/ Lost

\* Slow is a launch whose worker has not begun when its grace is over.
GraceElapses ==
    /\ status = "running" /\ fresh
    /\ fresh' = FALSE
    /\ IF worker[launch] \in {"none", "starting"}
         THEN "slow" \in Faults /\ lapses' = lapses \cup {"slow"}
         ELSE UNCHANGED lapses
    /\ UNCHANGED <<status, attempts, launch, native, file, worker, elsewhere, step, crashes, commands>>

(****************************************************************************)
(* Commands, applied at the start of a tick                                 *)
(****************************************************************************)
\* Mutant: the row is rewritten and its worker forgotten.
Command_forgets(kind) ==
    /\ kind \in Commands
    /\ step = "idle"
    /\ commands < MaxCommands
    /\ commands' = commands + 1
    /\ UNCHANGED <<worker, launch, file, elsewhere, step, crashes, lapses>>

Command(kind) ==
    /\ kind \in Commands
    /\ step = "idle"
    /\ commands < MaxCommands
    /\ commands' = commands + 1
    /\ IF status = "running" THEN terminate_process_tree(native) ELSE UNCHANGED worker
    /\ UNCHANGED <<launch, file, elsewhere, step, crashes, lapses>>

ApplyCancel ==
    /\ Command("cancel")
    /\ status \in {"ready", "running"}
    /\ status' = "canceled"
    /\ clear_launch_fields
    /\ UNCHANGED attempts

\* A targeted retry, the stage's dependencies being satisfied.
ApplyRetry ==
    /\ Command("retry")
    /\ status # "ready"
    /\ status' = "ready"
    /\ attempts' = 0
    /\ clear_launch_fields

Next ==
    \/ Launching
    \/ Restart
    \/ \E w \in Launches : Work(w)
    \/ Reconcile
    \/ GraceElapses
    \/ ApplyCancel
    \/ ApplyRetry

Spec == Init /\ [][Next]_vars

\* The supervisor loops and is restarted, time passes, workers end.
FairSpec ==
    /\ Spec
    /\ WF_vars(Launching)
    /\ WF_vars(Reconcile)
    /\ WF_vars(GraceElapses)
    /\ \A w \in Launches : WF_vars(Begin(w)) /\ WF_vars(Finish(w))

-----------------------------------------------------------------------------
(****************************************************************************)
(* Between launches a worker that is alive is the one the row names, and    *)
(* there is no other, through deaths, failed launches, cancels and retries; *)
(* a crash inside a launch, a supervisor that moves to another host, or a   *)
(* worker that begins after its grace can leave one behind.                 *)
(****************************************************************************)
LiveIsNamed ==
    lapses = {} /\ step = "idle" => \A w \in Launches : Live(w) => status = "running" /\ native = w

(****************************************************************************)
(* A row that succeeded did so by the worker of its current launch, also    *)
(* when a worker left behind goes on writing the status file they share.    *)
(****************************************************************************)
SuccessIsEarned == status = "success" => worker[launch] = "ok"

(****************************************************************************)
(* A worker whose record stands in the status file is not given up and not  *)
(* stopped by a reconcile, whether the launch got to its descriptor or not; *)
(* only a supervisor on another host does not see it.                       *)
(****************************************************************************)
RecordedIsKept ==
    [][status = "running" /\ worker[launch] = "working" /\ file.token = launch /\ "move" \notin lapses
       /\ commands' = commands
       => status' = "running" /\ worker'[launch] # "killed"]_vars

\* A running row does not run for ever, whatever lapses: a worker without a
\* record is found dead, or given up when its grace is over.
RunningEnds == status = "running" ~> status # "running"
=============================================================================
