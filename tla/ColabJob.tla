------------------------------ MODULE ColabJob -------------------------------
(****************************************************************************)
(* One training job on a rented Colab runtime: submit with its two          *)
(* watchdogs, the supervisor that syncs artifacts and ends the billing, the *)
(* runner on the runtime with its emergency release, and the operator's     *)
(* stop, stop --force and recover (scripts/colab_job.py, colab_submit.py,   *)
(* gpu_job_runner.py, colab_emergency_upload.py).                           *)
(*                                                                          *)
(* All of them share one file, controller.json, which each loads whole and  *)
(* writes back whole.  Where seconds or minutes of remote calls lie between *)
(* the two, the loaded copy is part of the process's state and the write    *)
(* is a later step; where nothing lies between, it is one step.             *)
(****************************************************************************)
EXTENDS Naturals, FiniteSets

CONSTANTS
    FailLimit,       \* SUPERVISOR_REMOTE_FAIL_LIMIT
    Faults,          \* the kinds of fault that may happen, see Fault
    Commands,        \* stop, force, recover
    Beginnings,      \* fresh, resume
    MaxFaults,       \* bound on faults
    MaxCommands      \* bound on commands

ASSUME ColabJobAssumption ==
    /\ FailLimit \in Nat \ {0}
    /\ {MaxFaults, MaxCommands} \subseteq Nat

Cleaners == {"submit", "crash", "deadline"}

VARIABLES
    vm,           \* the runtime: none, assigned (and billed), released
    registered,   \* the local registry of colab-cli names its session
    proxy,        \* its proxy works
    runner,       \* gpu_job_runner on it
    params,       \* the training leaves a parameter artifact
    token,        \* the Drive token was shipped
    stopFile,     \* STOP lies in the job directory
    file,         \* controller.json: state, the errors it tells of: sync, stop,
                  \* and whether it has the endpoint of the runtime
    cache,        \* remote_status.json
    saved,        \* what of the artifacts is on the login host: none, part, all
    drive,        \* the emergency archive is on Drive
    pc,           \* where submit and its watchdogs are
    lock,         \* who holds .submit_cleanup.lock
    sup,          \* the supervisor
    op,           \* the operator's command
    resumed,      \* this submit has --resume
    faults,       \* faults so far
    commands,     \* commands so far
    past          \* history: the faults there have been and what they cut short

runtime == <<vm, registered, proxy, runner, params, token, stopFile>>
disk    == <<cache, saved, drive>>
bounds  == <<resumed, faults, commands>>
vars    == <<runtime, file, disk, pc, lock, sup, op, bounds, past>>

States == {"none", "provisioning", "running", "orphaned", "failed", "ended",
           "force_stopped", "submit_rejected"}
Content == [state : States, told : SUBSET {"sync", "stop"}, endpoint : BOOLEAN]
Blank == [state |-> "none", told |-> {}, endpoint |-> FALSE]
Unstopped == [state |-> "failed", told |-> {"stop"}, endpoint |-> TRUE]
Unstarted == [pc |-> "none", mem |-> Blank, seen |-> "none", fails |-> 0, asked |-> FALSE]

TypeOK ==
    /\ vm \in {"none", "assigned", "released"}
    /\ runner \in {"none", "running", "hung", "ended"}
    /\ {registered, proxy, params, token, stopFile, drive, resumed} \subseteq BOOLEAN
    /\ file \in Content
    /\ cache \in {"none", "running", "hung", "ended"}
    /\ saved \in {"none", "part", "all"}
    /\ pc \in [Cleaners -> {"off", "enter", "allocate", "new", "child", "endpoint", "launch", "prove",
                            "running", "start", "done", "watch", "mark", "stop", "gone", "dead"}]
    /\ lock \in Cleaners \cup {"free"}
    /\ sup \in [pc : {"none", "load", "fetch", "act", "sync", "final", "close", "abort", "down"},
                mem : Content,
                seen : {"none", "running", "hung", "ended"},
                fails : 0 .. FailLimit, asked : BOOLEAN]
    /\ op \in [pc : {"idle", "stop", "force", "recover"}, mem : Content]
    /\ faults \in 0 .. MaxFaults
    /\ commands \in 0 .. MaxCommands

\* A resumed job has a runtime its failed submit could not stop, and whatever
\* status was last fetched from it.
Init ==
    /\ resumed \in {b = "resume" : b \in Beginnings}
    /\ vm = IF resumed THEN "assigned" ELSE "none"
    /\ registered = resumed
    /\ runner \in IF resumed THEN {"none", "ended"} ELSE {"none"}
    /\ cache \in IF runner = "ended" THEN {"none", "ended"} ELSE {"none"}
    /\ file = IF resumed THEN Unstopped ELSE Blank
    /\ proxy = TRUE /\ params = FALSE /\ token = FALSE /\ stopFile = FALSE
    /\ saved = "none" /\ drive = FALSE
    /\ pc = [c \in Cleaners |-> IF c = "submit" THEN "enter" ELSE "off"]
    /\ lock = "free"
    /\ sup = Unstarted
    /\ op = [pc |-> "idle", mem |-> Blank]
    /\ faults = 0 /\ commands = 0 /\ past = {}

(****************************************************************************)
(* What several actions use                                                 *)
(****************************************************************************)
Fault(kind) ==
    /\ kind \in Faults
    /\ faults < MaxFaults
    /\ faults' = faults + 1

NoFault == UNCHANGED <<faults, past>>

Goto(c, l) == pc' = [pc EXCEPT ![c] = l]

\* colab-cli reaches a runtime by the name of its session.
Reachable == vm = "assigned" /\ registered /\ proxy

\* The process submit_pid names is gone.
SubmitOver == pc["submit"] \in {"done", "gone", "dead", "child"}

\* An error message is set or taken out of the file.
Tell(content, kind, ok) ==
    [content EXCEPT !.told = IF ok THEN @ \ {kind} ELSE @ \cup {kind}]

\* The server lists the runtime under the endpoint this copy of the file has.
Listed(content) == vm = "assigned" /\ content.endpoint

\* colab stop needs the session's name in the registry, colab unassign the
\* endpoint and the authority.  The stop counts as verified when neither the
\* endpoint nor the name is listed any more: for a runtime known by neither
\* that holds from the start, and it stays assigned.
stop_assignment_verified(ok, endpoint, force_release) ==
    LET known == registered \/ endpoint
        able  == registered \/ (endpoint /\ force_release)
    IN  \/ /\ ok
           /\ vm = "assigned" => able \/ ~known
           /\ vm' = IF vm = "assigned" /\ known THEN "released" ELSE vm
           /\ past' = past \cup (IF vm = "assigned" /\ ~known THEN {"unregistered"} ELSE {})
           /\ UNCHANGED faults
        \/ /\ ~ok
           /\ \/ Fault("unstopped")
              \/ vm = "assigned" /\ known /\ ~able /\ UNCHANGED faults
           /\ UNCHANGED <<vm, past>>

(****************************************************************************)
(* submit                                                                   *)
(****************************************************************************)
Enter ==
    /\ pc["submit"] = "enter"
    /\ file' = [Blank EXCEPT !.state = "provisioning"]
    /\ Goto("submit", "allocate")
    /\ NoFault
    /\ UNCHANGED <<runtime, disk, lock, sup, op, resumed, commands>>

\* The inventory cannot be read, or the session to resume is not in it.
Refuse ==
    /\ pc["submit"] = "allocate"
    /\ \/ Fault("unknown")
       \/ resumed /\ ~(vm = "assigned" /\ registered) /\ UNCHANGED faults
    /\ file' = IF resumed THEN Unstopped
               ELSE [file EXCEPT !.state = "submit_rejected"]
    /\ Goto("submit", "gone")
    /\ UNCHANGED <<runtime, disk, lock, sup, op, resumed, commands, past>>

\* The crash watchdog is started before the runtime is asked for.
Allocate ==
    /\ pc["submit"] = "allocate"
    /\ resumed => vm = "assigned" /\ registered
    /\ pc' = [pc EXCEPT !["submit"] = IF resumed THEN "endpoint" ELSE "new", !["crash"] = "watch"]
    /\ NoFault
    /\ UNCHANGED <<runtime, file, disk, lock, sup, op, resumed, commands>>

\* The server may assign the runtime and the registry not have it.
New ==
    /\ pc["submit"] = "new"
    /\ vm' = "assigned"
    /\ \/ registered' = TRUE /\ UNCHANGED faults
       \/ registered' = FALSE /\ Fault("unregistered")
    /\ Goto("submit", "endpoint")
    /\ UNCHANGED <<proxy, runner, params, token, stopFile, file, disk, lock, sup, op, resumed, commands, past>>

SaveEndpoint ==
    /\ pc["submit"] = "endpoint"
    /\ registered
    /\ file' = [file EXCEPT !.endpoint = TRUE]
    /\ pc' = [pc EXCEPT !["submit"] = "launch", !["deadline"] = "watch"]
    /\ NoFault
    /\ UNCHANGED <<runtime, disk, lock, sup, op, resumed, commands>>

\* Readiness, uploads, the provision worker and its phases; a resume first
\* kills the old runner and clears its status and STOP.
Launch ==
    /\ pc["submit"] = "launch"
    /\ Reachable
    /\ stopFile => resumed
    /\ runner' = "running"
    /\ stopFile' = FALSE
    /\ Goto("submit", "prove")
    /\ NoFault
    /\ UNCHANGED <<vm, registered, proxy, params, token, file, disk, lock, sup, op, resumed, commands>>

validate_runner_proof == Reachable /\ runner = "running"

Prove ==
    /\ pc["submit"] = "prove"
    /\ validate_runner_proof
    /\ Goto("submit", "running")
    /\ NoFault
    /\ UNCHANGED <<runtime, file, disk, lock, sup, op, resumed, commands>>

SetRunning ==
    /\ pc["submit"] = "running"
    /\ file' = [file EXCEPT !.state = "running"]
    /\ Goto("submit", "start")
    /\ NoFault
    /\ UNCHANGED <<runtime, disk, lock, sup, op, resumed, commands>>

_start_supervisor == sup' = IF sup.pc = "none" THEN [Unstarted EXCEPT !.pc = "load"] ELSE sup

StartSupervisor ==
    /\ pc["submit"] = "start"
    /\ _start_supervisor
    /\ Goto("submit", "done")
    /\ NoFault
    /\ UNCHANGED <<runtime, file, disk, lock, op, resumed, commands>>

\* A step of the submit raises, by chance or because the runtime, its runner
\* or a STOP makes it, or no endpoint is found; colab new may fail after the
\* server assigned, with the registry written or not.
Raise ==
    /\ \/ /\ pc["submit"] \in {"new", "endpoint", "launch", "prove"}
          /\ Fault("raise")
          /\ \/ UNCHANGED <<vm, registered>>
             \/ pc["submit"] = "new" /\ vm' = "assigned" /\ registered' \in BOOLEAN
       \/ /\ \/ pc["submit"] = "endpoint" /\ ~registered
             \/ pc["submit"] = "launch" /\ ~(Reachable /\ (stopFile => resumed))
             \/ pc["submit"] = "prove" /\ ~validate_runner_proof
          /\ UNCHANGED <<vm, registered, faults>>
    /\ past' = past \cup {"raise"}
    /\ Goto("submit", "mark")
    /\ UNCHANGED <<proxy, runner, params, token, stopFile, file, disk, lock, sup, op, resumed, commands>>

\* Killed, or interrupted before the runtime counts as allocated.  Some
\* places leave a runtime nobody watches; colab new outlives a killed parent.
KillSubmit ==
    /\ ~SubmitOver
    /\ Fault("kill")
    /\ Goto("submit", IF pc["submit"] = "new" THEN "child" ELSE "dead")
    /\ lock' = IF lock = "submit" THEN "free" ELSE lock
    /\ past' = past \cup {"kill"}
                   \cup (IF pc["submit"] = "start" THEN {"handoff"} ELSE {})
                   \cup (IF pc["submit"] = "stop" THEN {"cutcleanup"} ELSE {})
                   \cup (IF pc["submit"] = "allocate" /\ resumed THEN {"unwatched"} ELSE {})
    /\ UNCHANGED <<runtime, file, disk, sup, op, resumed, commands>>

\* The crash watchdog has yet to stop whatever the file's session names.
CrashWatched ==
    \/ pc["crash"] \in {"mark", "stop"}
    \/ pc["crash"] = "watch" /\ file.state = "provisioning"

\* colab new ends without its parent: with a runtime, with one the registry
\* does not have, or with none.
NewByChild ==
    /\ pc["submit"] = "child"
    /\ Goto("submit", "dead")
    /\ \/ UNCHANGED <<vm, registered, past>>
       \/ /\ vm' = "assigned"
          /\ registered' \in BOOLEAN
          /\ past' = past \cup (IF CrashWatched THEN {} ELSE {"unwatched"})
    /\ UNCHANGED <<proxy, runner, params, token, stopFile, file, disk, lock, sup, op, bounds>>

Submit ==
    \/ Enter \/ Refuse \/ Allocate \/ New \/ SaveEndpoint \/ Launch
    \/ Prove \/ SetRunning \/ StartSupervisor \/ Raise

(****************************************************************************)
(* Watchdogs and cleanup                                                    *)
(****************************************************************************)
\* Mutant: acts only on a recorded endpoint.
watchdog_needs_endpoint ==
    /\ pc["crash"] = "watch"
    /\ \/ file.state = "provisioning" /\ SubmitOver /\ file.endpoint /\ Goto("crash", "mark")
       \/ ~(file.state = "provisioning" /\ file.endpoint) /\ SubmitOver /\ Goto("crash", "gone")
    /\ NoFault
    /\ UNCHANGED <<runtime, file, disk, lock, sup, op, resumed, commands>>

submit_crash_watchdog ==
    /\ pc["crash"] = "watch"
    /\ \/ file.state # "provisioning" /\ Goto("crash", "gone") /\ NoFault
       \/ file.state = "provisioning" /\ SubmitOver /\ Goto("crash", "mark") /\ NoFault
       \/ /\ file.state = "provisioning" /\ ~SubmitOver
          /\ Fault("slow") /\ past' = past \cup {"slow"}
          /\ Goto("crash", "gone")
    /\ UNCHANGED <<runtime, file, disk, lock, sup, op, resumed, commands>>

\* Its deadline passes in the end; while the submit is at work that is a fault.
provision_watchdog ==
    /\ pc["deadline"] = "watch"
    /\ \/ file.state # "provisioning" /\ Goto("deadline", "gone") /\ NoFault
       \/ /\ file.state = "provisioning"
          /\ \/ SubmitOver /\ NoFault
             \/ ~SubmitOver /\ Fault("slow") /\ past' = past \cup {"slow"}
          /\ Goto("deadline", "mark")
    /\ UNCHANGED <<runtime, file, disk, lock, sup, op, resumed, commands>>

\* The state is not looked at again once the lock is taken.
Mark(c) ==
    /\ pc[c] = "mark"
    /\ \/ /\ lock = "free"
          /\ lock' = c
          /\ file' = [file EXCEPT !.state = "failed"]
          /\ Goto(c, "stop")
       \/ /\ lock # "free"
          /\ Goto(c, "gone")
          /\ UNCHANGED <<lock, file>>
    /\ NoFault
    /\ UNCHANGED <<runtime, disk, sup, op, resumed, commands>>

\* The diagnosis may write the failed state once more before the stop.  A
\* submit that resumed has the endpoint of the controller before it.
StopFailed(c) ==
    /\ pc[c] = "stop"
    /\ \E ok, again \in BOOLEAN :
        /\ stop_assignment_verified(ok, file.endpoint \/ (c = "submit" /\ resumed), FALSE)
        /\ file' = Tell(IF again THEN [file EXCEPT !.state = "failed"] ELSE file, "stop", ok)
    /\ lock' = "free"
    /\ Goto(c, "gone")
    /\ UNCHANGED <<registered, proxy, runner, params, token, stopFile, disk, sup, op, resumed, commands>>

_submit_cleanup(c) == Mark(c) \/ StopFailed(c)

(****************************************************************************)
(* The supervisor                                                           *)
(****************************************************************************)
\* The top of its loop.
SupLoad ==
    /\ sup.pc = "load"
    /\ sup' = [sup EXCEPT !.pc = "fetch", !.mem = file]
    /\ NoFault
    /\ UNCHANGED <<runtime, file, disk, pc, lock, op, resumed, commands>>

\* Without an answer the cached status stands, from whichever run it is.
fetch_remote_status(status, fresh) ==
    IF Reachable /\ runner # "none" THEN fresh /\ status = runner
    ELSE ~fresh /\ status = cache

SupFetch ==
    /\ sup.pc = "fetch"
    /\ \E status \in {cache, runner}, fresh \in BOOLEAN :
        /\ fetch_remote_status(status, fresh)
        /\ cache' = status
        /\ sup' = [sup EXCEPT !.pc = "act", !.seen = status,
                              !.fails = IF fresh THEN 0 ELSE IF @ < FailLimit THEN @ + 1 ELSE @]
        /\ file' = sup.mem
        /\ past' = past \cup (IF status = "ended" /\ runner # "ended" THEN {"cached"} ELSE {})
    /\ UNCHANGED <<runtime, saved, drive, pc, lock, op, bounds>>

MustAsk == sup.fails = 0 /\ sup.seen = "hung" /\ ~sup.asked

\* remote train.log stale: STOP is touched once per supervisor process.
SupAsk ==
    /\ sup.pc = "act"
    /\ MustAsk
    /\ stopFile' = (stopFile \/ Reachable)
    /\ sup' = [sup EXCEPT !.asked = TRUE]
    /\ NoFault
    /\ UNCHANGED <<vm, registered, proxy, runner, params, token, file, disk, pc, lock, op, resumed, commands>>

\* Once a minute the artifacts are synced; sync_job writes the copy of the
\* controller it loaded before the downloads.
SupSync ==
    /\ sup.pc = "act" /\ ~MustAsk
    /\ sup.seen \in {"running", "hung"} /\ sup.fails < FailLimit
    /\ sup' = [sup EXCEPT !.pc = "sync", !.mem = file]
    /\ NoFault
    /\ UNCHANGED <<runtime, file, disk, pc, lock, op, resumed, commands>>

\* A training that runs may have a checkpoint by now.
Downloads ==
    IF ~Reachable \/ saved # "none" \/ runner = "none" THEN {saved}
    ELSE IF runner = "ended" THEN {IF params THEN "part" ELSE "none"}
    ELSE {"none", "part"}

Synced(copy) == Tell(copy, "sync", Reachable \/ saved # "none")

SupSynced ==
    /\ sup.pc = "sync"
    /\ file' = Synced(sup.mem)
    /\ saved' \in Downloads
    /\ sup' = [sup EXCEPT !.pc = "load", !.mem = Blank]
    /\ UNCHANGED <<runtime, cache, drive, pc, lock, op, bounds, past>>

\* Nothing to do this time round; or the limit of failed fetches is reached
\* and the inventory does not show the runtime either.
SupAgain ==
    /\ sup.pc = "act" /\ ~MustAsk /\ sup.seen # "ended"
    /\ sup.fails >= FailLimit => ~Listed(sup.mem)
    /\ sup' = [sup EXCEPT !.pc = "load", !.mem = Blank]
    /\ NoFault
    /\ UNCHANGED <<runtime, file, disk, pc, lock, op, resumed, commands>>

\* The training is over, or stalled for longer than the grace after STOP.  The
\* stall is measured by the age of the log: a new supervisor may find it past
\* the grace as soon as it asks.
SupFinalSync ==
    /\ sup.pc = "act" /\ ~MustAsk
    /\ sup.seen = "ended" \/ (sup.seen = "hung" /\ sup.fails = 0)
    /\ sup' = [sup EXCEPT !.pc = "final", !.mem = file]
    /\ NoFault
    /\ UNCHANGED <<runtime, file, disk, pc, lock, op, resumed, commands>>

\* Mutant: the sync counts whatever came of it.
sync_final_unchecked(ok) ==
    /\ ok
    /\ \/ saved' \in Downloads /\ UNCHANGED faults
       \/ Fault("download") /\ UNCHANGED saved

\* Files that cannot be downloaded are left out of the result: the sync counts
\* as verified when any parameter artifact is on the login host, old or new.
sync_final(ok) ==
    /\ \/ saved' \in (IF Reachable /\ params /\ runner = "ended" THEN {"all"} ELSE Downloads)
          /\ UNCHANGED faults
       \/ Fault("download") /\ UNCHANGED saved
    /\ ok = (saved' # "none")

SupFinal ==
    /\ sup.pc = "final"
    /\ \E ok \in BOOLEAN :
        /\ sync_final(ok)
        /\ IF sup.seen = "ended"
           THEN /\ file' = Tell(sup.mem, "sync", ok)
                /\ sup' = [sup EXCEPT !.pc = IF ok THEN "close" ELSE "load",
                                      !.mem = IF ok THEN file' ELSE Blank]
           ELSE /\ file' = [Tell(sup.mem, "sync", ok) EXCEPT !.state = "failed"]
                /\ sup' = [sup EXCEPT !.pc = "abort", !.mem = Blank]
    /\ past' = past \cup (IF faults' # faults THEN {"download"} ELSE {})
    /\ UNCHANGED <<runtime, cache, drive, pc, lock, op, resumed, commands>>

SupClose ==
    /\ sup.pc = "close"
    /\ \E ok \in BOOLEAN :
        /\ stop_assignment_verified(ok, sup.mem.endpoint, TRUE)
        /\ file' = Tell([sup.mem EXCEPT !.state = "ended"], "stop", ok)
        /\ sup' = IF ok THEN Unstarted ELSE [sup EXCEPT !.pc = "load", !.mem = Blank]
    /\ UNCHANGED <<registered, proxy, runner, params, token, stopFile, disk, pc, lock, op, resumed, commands>>

\* Mutant: a runtime that cannot be reached is finalized like a stalled one.
SupUnreachable_finalizes ==
    /\ sup.pc = "act" /\ sup.seen # "ended"
    /\ sup.fails >= FailLimit
    /\ Listed(sup.mem)
    /\ sup' = [sup EXCEPT !.pc = "final", !.mem = file]
    /\ NoFault
    /\ UNCHANGED <<runtime, file, disk, pc, lock, op, resumed, commands>>

\* The inventory still shows the runtime: it is left alone for the operator.
SupUnreachable ==
    /\ sup.pc = "act" /\ sup.seen # "ended"
    /\ sup.fails >= FailLimit
    /\ Listed(sup.mem)
    /\ file' = [sup.mem EXCEPT !.state = "orphaned"]
    /\ sup' = [Unstarted EXCEPT !.pc = "down"]
    /\ UNCHANGED <<runtime, disk, pc, lock, op, bounds, past>>

\* finalize_abnormal_job: only a stop that worked is recorded.
SupAbort ==
    /\ sup.pc = "abort"
    /\ \E ok \in BOOLEAN :
        /\ stop_assignment_verified(ok, file.endpoint, TRUE)
        /\ file' = IF ok THEN Tell(file, "stop", TRUE) ELSE file
    /\ sup' = [Unstarted EXCEPT !.pc = "down"]
    /\ UNCHANGED <<registered, proxy, runner, params, token, stopFile, disk, pc, lock, op, resumed, commands>>

SupKilled ==
    /\ sup.pc \notin {"none", "down"}
    /\ Fault("supkill")
    /\ sup' = [Unstarted EXCEPT !.pc = "down"]
    /\ UNCHANGED <<runtime, file, disk, pc, lock, op, resumed, commands, past>>

\* systemd: Restart=on-failure.
SupRestart ==
    /\ sup.pc = "down"
    /\ sup' = [Unstarted EXCEPT !.pc = "load"]
    /\ NoFault
    /\ UNCHANGED <<runtime, file, disk, pc, lock, op, resumed, commands>>

supervise ==
    \/ SupLoad \/ SupFetch \/ SupAsk \/ SupSync \/ SupSynced \/ SupAgain \/ SupFinalSync
    \/ SupFinal \/ SupClose \/ SupUnreachable \/ SupAbort \/ SupRestart

(****************************************************************************)
(* The runtime                                                              *)
(****************************************************************************)
\* Whether it leaves a parameter artifact, and whether the Drive token was
\* shipped, is only chosen here.
RunnerEnds ==
    /\ vm = "assigned"
    /\ runner = "running" \/ (runner = "hung" /\ stopFile)
    /\ runner' = "ended"
    /\ params' \in {TRUE, saved # "none"}
    /\ token' \in BOOLEAN
    /\ NoFault
    /\ UNCHANGED <<vm, registered, proxy, stopFile, file, disk, pc, lock, sup, op, resumed, commands>>

RunnerHangs ==
    /\ vm = "assigned" /\ runner = "running"
    /\ Fault("hang") /\ past' = past \cup {"hang"}
    /\ runner' = "hung"
    /\ UNCHANGED <<vm, registered, proxy, params, token, stopFile, file, disk, pc, lock, sup, op, resumed, commands>>

\* After a grace the runner, if it was given the token, uploads its artifacts
\* and gives the runtime back; it tries once.
emergency_upload_and_release ==
    /\ vm = "assigned" /\ runner = "ended" /\ token
    /\ token' = FALSE
    /\ \/ drive' = TRUE /\ vm' = "released" /\ UNCHANGED faults
       \/ drive' = TRUE /\ Fault("unstopped") /\ UNCHANGED vm
       \/ Fault("upload") /\ UNCHANGED <<drive, vm>>
    /\ UNCHANGED <<registered, proxy, runner, params, stopFile, file, cache, saved, pc, lock, sup, op, resumed, commands, past>>

RuntimeFails ==
    /\ vm = "assigned"
    /\ \/ proxy /\ Fault("proxy") /\ past' = past \cup {"proxy"} /\ proxy' = FALSE /\ UNCHANGED vm
       \/ Fault("lost") /\ past' = past \cup {"lost"} /\ vm' = "released" /\ UNCHANGED proxy
    /\ UNCHANGED <<registered, runner, params, token, stopFile, file, disk, pc, lock, sup, op, resumed, commands>>

ProxyReturns ==
    /\ ~proxy
    /\ proxy' = TRUE
    /\ NoFault
    /\ UNCHANGED <<vm, registered, runner, params, token, stopFile, file, disk, pc, lock, sup, op, resumed, commands>>

\* An older colab-cli takes the session out of the registry, never between its
\* entry and the saving of the endpoint (bound).
Prune ==
    /\ vm = "assigned" /\ registered /\ file.endpoint
    /\ Fault("pruned") /\ past' = past \cup {"pruned"}
    /\ registered' = FALSE
    /\ UNCHANGED <<vm, proxy, runner, params, token, stopFile, file, disk, pc, lock, sup, op, resumed, commands>>

(****************************************************************************)
(* The operator                                                             *)
(****************************************************************************)
Command(kind) ==
    /\ kind \in Commands
    /\ commands < MaxCommands
    /\ op.pc = "idle"
    /\ SubmitOver          \* bound: the operator waits for the submit to return
    /\ commands' = commands + 1
    /\ op' = [pc |-> kind, mem |-> file]
    /\ UNCHANGED <<faults, resumed>>

Idle == op' = [pc |-> "idle", mem |-> Blank]

\* stop: syncs first, then asks the runner to stop.
Stop ==
    /\ Command("stop")
    /\ UNCHANGED <<runtime, file, disk, pc, lock, sup, past>>

Stopped ==
    /\ op.pc = "stop"
    /\ file' = IF ~Reachable /\ Listed(op.mem) THEN [Synced(op.mem) EXCEPT !.state = "orphaned"]
               ELSE Synced(op.mem)
    /\ saved' \in Downloads
    /\ stopFile' = (stopFile \/ Reachable)
    /\ Idle
    /\ UNCHANGED <<vm, registered, proxy, runner, params, token, cache, drive, pc, lock, sup, bounds, past>>

\* stop --force: kills the supervisor, whose unit restarts it, and releases.
StopForce ==
    /\ Command("force")
    /\ sup' = IF sup.pc = "none" THEN sup ELSE [Unstarted EXCEPT !.pc = "down"]
    /\ past' = past \cup {"force"}
    /\ UNCHANGED <<runtime, file, disk, pc, lock>>

Forced ==
    /\ op.pc = "force"
    /\ \E ok \in BOOLEAN :
        /\ stop_assignment_verified(ok, op.mem.endpoint, TRUE)
        /\ file' = Tell([op.mem EXCEPT !.state = "force_stopped"], "stop", ok)
    /\ Idle
    /\ UNCHANGED <<registered, proxy, runner, params, token, stopFile, disk, pc, lock, sup, resumed, commands>>

Recover ==
    /\ Command("recover")
    /\ UNCHANGED <<runtime, file, disk, pc, lock, sup, past>>

Recovered ==
    /\ op.pc = "recover"
    /\ \/ /\ validate_runner_proof
          /\ file' = IF op.mem.state = "provisioning" THEN [op.mem EXCEPT !.state = "running"] ELSE file
          /\ _start_supervisor
       \/ ~validate_runner_proof /\ UNCHANGED <<file, sup>>
    /\ Idle
    /\ UNCHANGED <<runtime, disk, pc, lock, bounds, past>>

Finish == Stopped \/ Forced \/ Recovered

Next ==
    \/ Submit \/ KillSubmit \/ NewByChild
    \/ submit_crash_watchdog \/ provision_watchdog
    \/ \E c \in Cleaners : _submit_cleanup(c)
    \/ supervise \/ SupKilled
    \/ RunnerEnds \/ RunnerHangs \/ emergency_upload_and_release
    \/ RuntimeFails \/ ProxyReturns \/ Prune
    \/ Stop \/ StopForce \/ Recover \/ Finish

Spec == Init /\ [][Next]_vars

\* Processes that live go on, killed supervisors are restarted, and a
\* training that runs ends; the log of a stalled one is older than the grace
\* in the end, whatever happens in between.
FairSpec ==
    /\ Spec
    /\ WF_vars(Submit)
    /\ WF_vars(submit_crash_watchdog) /\ WF_vars(provision_watchdog)
    /\ \A c \in Cleaners : WF_vars(_submit_cleanup(c))
    /\ WF_vars(supervise) /\ SF_vars(SupFinalSync)
    /\ WF_vars(RunnerEnds /\ runner = "running")
    /\ WF_vars(emergency_upload_and_release)
    /\ WF_vars(Finish)

(****************************************************************************)
(* Properties                                                               *)
(****************************************************************************)
\* A runtime whose training runs is not taken away: a runtime that merely
\* cannot be reached is no reason (supervise), only a submit that failed or
\* overran, the operator's force, Colab itself, or a status cached from the run
\* before a resume.
HealthyIsKept ==
    vm = "released" /\ runner = "running" =>
        past \cap {"raise", "kill", "slow", "force", "lost", "cached"} # {}

\* When a runtime goes whose training had ended, its artifacts are on the
\* login host or on Drive.  Two ways round are left open by sync_artifacts_local:
\* an older checkpoint makes a sync without its downloads count as verified.
ArtifactsBeforeRelease ==
    vm = "released" /\ runner = "ended" /\ params =>
        \/ saved = "all" \/ drive
        \/ saved = "part" /\ past \cap {"download", "proxy", "pruned"} # {}
        \/ past \cap {"raise", "kill", "slow", "force", "lost", "hang"} # {}

\* Billing ends: an assigned runtime is released in the end, or the controller
\* file keeps telling the operator why it is not.  Four blind spots are named:
\* a submit killed before it starts the supervisor, or in its own cleanup; a
\* runtime no watchdog waits for; and a stop that counted as verified since
\* neither registry nor file knew the runtime.
RuntimeIsReleased ==
    vm = "assigned" ~>
        \/ vm = "released"
        \/ file.told # {} \/ file.state = "orphaned"
        \/ past \cap {"handoff", "cutcleanup", "unwatched", "unregistered"} # {}
=============================================================================
