----------------------------- MODULE StageLaunch ------------------------------
(****************************************************************************)
(* How one condor stage gets its cluster and is found again: the claim,     *)
(* submit, record and describe steps of a launch, the reconcile of a        *)
(* running row, cancel, kill and retry (scheduler.py, launcher.py,          *)
(* condor.py).                                                              *)
(*                                                                          *)
(* A launch leaves three traces one after the other: the cluster in the     *)
(* condor queue, a line of the append-only clusters file, and the           *)
(* descriptor (native_id) of the row.  The supervisor may be killed between *)
(* any two of them, and an exception leaves the tick at the same places.    *)
(* StageRuns sees the result only: a worker a row names, or an orphan.      *)
(****************************************************************************)
EXTENDS Naturals, FiniteSets, Sequences, SequencesExt

CONSTANTS
    MaxAttempts,     \* max_stage_attempts
    MaxEvictions,    \* max_eviction_stage_attempts
    MissLimit,       \* CONDOR_POLL_MISS_FAIL_THRESHOLD
    Faults,          \* submit, unparsed, interrupt, blind, evict, rm
    Commands,        \* cancel, kill, retry
    MaxLaunches,     \* bound on claims
    MaxInterrupts,   \* bound on interruptions
    MaxCommands      \* bound on commands

ASSUME StageLaunchAssumption ==
    /\ MaxAttempts \in Nat \ {0}
    /\ MaxEvictions \in Nat
    /\ MissLimit \in Nat \ {0}
    /\ MaxLaunches \in Nat /\ MaxInterrupts \in Nat /\ MaxCommands \in Nat

\* Clusters are numbered in the order of their submission.
Clusters == 1 .. MaxLaunches
None == 0

VARIABLES
    status,       \* stage_runs.status of the row
    attempts,     \* stage_runs.attempts
    launch,       \* the launch_token, counted
    native,       \* stage_runs.native_id
    fresh,        \* the claim is younger than _LOCAL_START_GRACE_S
    young,        \* the submit epoch lies within the poll grace
    misses,       \* the poll_misses file
    recorded,     \* the clusters file
    cluster,      \* what condor knows of each cluster
    launchOf,     \* the launch each cluster was submitted for
    step,         \* how far the supervisor is in a launch
    queued,       \* a cancel command is queued
    sweeping,     \* a kill has queued its cancel and not yet swept
    interrupts,   \* interruptions so far
    commands,     \* commands so far
    lapses        \* history: the lapses there have been: interrupt, unparsed, blind, rm

row  == <<status, attempts, launch, native, fresh, young>>
jobs == <<cluster, launchOf>>
ops  == <<queued, sweeping, commands>>
past == <<interrupts, lapses>>
vars == <<row, misses, recorded, jobs, step, ops, past>>

Live(c) == cluster[c] = "live"
Submitted == {c \in Clusters : cluster[c] # "none"}
Newest == Cardinality(Submitted)

TypeOK ==
    /\ status \in {"ready", "running", "success", "failed", "canceled"}
    /\ attempts \in Nat
    /\ launch \in 0 .. MaxLaunches
    /\ native \in Clusters \cup {None}
    /\ fresh \in BOOLEAN
    /\ young \in BOOLEAN
    /\ misses \in 0 .. MissLimit
    /\ recorded \in Seq(Clusters)
    /\ cluster \in [Clusters -> {"none", "live", "ok", "err", "removed"}]
    /\ launchOf \in [Clusters -> 0 .. MaxLaunches]
    /\ step \in {"idle", "claimed", "submitted", "recorded"}
    /\ queued \in BOOLEAN
    /\ sweeping \in BOOLEAN
    /\ interrupts \in 0 .. MaxInterrupts
    /\ commands \in 0 .. MaxCommands
    /\ lapses \subseteq {"interrupt", "unparsed", "blind", "rm"}

Init ==
    /\ status = "ready"
    /\ attempts = 0
    /\ launch = 0
    /\ native = None
    /\ fresh = FALSE
    /\ young = FALSE
    /\ misses = 0
    /\ recorded = <<>>
    /\ cluster = [c \in Clusters |-> "none"]
    /\ launchOf = [c \in Clusters |-> 0]
    /\ step = "idle"
    /\ queued = FALSE
    /\ sweeping = FALSE
    /\ interrupts = 0
    /\ commands = 0
    /\ lapses = {}

(****************************************************************************)
(* What several actions write                                               *)
(****************************************************************************)
\* condor_rm: a live cluster becomes a removed one, any other stays as it is.
\* Nobody looks at what remove_cluster returns when condor_rm fails.
remove_clusters(R) ==
    \/ /\ cluster' = [c \in Clusters |-> IF c \in R /\ Live(c) THEN "removed" ELSE cluster[c]]
       /\ UNCHANGED lapses
    \/ /\ "rm" \in Faults
       /\ \E c \in R : Live(c)
       /\ lapses' = lapses \cup {"rm"}
       /\ UNCHANGED cluster

\* Mutant: the removal is left to the next sweep.
remove_cluster_later(c) == UNCHANGED <<cluster, lapses>>

remove_cluster(c) == remove_clusters({c})

clear_launch_fields ==
    /\ native' = None
    /\ fresh' = FALSE
    /\ young' = FALSE

requeue_or_fail(budget) ==
    /\ status' = IF attempts >= budget THEN "failed" ELSE "ready"
    /\ clear_launch_fields
    /\ UNCHANGED <<attempts, launch>>

\* Mutant: condor_rm of a worker that exits cleanly is taken for a success.
exit_statuses_trusting(outcome) ==
    IF outcome = "err" THEN {"failed", "canceled"} ELSE {"success"}

\* A removed cluster is never a success, whatever exit code condor recorded; a
\* worker that was told to stop says so by its exit code or in its log.
exit_statuses(outcome) ==
    CASE outcome = "ok" -> {"success", "canceled"}
      [] outcome = "err" -> {"failed", "canceled"}
      [] outcome = "removed" -> {"canceled", "failed"}

finalize_stage(outcome) ==
    /\ status' \in exit_statuses(outcome)
    /\ clear_launch_fields
    /\ UNCHANGED <<attempts, launch>>

(****************************************************************************)
(* Launching                                                                *)
(****************************************************************************)
Claim ==
    /\ step = "idle"
    /\ status = "ready"
    /\ launch < MaxLaunches
    /\ status' = "running"
    /\ attempts' = attempts + 1
    /\ launch' = launch + 1
    /\ fresh' = TRUE
    /\ step' = "claimed"
    /\ UNCHANGED <<native, young, misses, recorded, jobs, ops, past>>

Submit ==
    /\ step = "claimed"
    /\ cluster' = [cluster EXCEPT ![Newest + 1] = "live"]
    /\ launchOf' = [launchOf EXCEPT ![Newest + 1] = launch]
    /\ step' = "submitted"
    /\ UNCHANGED <<row, misses, recorded, ops, past>>

\* condor_submit fails, or answers something that names no cluster although
\* one was queued.
SubmitFails ==
    /\ step = "claimed"
    /\ \/ /\ "submit" \in Faults
          /\ UNCHANGED <<jobs, lapses>>
       \/ /\ "unparsed" \in Faults
          /\ lapses' = lapses \cup {"unparsed"}
          /\ cluster' = [cluster EXCEPT ![Newest + 1] = "live"]
          /\ launchOf' = [launchOf EXCEPT ![Newest + 1] = launch]
    /\ requeue_or_fail(MaxAttempts)
    /\ step' = "idle"
    /\ UNCHANGED <<misses, recorded, ops, interrupts>>

\* Mutant: the file is opened for writing, not for appending.
Record_overwrites ==
    /\ step = "submitted"
    /\ recorded' = <<Newest>>
    /\ step' = "recorded"
    /\ UNCHANGED <<row, misses, jobs, ops, past>>

Record ==
    /\ step = "submitted"
    /\ recorded' = Append(recorded, Newest)
    /\ step' = "recorded"
    /\ UNCHANGED <<row, misses, jobs, ops, past>>

\* set_launch_descriptor
Describe ==
    /\ step = "recorded"
    /\ native' = Newest
    /\ young' = TRUE
    /\ step' = "idle"
    /\ UNCHANGED <<status, attempts, launch, fresh, misses, recorded, jobs, ops, past>>

\* The supervisor dies, or an exception leaves the tick.
Interrupted ==
    /\ "interrupt" \in Faults
    /\ step # "idle"
    /\ interrupts < MaxInterrupts
    /\ interrupts' = interrupts + 1
    /\ lapses' = lapses \cup {"interrupt"}
    /\ step' = "idle"
    /\ UNCHANGED <<row, misses, recorded, jobs, ops>>

(****************************************************************************)
(* Reconciling a running row                                                *)
(****************************************************************************)
\* read_recorded_cluster_id takes the first line of the file.
read_recorded_cluster_id == IF recorded = <<>> THEN None ELSE Head(recorded)

\* The cluster a reconcile asks condor about: the row's own or an adopted one.
Asked == IF native # None THEN native ELSE read_recorded_cluster_id

Reconciling ==
    /\ step = "idle"
    /\ status = "running"
    /\ UNCHANGED <<recorded, launchOf, step, ops, interrupts>>

\* A row that keeps running keeps its descriptor, an adopted one included.
KeepRunning ==
    /\ native' = Asked
    /\ UNCHANGED <<status, attempts, launch, fresh, young, cluster>>

\* Mutant: a row with no cluster waits for one.
NeverSubmitted_waits ==
    /\ Reconciling
    /\ Asked = None
    /\ UNCHANGED <<row, misses, cluster, lapses>>

\* Claimed, but no cluster was ever recorded: given up once the grace is over.
NeverSubmitted ==
    /\ Reconciling
    /\ Asked = None
    /\ IF fresh THEN UNCHANGED row ELSE requeue_or_fail(MaxAttempts)
    /\ UNCHANGED <<misses, cluster, lapses>>

Visible ==
    /\ Reconciling
    /\ Asked # None
    /\ misses' = 0
    /\ \/ /\ Live(Asked)
          /\ KeepRunning
          /\ UNCHANGED lapses
       \/ /\ "evict" \in Faults
          /\ Live(Asked)
          /\ remove_cluster(Asked)
          /\ requeue_or_fail(MaxEvictions)
       \/ /\ ~ Live(Asked)
          /\ finalize_stage(cluster[Asked])
          /\ UNCHANGED <<cluster, lapses>>

\* Neither queue nor history show the cluster.  The poll grace and a stage log
\* that still grows keep the row; otherwise it is a miss, and enough misses in
\* a row fail it.
Invisible ==
    /\ "blind" \in Faults
    /\ Reconciling
    /\ Asked # None
    /\ \/ /\ young
          /\ KeepRunning
          /\ UNCHANGED <<misses, lapses>>
       \/ /\ ~ young
          /\ KeepRunning
          /\ UNCHANGED lapses
          /\ misses' \in {0} \cup {n \in {misses + 1} : n < MissLimit}
       \/ /\ ~ young
          /\ misses + 1 >= MissLimit
          /\ misses' = MissLimit
          /\ lapses' = lapses \cup {"blind"}
          /\ finalize_stage("err")
          /\ UNCHANGED cluster

(****************************************************************************)
(* Commands                                                                 *)
(****************************************************************************)
Command(kind) ==
    /\ kind \in Commands
    /\ commands < MaxCommands
    /\ commands' = commands + 1

SendCancel ==
    /\ Command("cancel")
    /\ queued' = TRUE
    /\ UNCHANGED <<row, misses, recorded, jobs, step, sweeping, past>>

\* syndiff kill queues a cancel and then removes every recorded cluster itself.
SendKill ==
    /\ Command("kill")
    /\ queued' = TRUE
    /\ sweeping' = TRUE
    /\ UNCHANGED <<row, misses, recorded, jobs, step, past>>

Sweep ==
    /\ sweeping
    /\ remove_clusters(ToSet(recorded))
    /\ sweeping' = FALSE
    /\ UNCHANGED <<row, misses, recorded, launchOf, step, queued, commands, interrupts>>

\* Mutant: rows are marked canceled and their workers forgotten.
ApplyCancel_forgets ==
    /\ step = "idle"
    /\ queued
    /\ queued' = FALSE
    /\ status' = IF status \in {"ready", "running"} THEN "canceled" ELSE status
    /\ native' = None
    /\ UNCHANGED <<attempts, launch, fresh, young, misses, recorded, jobs, step, sweeping,
                   commands, past>>

ApplyCancel ==
    /\ step = "idle"
    /\ queued
    /\ queued' = FALSE
    /\ IF status = "running" /\ native # None THEN remove_cluster(native) ELSE UNCHANGED <<cluster, lapses>>
    /\ status' = IF status \in {"ready", "running"} THEN "canceled" ELSE status
    /\ native' = IF status = "running" THEN None ELSE native
    /\ UNCHANGED <<attempts, launch, fresh, young, misses, recorded, launchOf, step,
                   sweeping, commands, interrupts>>

\* A targeted retry, the stage's dependencies being satisfied.
ApplyRetry ==
    /\ step = "idle"
    /\ Command("retry")
    /\ status # "ready"
    /\ IF status = "running" /\ native # None THEN remove_cluster(native) ELSE UNCHANGED <<cluster, lapses>>
    /\ status' = "ready"
    /\ attempts' = 0
    /\ clear_launch_fields
    /\ UNCHANGED <<launch, misses, recorded, launchOf, step, queued, sweeping, interrupts>>

(****************************************************************************)
(* The environment                                                          *)
(****************************************************************************)
ClusterExits(c) ==
    /\ Live(c)
    /\ \E e \in {"ok", "err"} : cluster' = [cluster EXCEPT ![c] = e]
    /\ UNCHANGED <<row, misses, recorded, launchOf, step, ops, past>>

GraceElapses ==
    /\ fresh \/ young
    /\ \/ fresh' = FALSE /\ UNCHANGED young
       \/ young' = FALSE /\ UNCHANGED fresh
    /\ <<fresh, young>>' # <<fresh, young>>
    /\ UNCHANGED <<status, attempts, launch, native, misses, recorded, jobs, step, ops,
                   past>>

Launching == Claim \/ Submit \/ SubmitFails \/ Record \/ Describe
Reconcile == NeverSubmitted \/ Visible \/ Invisible

Next ==
    \/ Launching
    \/ Reconcile
    \/ Interrupted
    \/ SendCancel
    \/ SendKill
    \/ Sweep
    \/ ApplyCancel
    \/ ApplyRetry
    \/ GraceElapses
    \/ \E c \in Clusters : ClusterExits(c)

Spec == Init /\ [][Next]_vars

\* The supervisor loops and is restarted, time passes, clusters end, and condor
\* answers a poll again and again.
FairSpec ==
    /\ Spec
    /\ WF_vars(Launching)
    /\ WF_vars(Reconcile)
    /\ SF_vars(Visible)
    /\ WF_vars(ApplyCancel)
    /\ WF_vars(GraceElapses)
    /\ \A c \in Clusters : WF_vars(ClusterExits(c))

(****************************************************************************)
(* Properties                                                               *)
(****************************************************************************)
LiveClusters == {c \in Clusters : Live(c)}

\* A row that succeeded did so by a cluster of its current launch.  (A launch
\* interrupted after an eviction or a retry may adopt an older one.)
SuccessIsEarned ==
    "interrupt" \notin lapses /\ status = "success" =>
        \E c \in Clusters : launchOf[c] = launch /\ cluster[c] = "ok"

\* The clusters file is complete, also when condor hides or keeps clusters: one
\* that is alive is named there, or the supervisor is about to write it.  The
\* sweep of a kill relies on it.
LiveIsRecorded ==
    lapses \subseteq {"blind", "rm"} =>
        \A c \in LiveClusters : c \in ToSet(recorded) \/ (step = "submitted" /\ c = Newest)

\* Between launches, a cluster that is alive is the one the row names.
LiveIsNamed ==
    lapses = {} /\ step = "idle" => \A c \in LiveClusters : status = "running" /\ native = c

\* A stage that runs does not run for ever, whatever lapses.
RunningEnds == status = "running" ~> status # "running"

\* While the cluster of the current launch is alive its row keeps running: no
\* verdict about another cluster, and no requeue, ends the row under it.
LiveKeepsRunning ==
    [][\A c \in Clusters :
         /\ lapses' = {}
         /\ status = "running" /\ launchOf[c] = launch /\ Live(c) /\ Live(c)'
         => status' = "running"]_vars
=============================================================================
