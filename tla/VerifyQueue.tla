----------------------------- MODULE VerifyQueue ------------------------------
(****************************************************************************)
(* How the scheduler learns whether a row's artifacts are there             *)
(* (scheduler.py _run_verify_pass and _apply_verify_outcome,                *)
(* verify_worker.py).                                                       *)
(*                                                                          *)
(* Two pools scan for the main thread.  The fast one answers from indexes,  *)
(* manifests and a probe, or asks for a full scan; the slow one makes full  *)
(* scans, few at a time.  Results wait in both until the main thread picks  *)
(* them up, and in between a command may have reopened or canceled the row. *)
(* StageRuns sees the verdicts only.                                        *)
(****************************************************************************)
EXTENDS Naturals, FiniteSets

CONSTANTS
    Keys,         \* unselected rows of a run (VerifyTaskKey)
    External,     \* the keys whose row is external, the others are pending
    MaxWorkers,   \* verify_max_workers
    Faults,       \* error, raise, restart
    MaxFaults,    \* bound on faults
    MaxCommands,  \* bound on commands
    MaxChanges    \* bound on changes of the disk

ASSUME VerifyQueueAssumption ==
    /\ External \subseteq Keys
    /\ MaxWorkers \in Nat \ {0}
    /\ MaxFaults \in Nat
    /\ MaxCommands \in Nat
    /\ MaxChanges \in Nat

VARIABLES
    row,        \* the row: open, its verdict, or closed by a cancel
    epoch,      \* how often the row was reset
    disk,       \* the artifacts are complete
    fast,       \* _fast_path_in_flight
    slow,       \* _in_flight
    cancelled,  \* _cancelled
    zombies,    \* full scans that run on after their key was dropped
    faults,     \* faults so far
    commands,   \* commands so far
    changes     \* changes of the disk so far

worker == <<slow, cancelled, zombies>>
verdicts == <<row, epoch>>
bounds == <<faults, commands, changes>>
vars == <<verdicts, disk, fast, worker, bounds>>

\* A scan is asked for in an epoch; "absent" from the fast pool decides like an
\* incomplete full scan.
NoScan == [step |-> "none", asked |-> 0, result |-> "unknown"]
Results == {"unknown", "complete", "absent", "full", "error"}
Scans(steps) ==
    [step : steps \cup {"none"}, asked : 0 .. MaxCommands, result : Results]

TypeOK ==
    /\ row \in [Keys -> {"open", "cached", "skipped", "failed", "closed"}]
    /\ epoch \in [Keys -> 0 .. MaxCommands]
    /\ disk \in [Keys -> BOOLEAN]
    /\ fast \in [Keys -> Scans({"running", "done", "raised"})]
    /\ slow \in [Keys -> Scans({"queued", "running", "done"})]
    /\ cancelled \subseteq Keys
    /\ zombies \in Nat
    /\ faults \in 0 .. MaxFaults
    /\ commands \in 0 .. MaxCommands
    /\ changes \in 0 .. MaxChanges

Init ==
    /\ row = [k \in Keys |-> "open"]
    /\ epoch = [k \in Keys |-> 0]
    /\ disk \in [Keys -> BOOLEAN]
    /\ fast = [k \in Keys |-> NoScan]
    /\ slow = [k \in Keys |-> NoScan]
    /\ cancelled = {}
    /\ zombies = 0
    /\ faults = 0
    /\ commands = 0
    /\ changes = 0

Fault(kind) ==
    /\ kind \in Faults
    /\ faults < MaxFaults
    /\ faults' = faults + 1

InFlight == {k \in Keys : slow[k].step # "none"}
Busy == Cardinality({k \in Keys : slow[k].step = "running"}) + zombies

\* What a scan finds that looks now.
Look(k) == IF disk[k] THEN "complete" ELSE "absent"

(****************************************************************************)
(* The main thread                                                          *)
(****************************************************************************)
\* _apply_verify_outcome: an error decides nothing, an incomplete scan fails an
\* external row and is cached for a pending one.
apply(k, scan) ==
    IF row[k] \in {"open", "cached"} /\ scan.result # "error"
    THEN row' = [row EXCEPT ![k] =
                    IF scan.result = "complete" THEN "skipped"
                    ELSE IF k \in External THEN "failed" ELSE "cached"]
    ELSE UNCHANGED row

\* One candidate of a verify pass that nothing is known of yet.
AskFast(k) ==
    /\ row[k] = "open"
    /\ fast[k] = NoScan
    /\ fast' = [fast EXCEPT ![k] = [step |-> "running", asked |-> epoch[k], result |-> "unknown"]]
    /\ UNCHANGED <<verdicts, disk, worker, bounds>>

\* A pass that finds the fast scan of a candidate done applies it, or asks for
\* a full scan when a slot of the slow pool is free.  A scan that raised stays
\* where it is, and the exception ends the run's tick.
TakeFast(k) ==
    /\ row[k] = "open"
    /\ fast[k].step = "done"
    /\ fast' = [fast EXCEPT ![k] = NoScan]
    /\ IF fast[k].result # "full"
       THEN apply(k, fast[k]) /\ UNCHANGED slow
       ELSE /\ UNCHANGED row
            /\ slow' = IF k \notin InFlight /\ Cardinality(InFlight) < MaxWorkers
                       THEN [slow EXCEPT ![k] = [step |-> "queued", asked |-> epoch[k],
                                                 result |-> "unknown"]]
                       ELSE slow
    /\ UNCHANGED <<epoch, disk, cancelled, zombies, bounds>>

\* A tick of the run is possible: no candidate has a fast scan that raised.
Ticking == \A k \in Keys : ~ (row[k] = "open" /\ fast[k].step = "raised")

\* Mutant: a canceled key stays canceled.
Drain_remembers(k) ==
    /\ slow[k].step = "done"
    /\ slow' = [slow EXCEPT ![k] = NoScan]
    /\ IF k \in cancelled THEN UNCHANGED row ELSE apply(k, slow[k])
    /\ UNCHANGED <<epoch, disk, fast, cancelled, zombies, bounds>>

Drain(k) ==
    /\ slow[k].step = "done"
    /\ slow' = [slow EXCEPT ![k] = NoScan]
    /\ cancelled' = cancelled \ {k}
    /\ IF k \in cancelled THEN UNCHANGED row ELSE apply(k, slow[k])
    /\ UNCHANGED <<epoch, disk, fast, zombies, bounds>>

\* Mutant: the keys are marked and their scans stay in flight.
cancel_keys_marks(K) ==
    /\ cancelled' = cancelled \cup K
    /\ UNCHANGED <<slow, zombies>>

\* A queued scan is dropped, a running one cannot be stopped.
cancel_keys(K) ==
    /\ cancelled' = cancelled \cup K
    /\ slow' = [k \in Keys |-> IF k \in K THEN NoScan ELSE slow[k]]
    /\ zombies' = zombies + Cardinality({k \in K : slow[k].step = "running"})

\* retry-stage: the scan of the row is canceled, the row reopened.
RetryStage(k) ==
    /\ commands < MaxCommands
    /\ commands' = commands + 1
    /\ cancel_keys({k})
    /\ row' = [row EXCEPT ![k] = "open"]
    /\ epoch' = [epoch EXCEPT ![k] = @ + 1]
    /\ UNCHANGED <<disk, fast, faults, changes>>

\* cancel: the run's scans in flight are canceled, its open rows closed.
CancelRun ==
    /\ commands < MaxCommands
    /\ commands' = commands + 1
    /\ cancel_keys(InFlight)
    /\ row' = [k \in Keys |-> IF row[k] \in {"open", "cached"} THEN "closed" ELSE row[k]]
    /\ UNCHANGED <<epoch, disk, fast, faults, changes>>

\* A supervisor that starts again knows nothing of the scans.
Restart ==
    /\ Fault("restart")
    /\ fast' = [k \in Keys |-> NoScan]
    /\ slow' = [k \in Keys |-> NoScan]
    /\ cancelled' = {}
    /\ zombies' = 0
    /\ UNCHANGED <<verdicts, disk, commands, changes>>

(****************************************************************************)
(* The pools and the disk                                                   *)
(****************************************************************************)
\* The probe finds nothing, an index or a manifest says complete, or neither.
FinishFast(k) ==
    /\ fast[k].step = "running"
    /\ \/ /\ \E r \in {Look(k), "full"} : fast' = [fast EXCEPT ![k].step = "done", ![k].result = r]
          /\ UNCHANGED faults
       \/ /\ Fault("raise")
          /\ fast' = [fast EXCEPT ![k].step = "raised"]
    /\ UNCHANGED <<verdicts, disk, worker, commands, changes>>

StartSlow(k) ==
    /\ slow[k].step = "queued"
    /\ Busy < MaxWorkers
    /\ slow' = [slow EXCEPT ![k].step = "running", ![k].result = Look(k)]
    /\ UNCHANGED <<verdicts, disk, fast, cancelled, zombies, bounds>>

\* A scan sees the disk as it was at its start or as it is at its end.
FinishSlow(k) ==
    /\ slow[k].step = "running"
    /\ \/ /\ \E r \in {slow[k].result, Look(k)} :
                slow' = [slow EXCEPT ![k].step = "done", ![k].result = r]
          /\ UNCHANGED faults
       \/ /\ Fault("error")
          /\ slow' = [slow EXCEPT ![k].step = "done", ![k].result = "error"]
    /\ UNCHANGED <<verdicts, disk, fast, cancelled, zombies, commands, changes>>

FinishZombie ==
    /\ zombies > 0
    /\ zombies' = zombies - 1
    /\ UNCHANGED <<verdicts, disk, fast, slow, cancelled, bounds>>

ChangeDisk(k) ==
    /\ changes < MaxChanges
    /\ changes' = changes + 1
    /\ disk' = [disk EXCEPT ![k] = ~ @]
    /\ UNCHANGED <<verdicts, fast, worker, faults, commands>>

MainThread ==
    \/ \E k \in Keys : RetryStage(k)
    \/ CancelRun
    \/ Restart
    \/ /\ Ticking
       /\ \E k \in Keys : AskFast(k) \/ TakeFast(k) \/ Drain(k)

Next ==
    \/ MainThread
    \/ \E k \in Keys : FinishFast(k) \/ StartSlow(k) \/ FinishSlow(k) \/ ChangeDisk(k)
    \/ FinishZombie

Spec == Init /\ [][Next]_vars

\* Every tick passes over all candidates and drains; the pools finish their
\* scans.
FairSpec ==
    /\ Spec
    /\ \A k \in Keys :
          /\ WF_vars(Ticking /\ AskFast(k))
          /\ WF_vars(Ticking /\ TakeFast(k))
          /\ WF_vars(Ticking /\ Drain(k))
          /\ WF_vars(FinishFast(k))
          /\ WF_vars(StartSlow(k))
          /\ WF_vars(FinishSlow(k))
    /\ WF_vars(FinishZombie)

(****************************************************************************)
(* Properties                                                               *)
(****************************************************************************)
\* A full scan the main thread waits for was asked for since the row's last
\* reset: a retry never finds an older answer in the slow pool.
FullScanIsCurrent == \A k \in InFlight : slow[k].asked = epoch[k]

\* An open row is decided, whatever is canceled, dropped or repeated, as long as
\* the run has ticks: one fast scan that raised ends them all.
OpenRowIsDecided == \A k \in Keys : row[k] = "open" ~> row[k] # "open" \/ ~ Ticking
=============================================================================
