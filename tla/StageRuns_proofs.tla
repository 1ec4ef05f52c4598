--------------------------- MODULE StageRuns_proofs ---------------------------
(****************************************************************************)
(* Proofs about StageRuns, for every set of targets, every DAG and every    *)
(* setting of the limits, in four parts: types and attempts, the order of   *)
(* the DAG, workers and artifacts, the capacity of the pools.               *)
(****************************************************************************)
EXTENDS StageRuns, FiniteSetTheorems, TLAPS

-----------------------------------------------------------------------------
(****************************************************************************)
(* Part 1.  Types and attempts                                              *)
(*                                                                          *)
(* Every step keeps the types of the variables, and every requeue path      *)
(* draws on one counter.                                                    *)
(****************************************************************************)

(****************************************************************************)
(* The bulk updates map typed status functions to typed status functions.   *)
(****************************************************************************)
LEMMA FailAndBlockType ==
    ASSUME TypeOK, NEW r \in Rows
    PROVE  FailAndBlock(r) \in [Rows -> StageStatuses]
BY DEF TypeOK, FailAndBlock, StageStatuses

LEMMA NotSelectedType ==
    ASSUME NEW st \in [Rows -> StageStatuses], NEW rs, NEW act
    PROVE  apply_not_selected_skips(st, rs, act) \in [Rows -> StageStatuses]
BY DEF apply_not_selected_skips, StageStatuses

LEMMA SupersededType ==
    ASSUME NEW st \in [Rows -> StageStatuses], NEW act
    PROVE  apply_superseded_skips(st, act) \in [Rows -> StageStatuses]
BY DEF apply_superseded_skips, StageStatuses

LEMMA RepairType ==
    ASSUME NEW st \in [Rows -> StageStatuses]
    PROVE  repair_orphaned_pending_upstream(st) \in [Rows -> StageStatuses]
BY DEF repair_orphaned_pending_upstream, StageStatuses

LEMMA PromoteType ==
    ASSUME NEW st \in [Rows -> StageStatuses], NEW ck
    PROVE  promote_stages(st, ck) \in [Rows -> StageStatuses]
BY DEF promote_stages, StageStatuses

LEMMA AbandonType ==
    ASSUME TypeOK, NEW R, Abandon(R)
    PROVE  /\ worker' \in [Rows -> {"none", "live"} \cup Exits]
           /\ orphan' \in [Rows -> BOOLEAN]
           /\ disk' \in [Rows -> BOOLEAN]
BY DEF TypeOK, Abandon

LEMMA TerminateType ==
    ASSUME TypeOK, NEW R, Terminate(R)
    PROVE  /\ worker' \in [Rows -> {"none", "live"} \cup Exits]
           /\ orphan' \in [Rows -> BOOLEAN]
           /\ disk' \in [Rows -> BOOLEAN]
BY DEF TypeOK, Terminate

LEMMA CancelScansType ==
    ASSUME TypeOK, NEW R, CancelScans(R)
    PROVE  scan' \in [Rows -> {"idle", "busy"} \cup Verdicts]
BY DEF TypeOK, CancelScans

LEMMA VerdictType ==
    ASSUME TypeOK, NEW r \in Rows, NEW verdict, ApplyVerdict(r, verdict)
    PROVE  /\ status' \in [Rows -> StageStatuses]
           /\ reason' \in [Rows -> SkipReasons]
           /\ check' \in [Rows -> {"none", "0", "1"}]
BY FailAndBlockType, ZenonT(60) DEF TypeOK, ApplyVerdict, StageStatuses, SkipReasons

LEMMA InterveneType ==
    ASSUME TypeOK, Intervene
    PROVE  interventions' \in 0 .. MaxInterventions
BY StageRunsAssumption DEF TypeOK, Intervene

(****************************************************************************)
(* Type correctness                                                         *)
(****************************************************************************)
LEMMA InitType == Init => TypeOK
<1> SUFFICES ASSUME Init PROVE TypeOK
    OBVIOUS
<1>1. PICK setup \in RunSetups :
        LET act == setup.active
            made == Created(act)
            configured == [r \in Rows |-> IF r[2] \in PreSkipped THEN "config" ELSE "none"]
            kept == apply_not_selected_skips(made, configured, act)
        IN  /\ active = act
            /\ forceRerun = setup.force
            /\ disk = [r \in Rows |-> r \in setup.onDisk]
            /\ status = apply_superseded_skips(kept, act)
            /\ reason = [r \in Rows |->
                  IF r \in NotSelected(made, configured, act) THEN "not_selected"
                  ELSE IF r \in Superseded(kept, act) THEN "superseded"
                  ELSE configured[r]]
    BY DEF Init
<1>2. setup \in [active : SUBSET Stages, force : BOOLEAN, onDisk : SUBSET Rows]
    BY StageRunsAssumption
<1>3. Created(setup.active) \in [Rows -> StageStatuses]
    BY DEF Created, StageStatuses
<1>4. status \in [Rows -> StageStatuses]
    BY <1>1, <1>3, NotSelectedType, SupersededType
<1>5. reason \in [Rows -> SkipReasons]
    BY <1>1 DEF SkipReasons
<1>6. disk \in [Rows -> BOOLEAN] /\ active \in SUBSET Stages /\ forceRerun \in BOOLEAN
    BY <1>1, <1>2
<1>7. /\ check = [r \in Rows |-> "none"]
      /\ attempts = [r \in Rows |-> 0]
      /\ backoff = [r \in Rows |-> FALSE]
      /\ forced = [r \in Rows |-> FALSE]
      /\ worker = [r \in Rows |-> "none"]
      /\ orphan = [r \in Rows |-> FALSE]
      /\ scan = [r \in Rows |-> "idle"]
      /\ runStatus = "running"
      /\ paused = FALSE
      /\ phase = "idle"
      /\ todo = {}
      /\ interventions = 0
    BY DEF Init
<1>8. 0 \in 0 .. MaxInterventions
    BY StageRunsAssumption
<1> QED
    BY <1>4, <1>5, <1>6, <1>7, <1>8
       DEF TypeOK, ActiveRunStatuses, Phases

LEMMA CommandType ==
    ASSUME TypeOK, Operator
    PROVE  TypeOK'
<1> USE DEF ledger, work, run
<1>1. CASE Cancel
    BY <1>1, TerminateType, CancelScansType, InterveneType
       DEF Cancel, Command, TypeOK, StageStatuses, TerminalRunStatuses
<1>2. ASSUME NEW kind, NEW value \in BOOLEAN, SetPaused(kind, value) PROVE TypeOK'
    BY <1>2, InterveneType DEF SetPaused, Command, TypeOK
<1>3. ASSUME NEW R, reset_stage_for_retry(R)
      PROVE  /\ status' \in [Rows -> StageStatuses]
             /\ reason' \in [Rows -> SkipReasons]
             /\ check' \in [Rows -> {"none", "0", "1"}]
             /\ attempts' \in [Rows -> Nat]
             /\ backoff' \in [Rows -> BOOLEAN]
             /\ forced' \in [Rows -> BOOLEAN]
    BY <1>3 DEF reset_stage_for_retry, TypeOK, StageStatuses, SkipReasons
<1>4. ASSUME NEW R, reset_stage_for_retry(R)
      PROVE  /\ worker' \in [Rows -> {"none", "live"} \cup Exits]
             /\ orphan' \in [Rows -> BOOLEAN]
             /\ disk' \in [Rows -> BOOLEAN]
    BY <1>4, AbandonType DEF reset_stage_for_retry
<1>5. CASE RetryRun
    BY <1>5, <1>3, <1>4, CancelScansType, InterveneType
       DEF RetryRun, Command, TypeOK, ActiveRunStatuses
<1>6. ASSUME NEW r \in Rows, NEW down \in BOOLEAN, RetryStage(r, down) PROVE TypeOK'
  <2>1. /\ interventions' \in 0 .. MaxInterventions
        /\ scan' \in [Rows -> {"idle", "busy"} \cup Verdicts]
        /\ UNCHANGED <<phase, todo, paused, forceRerun, active>>
        /\ runStatus' = "running"
    BY <1>6, CancelScansType, InterveneType DEF RetryStage, Command
  <2>2. CASE status[r] = "running"
    <3>1. /\ Terminate({r})
          /\ status' = [status EXCEPT ![r] = "ready"]
          /\ attempts' = [attempts EXCEPT ![r] = 0]
          /\ backoff' = [backoff EXCEPT ![r] = FALSE]
          /\ UNCHANGED <<reason, check, forced>>
      BY <1>6, <2>2 DEF RetryStage
    <3>2. /\ worker' \in [Rows -> {"none", "live"} \cup Exits]
          /\ orphan' \in [Rows -> BOOLEAN]
          /\ disk' \in [Rows -> BOOLEAN]
      BY <3>1, TerminateType
    <3> QED
      BY <2>1, <3>1, <3>2 DEF TypeOK, StageStatuses, ActiveRunStatuses
  <2>3. CASE status[r] # "running"
    BY <1>6, <2>1, <2>3, <1>3, <1>4 DEF RetryStage, TypeOK, ActiveRunStatuses
  <2> QED
    BY <2>2, <2>3
<1>7. ASSUME NEW S \in RerunSelections, ForceRerun(S) PROVE TypeOK'
  <2>1. S \subseteq Stages
    BY StageRunsAssumption
  <2>2. Terminate((Targets \X S) \cap running_stage_runs) /\ CancelScans(Rows) /\ Intervene
    BY <1>7 DEF ForceRerun, Command
  <2> QED
    BY <1>7, <2>1, <2>2, TerminateType, CancelScansType, InterveneType
       DEF ForceRerun, Command, TypeOK, StageStatuses, SkipReasons, ActiveRunStatuses
<1>8. ASSUME NEW r \in Rows, ForceLaunch(r) PROVE TypeOK'
    BY <1>8, InterveneType DEF ForceLaunch, Command, TypeOK
<1> QED
    BY <1>1, <1>2, <1>5, <1>6, <1>7, <1>8 DEF Operator, Pause, Resume

LEMMA LaunchType ==
    ASSUME TypeOK, NEW r \in Rows, LaunchRow(r)
    PROVE  TypeOK'
<1> USE DEF ledger, work, run, Launching, Visit
<1>1. CASE LaunchRefused(r)
    BY <1>1 DEF LaunchRefused, TypeOK
<1>2. CASE LaunchDemoted(r)
    BY <1>2 DEF LaunchDemoted, TypeOK, StageStatuses
<1>3. CASE LaunchSkipped(r)
    BY <1>3 DEF LaunchSkipped, SpendOverride, TypeOK, StageStatuses, SkipReasons
<1>4. CASE LaunchOk(r)
    BY <1>4 DEF LaunchOk, Claimable, SpendOverride, TypeOK, StageStatuses
<1>5. CASE LaunchFails(r)
  <2>1. /\ todo' \in SUBSET Rows
        /\ phase' = phase /\ interventions' = interventions
        /\ runStatus' = runStatus /\ paused' = paused
        /\ forceRerun' = forceRerun /\ active' = active
        /\ attempts' \in [Rows -> Nat]
    BY <1>5 DEF LaunchFails, Claimable, TypeOK
  <2>3. /\ reason' = reason /\ check' = check /\ forced' = forced /\ scan' = scan
        /\ worker' = worker /\ orphan' = orphan /\ disk' = disk
    BY <1>5 DEF LaunchFails
  <2>2. /\ status' \in [Rows -> StageStatuses]
        /\ backoff' \in [Rows -> BOOLEAN]
    BY <1>5, FailAndBlockType DEF LaunchFails, TypeOK
  <2> QED
    BY <2>1, <2>2, <2>3 DEF TypeOK
<1> QED
    BY <1>1, <1>2, <1>3, <1>4, <1>5 DEF LaunchRow

LEMMA RequeueOrFailType ==
    ASSUME TypeOK, NEW r \in Rows, NEW budget, requeue_or_fail(r, budget)
    PROVE  status' \in [Rows -> StageStatuses] /\ backoff' \in [Rows -> BOOLEAN]
BY FailAndBlockType DEF requeue_or_fail, GiveUp, Requeue, TypeOK, StageStatuses

LEMMA ReconcileType ==
    ASSUME TypeOK, NEW r \in Rows, ReconcileRow(r)
    PROVE  TypeOK'
<1> SUFFICES /\ status' \in [Rows -> StageStatuses]
             /\ backoff' \in [Rows -> BOOLEAN]
             /\ worker' \in [Rows -> {"none", "live"} \cup Exits]
             /\ orphan' \in [Rows -> BOOLEAN]
             /\ disk' \in [Rows -> BOOLEAN]
             /\ Reconciling(r)
    BY DEF Reconciling, Visit, TypeOK, run
<1>1. CASE KeepRunning(r)
    BY <1>1 DEF KeepRunning, TypeOK, work
<1>2. CASE Finalize(r)
    BY <1>2, FailAndBlockType DEF Finalize, ForgetWorker, TypeOK, StageStatuses
<1>3. CASE RequeueLost(r)
    BY <1>3, RequeueOrFailType DEF RequeueLost, ForgetWorker, TypeOK
<1>4. CASE RequeueStale(r)
    BY <1>4, RequeueOrFailType, AbandonType, TerminateType DEF RequeueStale
<1>5. CASE RequeueEvicted(r)
    BY <1>5, RequeueOrFailType, TerminateType DEF RequeueEvicted
<1>6. CASE FailUnseen(r)
    BY <1>6, FailAndBlockType, AbandonType DEF FailUnseen, TypeOK
<1> QED
    BY <1>1, <1>2, <1>3, <1>4, <1>5, <1>6 DEF ReconcileRow

LEMMA VerifyType ==
    ASSUME TypeOK, NEW r \in Rows, VerifyRow(r)
    PROVE  TypeOK'
<1> USE DEF ledger, work, run, Visit
<1>1. CASE ApplyScan(r)
  <2>1. ApplyVerdict(r, scan[r])
    BY <1>1 DEF ApplyScan
  <2> QED
    BY <1>1, <2>1, VerdictType DEF ApplyScan, TypeOK
<1>2. CASE VerifyFast(r)
  <2>1. ApplyVerdict(r, ScanAnswer(r))
    BY <1>2 DEF VerifyFast
  <2> QED
    BY <1>2, <2>1, VerdictType DEF VerifyFast, TypeOK
<1>3. CASE VerifyScheduled(r)
    BY <1>3 DEF VerifyScheduled, TypeOK
<1> QED
    BY <1>1, <1>2, <1>3 DEF VerifyRow

LEMMA EndReconcileType ==
    ASSUME TypeOK, EndReconcile
    PROVE  TypeOK'
<1> DEFINE kept == apply_not_selected_skips(status, reason, active)
           trimmed == apply_superseded_skips(kept, active)
           repaired == repair_orphaned_pending_upstream(trimmed)
           trust == IF SkipVerify THEN Trusted(repaired) ELSE {}
           settled == [r \in Rows |-> IF r \in trust THEN "skipped" ELSE repaired[r]]
           skipped == NotSelected(status, reason, active) \cup Superseded(kept, active)
           reopened == Reselected(status, reason, active)
           ck == [r \in Rows |-> IF r \in skipped \cup reopened THEN "none" ELSE check[r]]
           next == IF SkipVerify THEN promote_stages(settled, ck) ELSE settled
<1>1. repaired \in [Rows -> StageStatuses]
    BY NotSelectedType, SupersededType, RepairType DEF TypeOK
<1>2. settled \in [Rows -> StageStatuses]
    BY <1>1 DEF StageStatuses
<1>3. next \in [Rows -> StageStatuses]
    BY <1>2, PromoteType
<1>4. status' = next /\ check' = ck /\ Abandon(skipped)
    BY DEF EndReconcile
<1>5. reason' \in [Rows -> SkipReasons]
    BY DEF EndReconcile, TypeOK, SkipReasons
<1>6. phase' \in Phases /\ todo' \in SUBSET Rows /\ interventions' = interventions
    BY DEF EndReconcile, Enter, Phases, ForceLaunchable
<1>7. check' \in [Rows -> {"none", "0", "1"}]
    BY <1>4 DEF TypeOK
<1>8. UNCHANGED <<attempts, backoff, forced, scan, run>>
    BY DEF EndReconcile
<1> HIDE DEF next, ck, skipped
<1> QED
    BY <1>3, <1>4, <1>5, <1>6, <1>7, <1>8, AbandonType DEF TypeOK, run

LEMMA EndVerifyType ==
    ASSUME TypeOK, EndVerify
    PROVE  TypeOK'
<1> DEFINE hits == Superseded(status, active)
           ck == [r \in Rows |-> IF r \in hits THEN "none" ELSE check[r]]
           next == promote_stages(apply_superseded_skips(status, active), ck)
<1>1. next \in [Rows -> StageStatuses]
    BY SupersededType, PromoteType DEF TypeOK
<1>2. status' = next /\ check' = ck /\ Abandon(hits)
    BY DEF EndVerify
<1>3. reason' \in [Rows -> SkipReasons]
    BY DEF EndVerify, TypeOK, SkipReasons
<1>4. phase' \in Phases /\ todo' \in SUBSET Rows /\ interventions' = interventions
    BY DEF EndVerify, Enter, Phases, ForceLaunchable
<1>5. check' \in [Rows -> {"none", "0", "1"}]
    BY <1>2 DEF TypeOK
<1>6. UNCHANGED <<attempts, backoff, forced, scan, run>>
    BY DEF EndVerify
<1> HIDE DEF next, ck, hits
<1> QED
    BY <1>1, <1>2, <1>3, <1>4, <1>5, <1>6, AbandonType DEF TypeOK, run

LEMMA SupervisorType ==
    ASSUME TypeOK, Supervisor
    PROVE  TypeOK'
<1> USE DEF ledger, work, run, Enter, Phases
<1>1. CASE BeginTick
    BY <1>1 DEF BeginTick, TypeOK, ForceLaunchable
<1>2. CASE EndForce
    BY <1>2 DEF EndForce, TypeOK, running_stage_runs
<1>3. CASE EndDrain
    BY <1>3 DEF EndDrain, TypeOK, VerifyCandidates
<1>4. CASE FillPools
    BY <1>4 DEF FillPools, TypeOK
<1>5. CASE EndTick
    BY <1>5 DEF EndTick, TypeOK, derive_run_final_status, ActiveRunStatuses,
                TerminalRunStatuses
<1> QED
    BY <1>1, <1>2, <1>3, <1>4, <1>5, EndReconcileType, EndVerifyType,
       LaunchType, ReconcileType, VerifyType DEF Supervisor

LEMMA EnvironmentType ==
    ASSUME TypeOK, Environment
    PROVE  TypeOK'
<1> USE DEF ledger, work, run, Outside
<1>1. ASSUME NEW r \in Rows, WorkerExits(r) PROVE TypeOK'
    BY <1>1 DEF WorkerExits, TypeOK
<1>2. ASSUME NEW r \in Rows, OrphanExits(r) PROVE TypeOK'
    BY <1>2 DEF OrphanExits, TypeOK
<1>3. ASSUME NEW r \in Rows, BackoffElapses(r) PROVE TypeOK'
    BY <1>3 DEF BackoffElapses, TypeOK
<1>4. ASSUME NEW r \in Rows, NEW verdict \in Verdicts, ScanFinishes(r, verdict)
      PROVE  TypeOK'
    BY <1>4 DEF ScanFinishes, TypeOK
<1> QED
    BY <1>1, <1>2, <1>3, <1>4 DEF Environment

LEMMA RestartType ==
    ASSUME TypeOK, SupervisorRestarts
    PROVE  TypeOK'
<1>1. status' \in [Rows -> StageStatuses]
    BY DEF SupervisorRestarts, HalfFinalized, TypeOK, StageStatuses
<1> QED
    BY <1>1, InterveneType DEF SupervisorRestarts, TypeOK, Phases, ledger, work, run

LEMMA NextType == TypeOK /\ [Next]_vars => TypeOK'
<1> SUFFICES ASSUME TypeOK, [Next]_vars PROVE TypeOK'
    OBVIOUS
<1>1. CASE Next
    BY <1>1, CommandType, SupervisorType, EnvironmentType, RestartType DEF Next
<1>2. CASE UNCHANGED vars
    BY <1>2 DEF vars, ledger, work, run, TypeOK
<1> QED
    BY <1>1, <1>2

\* Every reachable state of a run is well typed: the tick's chained bulk updates,
\* commands and worker exits never write a status, reason or cached check that
\* the scheduler's queries do not know.
THEOREM TypeCorrect == Spec => []TypeOK
BY InitType, NextType, PTL DEF Spec

(****************************************************************************)
(* The launch budget.  AttemptsBounded is not inductive: a row at its budget *)
(* must never be launchable again.  The strengthening says that whatever may *)
(* still be launched, by its status or by its place in the launch loop, has  *)
(* an attempt to spare; and because apply_not_selected_skips reopens a       *)
(* not_selected skip without resetting its attempts, that no such skip lies  *)
(* inside the current selection.                                             *)
(****************************************************************************)
Waiting == {"pending", "ready", "blocked", "external"}

Launchable(r) ==
    status[r] \in Waiting \/ (phase \in {"force", "override", "launch"} /\ r \in todo)

SpareAttempt == \A r \in Rows : Launchable(r) => attempts[r] < Budget(r)

SkippedOutside ==
    \A r \in Rows : status[r] = "skipped" /\ reason[r] = "not_selected" => r[2] \notin active

BudgetInv == TypeOK /\ AttemptsBounded /\ SpareAttempt /\ SkippedOutside

LEMMA BudgetFacts ==
    ASSUME NEW r \in Rows
    PROVE  Budget(r) \in Nat /\ Budget(r) >= 1 /\ Budget(r) >= MaxAttempts
BY StageRunsAssumption DEF Budget

\* FailAndBlock makes no row launchable.
LEMMA FailAndBlockWaiting ==
    ASSUME TypeOK, NEW r \in Rows, NEW x \in Rows, FailAndBlock(r)[x] \in Waiting
    PROVE  status[x] \in Waiting
BY DEF FailAndBlock, Waiting

\* FailAndBlock skips no row.
LEMMA FailAndBlockSkipped ==
    ASSUME TypeOK, NEW r \in Rows, NEW x \in Rows, FailAndBlock(r)[x] = "skipped"
    PROVE  status[x] = "skipped"
BY DEF FailAndBlock

LEMMA InitBudget == Init => BudgetInv
<1> SUFFICES ASSUME Init PROVE BudgetInv
    OBVIOUS
<1>1. /\ attempts = [r \in Rows |-> 0]
      /\ TypeOK
    BY InitType DEF Init
<1>2. SkippedOutside
  <2>1. PICK setup \in RunSetups :
          LET act == setup.active
              made == Created(act)
              configured == [r \in Rows |-> IF r[2] \in PreSkipped THEN "config" ELSE "none"]
              kept == apply_not_selected_skips(made, configured, act)
          IN  /\ active = act
              /\ reason = [r \in Rows |->
                    IF r \in NotSelected(made, configured, act) THEN "not_selected"
                    ELSE IF r \in Superseded(kept, act) THEN "superseded"
                    ELSE configured[r]]
      BY DEF Init
  <2> QED
      BY <2>1 DEF SkippedOutside, NotSelected
<1> QED
    BY <1>1, <1>2, BudgetFacts DEF BudgetInv, AttemptsBounded, SpareAttempt


\* Away from the launch loops, a step that keeps every attempt count need only
\* say why the rows it leaves waiting, or skips, were fit for that before.
LEMMA KeepsBudget ==
    ASSUME BudgetInv, TypeOK', attempts' = attempts,
           \A x \in Rows : (status'[x] \in Waiting
                             \/ (phase' \in {"force", "override", "launch"} /\ x \in todo'))
                           => attempts[x] < Budget(x),
           \A x \in Rows : status'[x] = "skipped" /\ reason'[x] = "not_selected"
                           => x[2] \notin active'
    PROVE  BudgetInv'
<1>1. AttemptsBounded'
    BY DEF BudgetInv, AttemptsBounded, Budget
<1>2. SpareAttempt'
    BY DEF SpareAttempt, Launchable, Budget
<1>3. SkippedOutside'
    BY DEF SkippedOutside
<1> QED
    BY <1>1, <1>2, <1>3 DEF BudgetInv

LEMMA CommandBudget ==
    ASSUME BudgetInv, Operator, TypeOK'
    PROVE  BudgetInv'
<1> USE DEF ledger, work, run
<1>1. phase = "idle" /\ phase' = "idle"
    BY DEF Operator, Cancel, Pause, Resume, SetPaused, RetryRun, ForceLaunch, RetryStage,
           ForceRerun, Command
<1>2. TypeOK /\ AttemptsBounded /\ SpareAttempt /\ SkippedOutside
    BY DEF BudgetInv
<1>3. CASE Cancel
    BY <1>1, <1>2, <1>3, KeepsBudget
       DEF Cancel, SpareAttempt, Launchable, SkippedOutside, TypeOK, Waiting
<1>4. ASSUME NEW kind, NEW value, SetPaused(kind, value) PROVE BudgetInv'
    BY <1>1, <1>2, <1>4, KeepsBudget DEF SetPaused, SpareAttempt, Launchable, SkippedOutside
<1>5. ASSUME NEW R, reset_stage_for_retry(R), active' = active PROVE BudgetInv'
  <2>1. /\ \A x \in Rows : attempts'[x] = IF x \in R THEN 0 ELSE attempts[x]
        /\ \A x \in Rows \ R : status'[x] = status[x] /\ reason'[x] = reason[x]
        /\ \A x \in Rows : x \in R => reason'[x] = "none"
    BY <1>5, <1>2 DEF reset_stage_for_retry, TypeOK
  <2>2. AttemptsBounded'
    BY <2>1, <1>2, BudgetFacts DEF AttemptsBounded, Budget
  <2>3. SpareAttempt'
    BY <2>1, <1>1, <1>2, BudgetFacts DEF SpareAttempt, Launchable, Budget
  <2>4. SkippedOutside'
    BY <2>1, <1>2, <1>5 DEF SkippedOutside
  <2> QED
    BY <2>2, <2>3, <2>4 DEF BudgetInv
<1>6. ASSUME NEW r \in Rows, NEW down \in BOOLEAN, RetryStage(r, down) PROVE BudgetInv'
  <2>1. CASE status[r] = "running"
    <3>1. /\ \A x \in Rows : attempts'[x] = IF x = r THEN 0 ELSE attempts[x]
          /\ \A x \in Rows : status'[x] = IF x = r THEN "ready" ELSE status[x]
          /\ reason' = reason /\ active' = active
      BY <1>6, <2>1, <1>2 DEF RetryStage, TypeOK
    <3>2. AttemptsBounded'
      BY <3>1, <1>2, BudgetFacts DEF AttemptsBounded, Budget
    <3>3. SpareAttempt'
      BY <3>1, <1>1, <1>2, BudgetFacts DEF SpareAttempt, Launchable, Budget
    <3>4. SkippedOutside'
      BY <3>1, <1>2 DEF SkippedOutside
    <3> QED
      BY <3>2, <3>3, <3>4 DEF BudgetInv
  <2>2. CASE status[r] # "running"
    BY <1>5, <1>6, <2>2 DEF RetryStage
  <2> QED
    BY <2>1, <2>2
<1>7. CASE RetryRun
    BY <1>5, <1>7 DEF RetryRun
<1>8. ASSUME NEW S \in RerunSelections, ForceRerun(S) PROVE BudgetInv'
  <2>1. /\ \A x \in Rows : attempts'[x] = IF x[2] \in S THEN 0 ELSE attempts[x]
        /\ \A x \in Rows : status'[x] = IF x[2] \in S THEN "pending" ELSE status[x]
        /\ active' = S
    BY <1>8, <1>2, StageRunsAssumption DEF ForceRerun, TypeOK, Rows
  <2>2. AttemptsBounded'
    BY <2>1, <1>2, BudgetFacts DEF AttemptsBounded, Budget
  <2>3. SpareAttempt'
    BY <2>1, <1>1, <1>2, BudgetFacts DEF SpareAttempt, Launchable, Budget
  <2>4. SkippedOutside'
    BY <2>1 DEF SkippedOutside
  <2> QED
    BY <2>2, <2>3, <2>4 DEF BudgetInv
<1>9. ASSUME NEW r \in Rows, ForceLaunch(r) PROVE BudgetInv'
    BY <1>1, <1>2, <1>9, KeepsBudget DEF ForceLaunch, SpareAttempt, Launchable, SkippedOutside
<1> QED
    BY <1>3, <1>4, <1>6, <1>7, <1>8, <1>9 DEF Operator, Pause, Resume


\* A row that is launched spends the attempt it had to spare and leaves the
\* launch loop, so it is neither waiting nor to be visited again.
LEMMA LaunchBudget ==
    ASSUME BudgetInv, NEW r \in Rows, LaunchRow(r), TypeOK'
    PROVE  BudgetInv'
<1> USE DEF ledger, work, run, Visit, Launching
<1>1. TypeOK /\ AttemptsBounded /\ SpareAttempt /\ SkippedOutside
    BY DEF BudgetInv
<1>2. /\ phase \in {"force", "override", "launch"} /\ r \in todo
      /\ phase' = phase /\ todo' = todo \ {r} /\ active' = active
    BY DEF LaunchRow, LaunchRefused, LaunchDemoted, LaunchSkipped, LaunchOk, LaunchFails,
           Claimable
<1>3. attempts[r] < Budget(r)
    BY <1>1, <1>2 DEF SpareAttempt, Launchable
<1>4. CASE LaunchRefused(r)
    BY <1>1, <1>2, <1>4, KeepsBudget
       DEF LaunchRefused, SpareAttempt, Launchable, SkippedOutside
<1>5. CASE LaunchDemoted(r)
  <2>1. \A x \in Rows : status'[x] = IF x = r THEN "pending" ELSE status[x]
    BY <1>1, <1>5 DEF LaunchDemoted, TypeOK
  <2> QED
    BY <1>1, <1>2, <1>3, <1>5, <2>1, KeepsBudget
       DEF LaunchDemoted, SpareAttempt, Launchable, SkippedOutside
<1>6. CASE LaunchSkipped(r)
  <2>1. /\ \A x \in Rows : status'[x] = IF x = r THEN "skipped" ELSE status[x]
        /\ \A x \in Rows : reason'[x] = IF x = r THEN "artifacts" ELSE reason[x]
    BY <1>1, <1>6 DEF LaunchSkipped, TypeOK
  <2> QED
    BY <1>1, <1>2, <1>6, <2>1, KeepsBudget
       DEF LaunchSkipped, SpareAttempt, Launchable, SkippedOutside, Waiting
<1>7. ASSUME Claimable(r), reason' = reason,
             \A x \in Rows : status'[x] \in Waiting =>
                 /\ status[x] \in Waiting
                 /\ x = r => attempts[r] + 1 < Budget(r),
             \A x \in Rows : status'[x] = "skipped" => status[x] = "skipped"
      PROVE  BudgetInv'
  <2>1. \A x \in Rows : attempts'[x] = IF x = r THEN attempts[x] + 1 ELSE attempts[x]
    BY <1>1, <1>7 DEF Claimable, TypeOK
  <2>2. \A x \in Rows : attempts[x] \in Nat /\ Budget(x) \in Nat
    BY <1>1, BudgetFacts DEF TypeOK
  <2>3. AttemptsBounded'
    BY <1>1, <1>3, <2>1, <2>2 DEF AttemptsBounded, Budget
  <2>4. SpareAttempt'
    BY <1>1, <1>2, <1>7, <2>1 DEF SpareAttempt, Launchable, Budget
  <2>5. SkippedOutside'
    BY <1>1, <1>2, <1>7 DEF SkippedOutside
  <2> QED
    BY <2>3, <2>4, <2>5 DEF BudgetInv
<1>8. CASE LaunchOk(r)
  <2>1. /\ \A x \in Rows : status'[x] = IF x = r THEN "running" ELSE status[x]
        /\ Claimable(r) /\ reason' = reason
    BY <1>1, <1>8 DEF LaunchOk, TypeOK
  <2> QED
    BY <1>7, <2>1 DEF Waiting
<1>9. CASE LaunchFails(r)
  <2>1. Claimable(r) /\ reason' = reason /\ status[r] = "ready"
    BY <1>9 DEF LaunchFails, Claimable
  <2>2. CASE attempts[r] + 1 >= MaxAttempts
    <3>1. status' = FailAndBlock(r)
      BY <1>9, <2>2 DEF LaunchFails
    <3>2. FailAndBlock(r)[r] = "failed"
      BY DEF FailAndBlock
    <3> QED
      BY <1>1, <1>7, <2>1, <3>1, <3>2, FailAndBlockWaiting, FailAndBlockSkipped DEF Waiting
  <2>3. CASE ~ (attempts[r] + 1 >= MaxAttempts)
    <3>1. status' = status
      BY <1>9, <2>3 DEF LaunchFails
    <3>2. attempts[r] + 1 < Budget(r)
      BY <1>1, <2>3, BudgetFacts, StageRunsAssumption DEF TypeOK
    <3> QED
      BY <1>7, <2>1, <3>1, <3>2
  <2> QED
    BY <2>2, <2>3
<1> QED
    BY <1>4, <1>5, <1>6, <1>8, <1>9 DEF LaunchRow

\* A requeue looks at the counter first: the row it returns to the queue still
\* has an attempt within the limit it was given.
LEMMA RequeueWaiting ==
    ASSUME TypeOK, NEW r \in Rows, NEW x \in Rows, NEW budget \in Nat,
           requeue_or_fail(r, budget), budget <= Budget(r), SpareAttempt
    PROVE  /\ status'[x] \in Waiting => attempts[x] < Budget(x)
           /\ status'[x] = "skipped" => status[x] = "skipped"
<1>1. CASE attempts[r] >= budget
    BY <1>1, FailAndBlockWaiting, FailAndBlockSkipped
       DEF requeue_or_fail, GiveUp, SpareAttempt, Launchable
<1>2. CASE ~ (attempts[r] >= budget)
  <2>1. status' = [status EXCEPT ![r] = "ready"]
    BY <1>2 DEF requeue_or_fail, Requeue
  <2>2. attempts[r] < Budget(r)
    BY <1>2, BudgetFacts DEF TypeOK
  <2> QED
    BY <2>1, <2>2 DEF SpareAttempt, Launchable, TypeOK
<1> QED
    BY <1>1, <1>2

LEMMA ReconcileBudget ==
    ASSUME BudgetInv, NEW r \in Rows, ReconcileRow(r), TypeOK'
    PROVE  BudgetInv'
<1>1. TypeOK /\ AttemptsBounded /\ SpareAttempt /\ SkippedOutside
    BY DEF BudgetInv
<1>2. Reconciling(r)
    BY DEF ReconcileRow, KeepRunning, Finalize, RequeueLost, RequeueStale, RequeueEvicted,
           FailUnseen
<1>3. /\ phase' = "reconcile" /\ attempts' = attempts /\ reason' = reason
      /\ active' = active
    BY <1>2 DEF Reconciling, Visit, run
<1> SUFFICES ASSUME NEW x \in Rows
             PROVE  /\ status'[x] \in Waiting => attempts[x] < Budget(x)
                    /\ status'[x] = "skipped" => status[x] = "skipped"
    BY <1>1, <1>3, KeepsBudget DEF SkippedOutside
<1>4. status[x] \in Waiting => attempts[x] < Budget(x)
    BY <1>1 DEF SpareAttempt, Launchable
<1>5. CASE status' = status
    BY <1>4, <1>5
<1>6. CASE status' = FailAndBlock(r)
    BY <1>1, <1>4, <1>6, FailAndBlockWaiting, FailAndBlockSkipped
<1>7. CASE \E e \in {"success", "canceled"} : status' = [status EXCEPT ![r] = e]
    BY <1>1, <1>4, <1>7 DEF TypeOK, Waiting
<1>8. ASSUME NEW budget \in Nat, requeue_or_fail(r, budget), budget <= Budget(r)
      PROVE  /\ status'[x] \in Waiting => attempts[x] < Budget(x)
             /\ status'[x] = "skipped" => status[x] = "skipped"
    BY <1>1, <1>8, RequeueWaiting
<1>9. MaxAttempts \in Nat /\ MaxEvictions \in Nat
    BY StageRunsAssumption
<1>10. CASE RequeueLost(r) \/ RequeueStale(r)
    BY <1>8, <1>9, <1>10 DEF RequeueLost, RequeueStale, Budget
<1>11. CASE RequeueEvicted(r)
    BY <1>8, <1>9, <1>11 DEF RequeueEvicted, Budget
<1> QED
    BY <1>5, <1>6, <1>7, <1>10, <1>11
       DEF ReconcileRow, KeepRunning, Finalize, FailUnseen


LEMMA VerdictWaiting ==
    ASSUME BudgetInv, NEW r \in Rows, NEW verdict, ApplyVerdict(r, verdict), NEW x \in Rows
    PROVE  /\ status'[x] \in Waiting => status[x] \in Waiting
           /\ status'[x] = "skipped" /\ reason'[x] = "not_selected" => x[2] \notin active
<1>1. TypeOK /\ SkippedOutside
    BY DEF BudgetInv
<1>2. CASE status' = status /\ reason' = reason
    BY <1>1, <1>2 DEF SkippedOutside
<1>3. CASE /\ status' = [status EXCEPT ![r] = "skipped"]
           /\ reason' = [reason EXCEPT ![r] = "artifacts"]
    BY <1>1, <1>3 DEF SkippedOutside, TypeOK, Waiting
<1>4. CASE status' = FailAndBlock(r) /\ reason' = reason
    BY <1>1, <1>4, FailAndBlockWaiting, FailAndBlockSkipped DEF SkippedOutside
<1> QED
    BY <1>2, <1>3, <1>4 DEF ApplyVerdict

LEMMA VerifyBudget ==
    ASSUME BudgetInv, NEW r \in Rows, VerifyRow(r), TypeOK'
    PROVE  BudgetInv'
<1>1. TypeOK /\ AttemptsBounded /\ SpareAttempt /\ SkippedOutside
    BY DEF BudgetInv
<1>2. /\ phase' \in {"drain", "verify"} /\ attempts' = attempts /\ active' = active
    BY DEF VerifyRow, ApplyScan, VerifyFast, VerifyScheduled, Visit, run, ledger
<1>3. \/ status' = status /\ reason' = reason
      \/ \E verdict : ApplyVerdict(r, verdict)
    BY DEF VerifyRow, ApplyScan, VerifyFast, VerifyScheduled, ledger
<1> SUFFICES ASSUME NEW x \in Rows
             PROVE  /\ status'[x] \in Waiting => status[x] \in Waiting
                    /\ status'[x] = "skipped" /\ reason'[x] = "not_selected"
                       => x[2] \notin active
    BY <1>1, <1>2, KeepsBudget DEF SpareAttempt, Launchable
<1> QED
    BY <1>1, <1>3, VerdictWaiting DEF SkippedOutside

\* Promotion reopens only rows that were waiting, and skips none.
LEMMA PromoteWaiting ==
    ASSUME NEW st, NEW ck, NEW x \in Rows
    PROVE  /\ promote_stages(st, ck)[x] \in Waiting => st[x] \in Waiting
           /\ promote_stages(st, ck)[x] = "skipped" => st[x] = "skipped"
BY DEF promote_stages, Waiting

\* Nor does the normalisation: the only rows apply_not_selected_skips reopens
\* would be not_selected skips inside the selection, and there are none.
LEMMA NormaliseWaiting ==
    ASSUME SkippedOutside, NEW x \in Rows,
           apply_not_selected_skips(status, reason, active)[x] \in Waiting
    PROVE  status[x] \in Waiting
BY DEF apply_not_selected_skips, SkippedOutside, Reselected, Waiting

LEMMA SupersededWaiting ==
    ASSUME NEW st, NEW x \in Rows
    PROVE  /\ apply_superseded_skips(st, active)[x] \in Waiting => st[x] \in Waiting
           /\ apply_superseded_skips(st, active)[x] = "skipped"
              => st[x] = "skipped" \/ x \in Superseded(st, active)
BY DEF apply_superseded_skips, Waiting

LEMMA RepairWaiting ==
    ASSUME NEW st, NEW x \in Rows
    PROVE  /\ repair_orphaned_pending_upstream(st)[x] \in Waiting => st[x] \in Waiting
           /\ repair_orphaned_pending_upstream(st)[x] = "skipped" => st[x] = "skipped"
BY DEF repair_orphaned_pending_upstream, Waiting

LEMMA EndVerifyBudget ==
    ASSUME BudgetInv, EndVerify, TypeOK'
    PROVE  BudgetInv'
<1> DEFINE hits == Superseded(status, active)
           ck == [r \in Rows |-> IF r \in hits THEN "none" ELSE check[r]]
           trimmed == apply_superseded_skips(status, active)
           next == promote_stages(trimmed, ck)
<1>1. TypeOK /\ AttemptsBounded /\ SpareAttempt /\ SkippedOutside
    BY DEF BudgetInv
<1>2. /\ status' = next /\ attempts' = attempts /\ active' = active
      /\ todo' = ForceLaunchable(next)
      /\ \A x \in Rows : reason'[x] = IF x \in hits THEN "superseded" ELSE reason[x]
    BY DEF EndVerify, Enter, run
<1>3. ASSUME NEW x \in Rows, next[x] \in Waiting PROVE attempts[x] < Budget(x)
  <2>1. status[x] \in Waiting
    BY <1>3, PromoteWaiting, SupersededWaiting
  <2> QED
    BY <1>1, <2>1 DEF SpareAttempt, Launchable
<1>4. ASSUME NEW x \in Rows, next[x] = "skipped", reason'[x] = "not_selected"
      PROVE  x[2] \notin active
  <2>1. status[x] = "skipped" \/ x \in hits
    BY <1>4, PromoteWaiting, SupersededWaiting
  <2> QED
    BY <1>1, <1>2, <1>4, <2>1 DEF SkippedOutside
<1>5. \A x \in Rows : x \in todo' => next[x] \in Waiting
    BY <1>2 DEF ForceLaunchable, Waiting
<1> HIDE DEF next, hits
<1> QED
    BY <1>2, <1>3, <1>4, <1>5, KeepsBudget

LEMMA EndReconcileBudget ==
    ASSUME BudgetInv, EndReconcile, TypeOK'
    PROVE  BudgetInv'
<1> DEFINE kept == apply_not_selected_skips(status, reason, active)
           trimmed == apply_superseded_skips(kept, active)
           repaired == repair_orphaned_pending_upstream(trimmed)
           trust == IF SkipVerify THEN Trusted(repaired) ELSE {}
           settled == [r \in Rows |-> IF r \in trust THEN "skipped" ELSE repaired[r]]
           skipped == NotSelected(status, reason, active) \cup Superseded(kept, active)
           reopened == Reselected(status, reason, active)
           ck == [r \in Rows |-> IF r \in skipped \cup reopened THEN "none" ELSE check[r]]
           next == IF SkipVerify THEN promote_stages(settled, ck) ELSE settled
<1>1. TypeOK /\ AttemptsBounded /\ SpareAttempt /\ SkippedOutside
    BY DEF BudgetInv
<1>2. /\ status' = next /\ attempts' = attempts /\ active' = active
      /\ IF SkipVerify THEN todo' = ForceLaunchable(next) ELSE phase' = "drain"
    BY DEF EndReconcile, Enter, run
<1>3. \A x \in Rows : reason'[x] =
          IF x \in trust THEN "trusted"
          ELSE IF x \in Superseded(kept, active) THEN "superseded"
          ELSE IF x \in NotSelected(status, reason, active) THEN "not_selected"
          ELSE IF x \in reopened THEN "none"
          ELSE reason[x]
    BY DEF EndReconcile
<1>4. ASSUME NEW x \in Rows
      PROVE  /\ next[x] \in Waiting => settled[x] \in Waiting
             /\ next[x] = "skipped" => settled[x] = "skipped"
    BY PromoteWaiting
<1>5. ASSUME NEW x \in Rows
      PROVE  /\ settled[x] \in Waiting => repaired[x] \in Waiting
             /\ settled[x] = "skipped" => x \in trust \/ repaired[x] = "skipped"
    BY DEF Waiting
<1>6. ASSUME NEW x \in Rows, next[x] \in Waiting PROVE attempts[x] < Budget(x)
  <2>1. repaired[x] \in Waiting
    BY <1>4, <1>5, <1>6
  <2>2. kept[x] \in Waiting
    BY <2>1, RepairWaiting, SupersededWaiting
  <2>3. status[x] \in Waiting
    BY <1>1, <2>2, NormaliseWaiting
  <2> QED
    BY <1>1, <2>3 DEF SpareAttempt, Launchable
<1>7. ASSUME NEW x \in Rows, next[x] = "skipped", reason'[x] = "not_selected"
      PROVE  x[2] \notin active
  <2>1. x \notin trust /\ x \notin Superseded(kept, active)
    BY <1>3, <1>7
  <2>2. kept[x] = "skipped"
    BY <1>4, <1>5, <1>7, <2>1, RepairWaiting, SupersededWaiting
  <2>3. CASE x \in NotSelected(status, reason, active)
    BY <2>3 DEF NotSelected
  <2>4. CASE x \notin NotSelected(status, reason, active)
    <3>1. status[x] = "skipped" /\ x \notin reopened
      BY <2>2, <2>4 DEF apply_not_selected_skips
    <3> QED
      BY <1>1, <1>3, <1>7, <2>1, <2>4, <3>1 DEF SkippedOutside
  <2> QED
    BY <2>3, <2>4
<1>8. phase' \in {"force", "override", "launch"} =>
          \A x \in Rows : x \in todo' => next[x] \in Waiting
    BY <1>2 DEF ForceLaunchable, Waiting
<1> HIDE DEF next, trust
<1> QED
    BY <1>2, <1>6, <1>7, <1>8, KeepsBudget

LEMMA SupervisorBudget ==
    ASSUME BudgetInv, Supervisor, TypeOK'
    PROVE  BudgetInv'
<1> USE DEF ledger, work, run, Enter
<1>1. TypeOK /\ AttemptsBounded /\ SpareAttempt /\ SkippedOutside
    BY DEF BudgetInv
<1>2. ASSUME status' = status, reason' = reason, attempts' = attempts, active' = active,
             phase' \in {"force", "override", "launch"} =>
                 \A x \in todo' : status[x] = "ready"
      PROVE  BudgetInv'
    BY <1>1, <1>2, KeepsBudget DEF SpareAttempt, Launchable, SkippedOutside, Waiting
<1>3. CASE BeginTick
    BY <1>2, <1>3 DEF BeginTick, ForceLaunchable
<1>4. CASE EndForce
    BY <1>2, <1>4 DEF EndForce
<1>5. CASE EndDrain
    BY <1>2, <1>5 DEF EndDrain
<1>6. CASE FillPools
    BY <1>2, <1>6 DEF FillPools
<1>7. CASE EndTick
    BY <1>2, <1>7 DEF EndTick
<1> QED
    BY <1>3, <1>4, <1>5, <1>6, <1>7, EndReconcileBudget, EndVerifyBudget,
       LaunchBudget, ReconcileBudget, VerifyBudget DEF Supervisor

LEMMA OthersBudget ==
    ASSUME BudgetInv, Environment \/ UNCHANGED vars, TypeOK'
    PROVE  BudgetInv'
<1>1. TypeOK /\ AttemptsBounded /\ SpareAttempt /\ SkippedOutside
    BY DEF BudgetInv
<1>2. /\ status' = status /\ reason' = reason /\ attempts' = attempts /\ active' = active
      /\ phase' = phase /\ todo' = todo
    BY DEF Environment, WorkerExits, OrphanExits, BackoffElapses, ScanFinishes, Outside,
           vars, ledger, run
<1> QED
    BY <1>1, <1>2, KeepsBudget DEF SpareAttempt, Launchable, SkippedOutside

\* A restart makes at most one row terminal.
LEMMA RestartRows ==
    ASSUME TypeOK, SupervisorRestarts
    PROVE  \/ status' = status
           \/ \E r \in todo : /\ phase = "reconcile"
                              /\ \E v \in {"success", "canceled", "failed"} :
                                     status' = [status EXCEPT ![r] = v]
BY DEF SupervisorRestarts, HalfFinalized

LEMMA RestartBudget ==
    ASSUME BudgetInv, SupervisorRestarts, TypeOK'
    PROVE  BudgetInv'
<1>1. TypeOK /\ AttemptsBounded /\ SpareAttempt /\ SkippedOutside
    BY DEF BudgetInv
<1>2. reason' = reason /\ attempts' = attempts /\ active' = active /\ phase' = "idle"
    BY DEF SupervisorRestarts, ledger, run
<1>3. ASSUME NEW x \in Rows
      PROVE  /\ status'[x] \in Waiting => status[x] \in Waiting
             /\ status'[x] = "skipped" => status[x] = "skipped"
    BY <1>1, RestartRows DEF TypeOK, Waiting
<1> QED
    BY <1>1, <1>2, <1>3, KeepsBudget DEF SpareAttempt, Launchable, SkippedOutside

LEMMA NextBudget == BudgetInv /\ [Next]_vars => BudgetInv'
<1> SUFFICES ASSUME BudgetInv, [Next]_vars PROVE BudgetInv'
    OBVIOUS
<1>1. TypeOK'
    BY NextType DEF BudgetInv
<1> QED
    BY <1>1, CommandBudget, SupervisorBudget, OthersBudget, RestartBudget DEF Next

\* Whatever fails, is requeued, retried or rerun, and however often the
\* supervisor restarts, no stage is launched more often than its budget allows
\* since its counter was last reset.
THEOREM AttemptsStayBounded == Spec => []AttemptsBounded
<1>1. BudgetInv => AttemptsBounded
    BY DEF BudgetInv
<1> QED
    BY <1>1, InitBudget, NextBudget, PTL DEF Spec

-----------------------------------------------------------------------------
(****************************************************************************)
(* Part 2.  The order of the DAG                                            *)
(*                                                                          *)
(* A running row's inputs stay settled, and what has succeeded is undone by *)
(* commands only. Both rest on one observation about steps: only a command  *)
(* unsettles a row. For that, the rows a loop of the tick has still to      *)
(* visit must be what they were when the loop was entered.                  *)
(****************************************************************************)
\* Rows picked for launching still wait, rows picked for reconciling still run.
VisitedOpen ==
    \A r \in todo :
        /\ phase \in {"force", "override", "launch"} => status[r] \in Waiting
        /\ phase = "reconcile" => status[r] = "running"

\* What the configuration skips stays skipped, since retries leave it out.
ConfigIsSkipped == \A r \in Rows : reason[r] = "config" => status[r] = "skipped"

TickInv == BudgetInv /\ VisitedOpen

OrderInv == TickInv /\ RunningHasInputs /\ ConfigIsSkipped

SettledStays ==
    \A x \in Rows : status[x] \in SatisfiedStatuses => status'[x] = status[x]

\* A launch loop has picked the row, and nothing has changed its mind since.
MayStart(x) ==
    /\ phase \in {"force", "override", "launch"}
    /\ x \in todo
    /\ deps_satisfied(status, x)

StartsInOrder ==
    \A x \in Rows : status'[x] = "running" => status[x] = "running" \/ MayStart(x)

ConfigStays == \A x \in Rows : reason'[x] = "config" => reason[x] = "config"

Orderly == SettledStays /\ StartsInOrder /\ ConfigStays

(****************************************************************************)
(* The DAG                                                                  *)
(****************************************************************************)
LEMMA RowOfInput ==
    ASSUME NEW x \in Rows, NEW d \in EffectiveDeps[x[2]]
    PROVE  /\ x[1] \in Targets /\ x[2] \in Stages /\ d \in Stages
           /\ <<x[1], d>> \in Rows
           /\ x[2] \in downstream_stages[d]
BY StagesAssumption, EffectiveDepsAssumption DEF Rows

LEMMA DownstreamIsTransitive ==
    ASSUME NEW s \in Stages, NEW t \in downstream_stages[s], NEW u \in downstream_stages[t]
    PROVE  u \in downstream_stages[s]
<1>1. t \in Stages /\ u \in Stages
    BY DEF downstream_stages
<1>2. ASSUME NEW S \in SUBSET Stages, DownstreamOf(S \cup {s}) \subseteq S
      PROVE  u \in S
  <2>1. t \in S
    BY <1>2 DEF downstream_stages
  <2>2. DownstreamOf(S \cup {t}) \subseteq S
    BY <1>2, <2>1 DEF DownstreamOf
  <2> QED
    BY <1>1, <2>2 DEF downstream_stages
<1> QED
    BY <1>1, <1>2 DEF downstream_stages

\* A row that waits for a row of a retried cone belongs to the cone itself.
LEMMA ConeIsClosed ==
    ASSUME NEW r \in Rows, NEW x \in Rows, NEW d \in EffectiveDeps[x[2]],
           <<x[1], d>> \in RetryCone(r, TRUE), reason[x] # "config"
    PROVE  x \in RetryCone(r, TRUE)
<1>1. x = <<x[1], x[2]>> /\ r = <<r[1], r[2]>> /\ r[2] \in Stages
    BY DEF Rows
<1>2. x[1] \in Targets /\ x[2] \in Stages /\ x[2] \in downstream_stages[d]
    BY RowOfInput
<1>3. CASE <<x[1], d>> = r
    BY <1>1, <1>2, <1>3 DEF RetryCone, DownstreamRows, RowsOf
<1>4. CASE <<x[1], d>> \in DownstreamRows(r)
  <2>1. x[1] = r[1] /\ d \in downstream_stages[r[2]]
    BY <1>4 DEF DownstreamRows, RowsOf
  <2>2. x[2] \in downstream_stages[r[2]]
    BY <1>1, <1>2, <2>1, DownstreamIsTransitive
  <2> QED
    BY <1>1, <2>1, <2>2 DEF RetryCone, DownstreamRows, RowsOf
<1> QED
    BY <1>3, <1>4 DEF RetryCone

(****************************************************************************)
(* Orderly steps keep the invariant.                                        *)
(****************************************************************************)
LEMMA KeepsOrder ==
    ASSUME OrderInv, BudgetInv', Orderly, VisitedOpen'
    PROVE  OrderInv'
<1>1. ASSUME NEW x \in Rows, status'[x] = "running", NEW d \in EffectiveDeps[x[2]]
      PROVE  status'[<<x[1], d>>] \in SatisfiedStatuses
  <2>1. <<x[1], d>> \in Rows
    BY RowOfInput
  <2>2. status[<<x[1], d>>] \in SatisfiedStatuses
    BY <1>1 DEF OrderInv, RunningHasInputs, Orderly, StartsInOrder, MayStart, deps_satisfied
  <2> QED
    BY <2>1, <2>2 DEF Orderly, SettledStays
<1>2. RunningHasInputs'
    BY <1>1 DEF RunningHasInputs
<1>3. ConfigIsSkipped'
    BY DEF OrderInv, ConfigIsSkipped, Orderly, ConfigStays, SettledStays, SatisfiedStatuses
<1> QED
    BY <1>2, <1>3 DEF OrderInv, TickInv

\* FailAndBlock rewrites one row that is not settled and rows that only wait.
LEMMA FailAndBlockOrderly ==
    ASSUME TypeOK, NEW r \in Rows, status[r] \notin SatisfiedStatuses,
           status' = FailAndBlock(r), reason' = reason
    PROVE  Orderly
BY DEF FailAndBlock, Orderly, SettledStays, StartsInOrder, ConfigStays,
       SatisfiedStatuses

\* So does a step that rewrites one unsettled row and does not start it.
LEMMA OneRowOrderly ==
    ASSUME TypeOK, NEW r \in Rows, status[r] \notin SatisfiedStatuses, NEW v,
           status' = [status EXCEPT ![r] = v],
           v = "running" => MayStart(r),
           \A x \in Rows : reason'[x] \in {reason[x], "artifacts"}
    PROVE  Orderly
BY DEF TypeOK, Orderly, SettledStays, StartsInOrder, ConfigStays

LEMMA SameRowsOrderly ==
    ASSUME status' = status, reason' = reason
    PROVE  Orderly
BY DEF Orderly, SettledStays, StartsInOrder, ConfigStays

(****************************************************************************)
(* The supervisor                                                           *)
(****************************************************************************)
LEMMA LaunchOrder ==
    ASSUME TickInv, NEW r \in Rows, LaunchRow(r)
    PROVE  Orderly /\ VisitedOpen'
<1> USE DEF Visit, Launching
<1>1. TypeOK /\ VisitedOpen
    BY DEF TickInv, BudgetInv
<1>2. /\ phase \in {"force", "override", "launch"} /\ r \in todo
      /\ phase' = phase /\ todo' = todo \ {r}
    BY DEF LaunchRow, LaunchRefused, LaunchDemoted, LaunchSkipped, LaunchOk, LaunchFails,
           Claimable
<1>3. status[r] \in Waiting /\ status[r] \notin SatisfiedStatuses
    BY <1>1, <1>2 DEF VisitedOpen, Waiting, SatisfiedStatuses
<1>4. ASSUME \A x \in Rows : x # r /\ status[x] \in Waiting => status'[x] \in Waiting
      PROVE  VisitedOpen'
    BY <1>1, <1>2, <1>4 DEF VisitedOpen, TypeOK
<1>5. CASE LaunchRefused(r) \/ (LaunchFails(r) /\ status' = status)
  <2>1. status' = status /\ reason' = reason
    BY <1>5 DEF LaunchRefused, LaunchFails, ledger
  <2> QED
    BY <1>4, <2>1, SameRowsOrderly
<1>6. CASE LaunchFails(r) /\ status' = FailAndBlock(r)
  <2>1. reason' = reason
    BY <1>6 DEF LaunchFails
  <2>2. \A x \in Rows : x # r /\ status[x] \in Waiting => status'[x] \in Waiting
    BY <1>6 DEF FailAndBlock, Waiting
  <2> QED
    BY <1>1, <1>3, <1>4, <1>6, <2>1, <2>2, FailAndBlockOrderly
<1>7. ASSUME NEW v, status' = [status EXCEPT ![r] = v],
             v = "running" => MayStart(r),
             \A x \in Rows : reason'[x] \in {reason[x], "artifacts"}
      PROVE  Orderly /\ VisitedOpen'
  <2>1. \A x \in Rows : x # r /\ status[x] \in Waiting => status'[x] \in Waiting
    BY <1>1, <1>7 DEF TypeOK
  <2> QED
    BY <1>1, <1>3, <1>4, <1>7, <2>1, OneRowOrderly
<1>8. CASE LaunchDemoted(r)
    BY <1>7, <1>8 DEF LaunchDemoted, ledger
<1>9. CASE LaunchSkipped(r)
  <2>1. \A x \in Rows : reason'[x] \in {reason[x], "artifacts"}
    BY <1>1, <1>9 DEF LaunchSkipped, TypeOK
  <2> QED
    BY <1>7, <1>9, <2>1 DEF LaunchSkipped
<1>10. CASE LaunchOk(r)
    BY <1>2, <1>7, <1>10 DEF LaunchOk, Claimable, MayStart
<1> QED
    BY <1>5, <1>6, <1>8, <1>9, <1>10 DEF LaunchRow, LaunchFails

LEMMA ReconcileOrder ==
    ASSUME TickInv, NEW r \in Rows, ReconcileRow(r)
    PROVE  Orderly /\ VisitedOpen'
<1>1. TypeOK /\ VisitedOpen
    BY DEF TickInv, BudgetInv
<1>2. Reconciling(r)
    BY DEF ReconcileRow, KeepRunning, Finalize, RequeueLost, RequeueStale, RequeueEvicted,
           FailUnseen
<1>3. /\ phase = "reconcile" /\ phase' = "reconcile" /\ r \in todo /\ todo' = todo \ {r}
      /\ reason' = reason
    BY <1>2 DEF Reconciling, Visit
<1>4. status[r] = "running"
    BY <1>1, <1>3 DEF VisitedOpen
<1>5. \/ status' = status
      \/ status' = FailAndBlock(r)
      \/ \E v \in {"success", "canceled", "ready"} : status' = [status EXCEPT ![r] = v]
    BY DEF ReconcileRow, KeepRunning, Finalize, RequeueLost, RequeueStale, RequeueEvicted,
           FailUnseen, requeue_or_fail, GiveUp, Requeue
<1>6. Orderly
    BY <1>1, <1>3, <1>4, <1>5, SameRowsOrderly, FailAndBlockOrderly, OneRowOrderly
       DEF SatisfiedStatuses
<1>7. \A x \in Rows : x # r /\ status[x] = "running" => status'[x] = "running"
    BY <1>1, <1>5 DEF FailAndBlock, TypeOK
<1> QED
    BY <1>1, <1>3, <1>6, <1>7 DEF VisitedOpen, TypeOK

LEMMA VerifyOrder ==
    ASSUME TickInv, NEW r \in Rows, VerifyRow(r)
    PROVE  Orderly /\ VisitedOpen'
<1>1. TypeOK
    BY DEF TickInv, BudgetInv
<1>2. phase' \in {"drain", "verify"}
    BY DEF VerifyRow, ApplyScan, VerifyFast, VerifyScheduled, Visit
<1>3. VisitedOpen'
    BY <1>2 DEF VisitedOpen
<1>4. \/ status' = status /\ reason' = reason
      \/ \E verdict : ApplyVerdict(r, verdict)
    BY DEF VerifyRow, ApplyScan, VerifyFast, VerifyScheduled, ledger
<1>5. ASSUME NEW verdict, ApplyVerdict(r, verdict) PROVE Orderly
  <2>1. CASE status' = status /\ reason' = reason
    BY <2>1, SameRowsOrderly
  <2>2. CASE ~ (status' = status /\ reason' = reason)
    <3>1. status[r] \notin SatisfiedStatuses
      BY <1>5, <2>2 DEF ApplyVerdict, Applicable, SatisfiedStatuses
    <3>2. CASE status' = FailAndBlock(r) /\ reason' = reason
      BY <1>1, <3>1, <3>2, FailAndBlockOrderly
    <3>3. CASE /\ status' = [status EXCEPT ![r] = "skipped"]
               /\ reason' = [reason EXCEPT ![r] = "artifacts"]
      <4>1. \A x \in Rows : reason'[x] \in {reason[x], "artifacts"}
        BY <1>1, <3>3 DEF TypeOK
      <4> QED
        BY <1>1, <3>1, <3>3, <4>1, OneRowOrderly
    <3> QED
      BY <1>5, <2>2, <3>2, <3>3 DEF ApplyVerdict
  <2> QED
    BY <2>1, <2>2
<1> QED
    BY <1>3, <1>4, <1>5, SameRowsOrderly

\* Promotion, and the other bulk updates, leave settled rows alone and start
\* none.
LEMMA PromoteOrder ==
    ASSUME NEW st, NEW ck, NEW x \in Rows
    PROVE  /\ st[x] \in SatisfiedStatuses => promote_stages(st, ck)[x] = st[x]
           /\ promote_stages(st, ck)[x] = "running" => st[x] = "running"
BY DEF promote_stages, SatisfiedStatuses

LEMMA SupersededOrder ==
    ASSUME NEW st, NEW x \in Rows
    PROVE  /\ st[x] \in SatisfiedStatuses => apply_superseded_skips(st, active)[x] = st[x]
           /\ apply_superseded_skips(st, active)[x] = "running" => st[x] = "running"
BY DEF apply_superseded_skips, Superseded, SatisfiedStatuses

LEMMA RepairOrder ==
    ASSUME NEW st, NEW x \in Rows
    PROVE  /\ st[x] \in SatisfiedStatuses => repair_orphaned_pending_upstream(st)[x] = st[x]
           /\ repair_orphaned_pending_upstream(st)[x] = "running" => st[x] = "running"
BY DEF repair_orphaned_pending_upstream, SatisfiedStatuses

\* The rows apply_not_selected_skips would reopen do not exist.
LEMMA NormaliseOrder ==
    ASSUME SkippedOutside, NEW x \in Rows
    PROVE  LET kept == apply_not_selected_skips(status, reason, active)
           IN  /\ status[x] \in SatisfiedStatuses => kept[x] = status[x]
               /\ kept[x] = "running" => status[x] = "running"
BY DEF apply_not_selected_skips, NotSelected, Reselected, SkippedOutside, SatisfiedStatuses

LEMMA EndVerifyOrder ==
    ASSUME TickInv, EndVerify
    PROVE  Orderly /\ VisitedOpen'
<1> DEFINE hits == Superseded(status, active)
           ck == [r \in Rows |-> IF r \in hits THEN "none" ELSE check[r]]
           trimmed == apply_superseded_skips(status, active)
           next == promote_stages(trimmed, ck)
<1>1. /\ status' = next
      /\ phase' = "override" /\ todo' = ForceLaunchable(next)
      /\ reason' = [r \in Rows |-> IF r \in hits THEN "superseded" ELSE reason[r]]
    BY DEF EndVerify, Enter
<1>2. \A x \in Rows : /\ status[x] \in SatisfiedStatuses => next[x] = status[x]
                      /\ next[x] = "running" => status[x] = "running"
    BY PromoteOrder, SupersededOrder
<1>3. ConfigStays
    BY <1>1 DEF ConfigStays
<1>4. VisitedOpen'
    BY <1>1 DEF VisitedOpen, ForceLaunchable, Waiting
<1> HIDE DEF next
<1> QED
    BY <1>1, <1>2, <1>3, <1>4 DEF Orderly, SettledStays, StartsInOrder

LEMMA EndReconcileOrder ==
    ASSUME TickInv, EndReconcile
    PROVE  Orderly /\ VisitedOpen'
<1> DEFINE kept == apply_not_selected_skips(status, reason, active)
           trimmed == apply_superseded_skips(kept, active)
           repaired == repair_orphaned_pending_upstream(trimmed)
           trust == IF SkipVerify THEN Trusted(repaired) ELSE {}
           settled == [r \in Rows |-> IF r \in trust THEN "skipped" ELSE repaired[r]]
           skipped == NotSelected(status, reason, active) \cup Superseded(kept, active)
           reopened == Reselected(status, reason, active)
           ck == [r \in Rows |-> IF r \in skipped \cup reopened THEN "none" ELSE check[r]]
           next == IF SkipVerify THEN promote_stages(settled, ck) ELSE settled
<1>1. SkippedOutside
    BY DEF TickInv, BudgetInv
<1>2. /\ status' = next
      /\ IF SkipVerify THEN phase' = "override" /\ todo' = ForceLaunchable(next)
         ELSE phase' = "drain"
    BY DEF EndReconcile, Enter
<1>3. \A x \in Rows : reason'[x] \in {reason[x], "trusted", "superseded", "not_selected", "none"}
    BY DEF EndReconcile
<1>4. ASSUME NEW x \in Rows
      PROVE  /\ status[x] \in SatisfiedStatuses => repaired[x] = status[x]
             /\ repaired[x] = "running" => status[x] = "running"
    BY <1>1, NormaliseOrder, SupersededOrder, RepairOrder
<1>5. ASSUME NEW x \in Rows
      PROVE  /\ repaired[x] \in SatisfiedStatuses => settled[x] = repaired[x]
             /\ settled[x] = "running" => repaired[x] = "running"
    BY DEF Trusted, SatisfiedStatuses
<1>6. ASSUME NEW x \in Rows
      PROVE  /\ settled[x] \in SatisfiedStatuses => next[x] = settled[x]
             /\ next[x] = "running" => settled[x] = "running"
    BY PromoteOrder
<1>7. \A x \in Rows : /\ status[x] \in SatisfiedStatuses => next[x] = status[x]
                      /\ next[x] = "running" => status[x] = "running"
  <2> HIDE DEF next, settled, repaired
  <2> QED
    BY <1>4, <1>5, <1>6
<1>8. ConfigStays
    BY <1>3 DEF ConfigStays
<1>9. VisitedOpen'
    BY <1>2 DEF VisitedOpen, ForceLaunchable, Waiting
<1> HIDE DEF next
<1> QED
    BY <1>2, <1>7, <1>8, <1>9 DEF Orderly, SettledStays, StartsInOrder

\* No step of the supervisor unsettles a row, or starts one whose inputs are not
\* settled.
LEMMA SupervisorOrder ==
    ASSUME TickInv, Supervisor
    PROVE  Orderly /\ VisitedOpen'
<1>1. ASSUME status' = status, reason' = reason,
             /\ phase' \in {"force", "override", "launch"} =>
                    \A x \in todo' : status[x] = "ready"
             /\ phase' = "reconcile" => \A x \in todo' : status[x] = "running"
      PROVE  Orderly /\ VisitedOpen'
    BY <1>1, SameRowsOrderly DEF VisitedOpen, Waiting
<1> USE DEF Enter, ledger
<1>2. CASE BeginTick
    BY <1>1, <1>2 DEF BeginTick, ForceLaunchable
<1>3. CASE EndForce
    BY <1>1, <1>3 DEF EndForce, running_stage_runs
<1>4. CASE EndDrain
    BY <1>1, <1>4 DEF EndDrain
<1>5. CASE FillPools
    BY <1>1, <1>5 DEF FillPools
<1>6. CASE EndTick
    BY <1>1, <1>6 DEF EndTick
<1> QED
    BY <1>2, <1>3, <1>4, <1>5, <1>6, EndReconcileOrder, EndVerifyOrder, LaunchOrder,
       ReconcileOrder, VerifyOrder DEF Supervisor

LEMMA RestartOrder ==
    ASSUME TickInv, SupervisorRestarts
    PROVE  Orderly /\ VisitedOpen'
<1>1. TypeOK /\ VisitedOpen
    BY DEF TickInv, BudgetInv
<1>2. reason' = reason /\ phase' = "idle"
    BY DEF SupervisorRestarts, ledger
<1>3. ASSUME status' = status PROVE Orderly
    BY <1>2, <1>3, SameRowsOrderly
<1>4. ASSUME NEW r \in todo, phase = "reconcile",
             NEW v \in {"success", "canceled", "failed"}, status' = [status EXCEPT ![r] = v]
      PROVE  Orderly
  <2>1. r \in Rows /\ status[r] = "running"
    BY <1>1, <1>4 DEF TypeOK, VisitedOpen
  <2> QED
    BY <1>1, <1>2, <1>4, <2>1, OneRowOrderly DEF SatisfiedStatuses
<1>5. Orderly
    BY <1>1, <1>3, <1>4, RestartRows
<1> QED
    BY <1>2, <1>5 DEF VisitedOpen

LEMMA OthersOrder ==
    ASSUME TickInv, Environment \/ SupervisorRestarts \/ UNCHANGED vars
    PROVE  Orderly /\ VisitedOpen'
<1>1. CASE SupervisorRestarts
    BY <1>1, RestartOrder
<1>2. CASE Environment \/ UNCHANGED vars
  <2>1. status' = status /\ reason' = reason /\ phase' = phase /\ todo' = todo
    BY <1>2 DEF Environment, WorkerExits, OrphanExits, BackoffElapses, ScanFinishes, Outside,
                vars, ledger
  <2> QED
    BY <2>1, SameRowsOrderly DEF TickInv, VisitedOpen
<1> QED
    BY <1>1, <1>2

LEMMA InitTick == Init => TickInv
<1> SUFFICES ASSUME Init PROVE VisitedOpen
    BY InitBudget DEF TickInv
<1> QED
    BY DEF Init, VisitedOpen

LEMMA CommandIdle ==
    ASSUME Operator
    PROVE  phase = "idle" /\ phase' = "idle"
BY DEF Operator, Cancel, Pause, Resume, SetPaused, RetryRun, ForceLaunch, RetryStage,
       ForceRerun, Command

LEMMA NextTick == TickInv /\ [Next]_vars => TickInv'
<1> SUFFICES ASSUME TickInv, [Next]_vars PROVE TickInv'
    OBVIOUS
<1>1. BudgetInv'
    BY NextBudget DEF TickInv
<1>2. VisitedOpen'
  <2>1. CASE Operator
    BY <2>1, CommandIdle DEF VisitedOpen
  <2> QED
    BY <2>1, SupervisorOrder, OthersOrder DEF Next
<1> QED
    BY <1>1, <1>2 DEF TickInv

\* Blocking what is behind a failure, requeues, late verdicts and the bulk skips
\* all leave finished rows alone: a success is undone by a command or not at all.
THEOREM SuccessStays == Spec => SuccessIsKept
<1>1. ASSUME TickInv, [Next]_vars, NEW r \in Rows,
             status[r] = "success", status'[r] # "success"
      PROVE  phase = "idle"
  <2>1. CASE Operator
    BY <2>1, CommandIdle
  <2>2. CASE Orderly
    BY <1>1, <2>2 DEF Orderly, SettledStays, SatisfiedStatuses
  <2> QED
    BY <1>1, <2>1, <2>2, SupervisorOrder, OthersOrder DEF Next
<1>2. TickInv /\ [Next]_vars =>
        [\A r \in Rows : status[r] = "success" /\ status'[r] # "success" => phase = "idle"]_vars
    BY <1>1
<1> QED
    BY <1>2, InitTick, NextTick, PTL DEF Spec, SuccessIsKept

(****************************************************************************)
(* Commands unsettle rows, and have to take along the rows behind them.     *)
(****************************************************************************)
\* Retries reset what is downstream, and a rerun selects it.
CommandsTakeDependents ==
    /\ "retry_alone" \notin Commands
    /\ \A S \in RerunSelections : \A s \in S : downstream_stages[s] \subseteq S

LEMMA ResetOrder ==
    ASSUME OrderInv, NEW R, reset_stage_for_retry(R),
           \A x \in R : reason[x] # "config",
           \A x \in Rows : \A d \in EffectiveDeps[x[2]] :
               <<x[1], d>> \in R /\ reason[x] # "config" => x \in R
    PROVE  RunningHasInputs' /\ ConfigIsSkipped'
<1>1. /\ \A x \in Rows : x \in R => status'[x] \in {"pending", "external"} /\ reason'[x] = "none"
      /\ \A x \in Rows : x \notin R => status'[x] = status[x] /\ reason'[x] = reason[x]
    BY DEF reset_stage_for_retry
<1>2. ASSUME NEW x \in Rows, status'[x] = "running", NEW d \in EffectiveDeps[x[2]]
      PROVE  status'[<<x[1], d>>] \in SatisfiedStatuses
  <2>1. x \notin R /\ status[x] = "running"
    BY <1>1, <1>2
  <2>2. reason[x] # "config"
    BY <2>1 DEF OrderInv, ConfigIsSkipped
  <2>3. <<x[1], d>> \notin R
    BY <2>1, <2>2
  <2> QED
    BY <1>1, <2>1, <2>3, RowOfInput DEF OrderInv, RunningHasInputs
<1>3. RunningHasInputs'
    BY <1>2 DEF RunningHasInputs
<1>4. ConfigIsSkipped'
    BY <1>1 DEF OrderInv, ConfigIsSkipped
<1> QED
    BY <1>3, <1>4

LEMMA CommandOrder ==
    ASSUME OrderInv, CommandsTakeDependents, Operator
    PROVE  RunningHasInputs' /\ ConfigIsSkipped'
<1>1. TypeOK /\ RunningHasInputs /\ ConfigIsSkipped
    BY DEF OrderInv, TickInv, BudgetInv
<1>2. ASSUME status' = status, reason' = reason
      PROVE  RunningHasInputs' /\ ConfigIsSkipped'
    BY <1>1, <1>2 DEF RunningHasInputs, ConfigIsSkipped
<1>3. CASE Cancel
  <2>1. /\ \A x \in Rows : status'[x] = IF status[x] \in NonterminalStatuses THEN "canceled"
                                         ELSE status[x]
        /\ reason' = reason
    BY <1>3 DEF Cancel, ledger
  <2>2. RunningHasInputs'
    BY <1>1, <2>1, RowOfInput DEF RunningHasInputs, NonterminalStatuses, SatisfiedStatuses
  <2>3. ConfigIsSkipped'
    BY <1>1, <2>1 DEF ConfigIsSkipped, NonterminalStatuses
  <2> QED
    BY <2>2, <2>3
<1>4. ASSUME NEW r \in Rows, NEW down \in BOOLEAN, RetryStage(r, down)
      PROVE  RunningHasInputs' /\ ConfigIsSkipped'
  <2>1. down = TRUE
    BY <1>4 DEF RetryStage, Command, CommandsTakeDependents
  <2>2. CASE status[r] = "running"
    <3>1. /\ \A x \in Rows : status'[x] = IF x = r THEN "ready" ELSE status[x]
          /\ reason' = reason
      BY <1>1, <1>4, <2>2 DEF RetryStage, TypeOK
    <3>2. RunningHasInputs'
      BY <1>1, <2>2, <3>1, RowOfInput DEF RunningHasInputs, SatisfiedStatuses
    <3>3. ConfigIsSkipped'
      BY <1>1, <2>2, <3>1 DEF ConfigIsSkipped
    <3> QED
      BY <3>2, <3>3
  <2>3. CASE status[r] # "running"
    <3>1. reset_stage_for_retry(RetryCone(r, TRUE))
      BY <1>4, <2>1, <2>3 DEF RetryStage
    <3>2. \A x \in RetryCone(r, TRUE) : reason[x] # "config"
      BY DEF RetryCone
    <3> QED
      BY <3>1, <3>2, ConeIsClosed, ResetOrder
  <2> QED
    BY <2>2, <2>3
<1>5. CASE RetryRun
  <2> DEFINE seeds == {r \in Rows : status[r] \in {"failed", "canceled", "blocked"}}
             R == UNION {RetryCone(r, TRUE) : r \in seeds}
  <2>1. reset_stage_for_retry(R)
    BY <1>5 DEF RetryRun
  <2>2. \A x \in R : reason[x] # "config"
    BY DEF RetryCone
  <2>3. ASSUME NEW x \in Rows, NEW d \in EffectiveDeps[x[2]], <<x[1], d>> \in R,
               reason[x] # "config"
        PROVE  x \in R
    <3>1. PICK r \in seeds : <<x[1], d>> \in RetryCone(r, TRUE)
      BY <2>3
    <3>2. x \in RetryCone(r, TRUE)
      BY <2>3, <3>1, ConeIsClosed
    <3> QED
      BY <3>1, <3>2
  <2> HIDE DEF R
  <2> QED
    BY <2>1, <2>2, <2>3, ResetOrder
<1>6. ASSUME NEW S \in RerunSelections, ForceRerun(S)
      PROVE  RunningHasInputs' /\ ConfigIsSkipped'
  <2>1. /\ \A x \in Rows : status'[x] = IF x[2] \in S THEN "pending" ELSE status[x]
        /\ \A x \in Rows : reason'[x] = IF x[2] \in S THEN "none" ELSE reason[x]
    BY <1>6 DEF ForceRerun, Rows
  <2>2. ASSUME NEW x \in Rows, status'[x] = "running", NEW d \in EffectiveDeps[x[2]]
        PROVE  status'[<<x[1], d>>] \in SatisfiedStatuses
    <3>1. x[2] \notin S /\ status[x] = "running"
      BY <2>1, <2>2
    <3>2. d \notin S
      BY <3>1, RowOfInput DEF CommandsTakeDependents
    <3> QED
      BY <1>1, <2>1, <3>1, <3>2, RowOfInput DEF RunningHasInputs
  <2>3. RunningHasInputs'
    BY <2>2 DEF RunningHasInputs
  <2>4. ConfigIsSkipped'
    BY <1>1, <2>1 DEF ConfigIsSkipped
  <2> QED
    BY <2>3, <2>4
<1> QED
    BY <1>2, <1>3, <1>4, <1>5, <1>6
       DEF Operator, Pause, Resume, SetPaused, ForceLaunch, ledger

LEMMA InitOrder == Init => OrderInv
<1> SUFFICES ASSUME Init PROVE RunningHasInputs /\ ConfigIsSkipped
    BY InitTick DEF OrderInv
<1>1. PICK setup \in RunSetups :
        LET act == setup.active
            made == Created(act)
            configured == [r \in Rows |-> IF r[2] \in PreSkipped THEN "config" ELSE "none"]
            kept == apply_not_selected_skips(made, configured, act)
        IN  /\ status = apply_superseded_skips(kept, act)
            /\ reason = [r \in Rows |->
                  IF r \in NotSelected(made, configured, act) THEN "not_selected"
                  ELSE IF r \in Superseded(kept, act) THEN "superseded"
                  ELSE configured[r]]
    BY DEF Init
<1> DEFINE act == setup.active
           made == Created(act)
           configured == [r \in Rows |-> IF r[2] \in PreSkipped THEN "config" ELSE "none"]
           kept == apply_not_selected_skips(made, configured, act)
<1>2. \A x \in Rows : made[x] # "running" /\ (x[2] \in PreSkipped => made[x] = "skipped")
    BY DEF Created
<1>3. \A x \in Rows : /\ kept[x] # "running"
                      /\ made[x] = "skipped" => kept[x] = "skipped"
    BY <1>2 DEF apply_not_selected_skips, Reselected
<1>4. \A x \in Rows : /\ status[x] # "running"
                      /\ kept[x] = "skipped" => status[x] = "skipped"
    BY <1>1, <1>3 DEF apply_superseded_skips
<1>5. \A x \in Rows : reason[x] = "config" => x[2] \in PreSkipped
    BY <1>1
<1> QED
    BY <1>2, <1>3, <1>4, <1>5 DEF RunningHasInputs, ConfigIsSkipped

LEMMA NextOrder ==
    ASSUME CommandsTakeDependents
    PROVE  OrderInv /\ [Next]_vars => OrderInv'
<1> SUFFICES ASSUME OrderInv, [Next]_vars PROVE OrderInv'
    OBVIOUS
<1>1. TickInv /\ TickInv'
    BY NextTick DEF OrderInv
<1>2. CASE Operator
    BY <1>1, <1>2, CommandOrder DEF OrderInv
<1>3. CASE ~ Operator
  <2>1. Orderly /\ VisitedOpen'
    BY <1>1, <1>3, SupervisorOrder, OthersOrder DEF Next
  <2> QED
    BY <1>1, <2>1, KeepsOrder DEF TickInv
<1> QED
    BY <1>2, <1>3

\* A row that runs has its inputs settled at every moment of its run, for every
\* DAG, as long as commands take the dependents of a row along: a retry without
\* its downstream, or a rerun of a selection that leaves dependents out, may
\* unsettle an input under a worker.
THEOREM InputsStaySettled ==
    ASSUME CommandsTakeDependents
    PROVE  Spec => []RunningHasInputs
<1>1. OrderInv => RunningHasInputs
    BY DEF OrderInv
<1> QED
    BY <1>1, InitOrder, NextOrder, PTL DEF Spec

-----------------------------------------------------------------------------
(****************************************************************************)
(* Part 3.  Workers and artifacts                                           *)
(*                                                                          *)
(* A run that is over is quiet, what a row claims is on disk, and no row    *)
(* has two workers. A row's worker, its status, the answer of its scan and  *)
(* the artifacts on disk are written by different actors at different       *)
(* times; the invariants tie them together.                                 *)
(****************************************************************************)
\* A worker that a row names and that is alive is that of a running row.
LiveRuns == \A r \in Rows : worker[r] = "live" => status[r] = "running"

\* A run that is over is not ticked, and has no row that could still move; one that
\* was successful has no row that failed or was canceled.
OverIsSettled ==
    runStatus \in TerminalRunStatuses =>
        /\ phase = "idle"
        /\ \A r \in Rows : status[r] \in TerminalStatuses
        /\ runStatus = "success" => \A r \in Rows : status[r] \in SatisfiedStatuses

\* What an exit, a scan, a success or a skip for artifacts claims is on disk.
ClaimsOnDisk ==
    \A r \in Rows :
        /\ worker[r] = "ok" \/ scan[r] = "complete" \/ status[r] = "success" => disk[r]
        /\ status[r] = "skipped" /\ reason[r] \in {"none", "artifacts"} => disk[r]

\* A selected row is skipped by the configuration or for its artifacts only.
SelectedSkips ==
    \A r \in Rows : status[r] = "skipped" /\ r[2] \in active =>
        reason[r] \in {"none", "config", "artifacts"}

RowsInv == LiveRuns /\ ClaimsOnDisk /\ SelectedSkips

SettledInv == TickInv /\ RowsInv /\ OverIsSettled

(****************************************************************************)
(* Creation and commands                                                    *)
(****************************************************************************)
LEMMA InitRows == Init => RowsInv
<1> SUFFICES ASSUME Init PROVE RowsInv
    OBVIOUS
<1>1. PICK setup \in RunSetups :
        LET act == setup.active
            made == Created(act)
            configured == [r \in Rows |-> IF r[2] \in PreSkipped THEN "config" ELSE "none"]
            kept == apply_not_selected_skips(made, configured, act)
        IN  /\ active = act
            /\ status = apply_superseded_skips(kept, act)
            /\ reason = [r \in Rows |->
                  IF r \in NotSelected(made, configured, act) THEN "not_selected"
                  ELSE IF r \in Superseded(kept, act) THEN "superseded"
                  ELSE configured[r]]
            /\ worker = [r \in Rows |-> "none"]
            /\ scan = [r \in Rows |-> "idle"]
    BY DEF Init
<1> DEFINE act == setup.active
           made == Created(act)
           configured == [r \in Rows |-> IF r[2] \in PreSkipped THEN "config" ELSE "none"]
           kept == apply_not_selected_skips(made, configured, act)
<1>2. \A x \in Rows : /\ made[x] \in {"skipped", "pending", "external"}
                      /\ made[x] = "skipped" => configured[x] = "config"
    BY DEF Created
<1>3. \A x \in Rows : /\ kept[x] \in {"skipped", "pending", "external"}
                      /\ kept[x] = "skipped" => made[x] = "skipped" \/ x \in NotSelected(made, configured, act)
    BY <1>2 DEF apply_not_selected_skips
<1>4. \A x \in Rows : /\ status[x] \in {"skipped", "pending", "external"}
                      /\ status[x] = "skipped" => kept[x] = "skipped" \/ x \in Superseded(kept, act)
    BY <1>1, <1>3 DEF apply_superseded_skips
<1>5. \A x \in Rows :
          status[x] = "skipped" =>
              /\ reason[x] \in {"config", "superseded", "not_selected"}
              /\ x[2] \in active => reason[x] = "config"
  <2>1. \A x \in NotSelected(made, configured, act) \cup Superseded(kept, act) : x[2] \notin act
    BY DEF NotSelected, Superseded
  <2>2. /\ active = act
        /\ \A x \in Rows :
              reason[x] = IF x \in NotSelected(made, configured, act) THEN "not_selected"
                          ELSE IF x \in Superseded(kept, act) THEN "superseded"
                          ELSE configured[x]
    BY <1>1
  <2> HIDE DEF kept, made, configured, act
  <2> QED
    BY <1>2, <1>3, <1>4, <2>1, <2>2
<1> QED
    BY <1>1, <1>4, <1>5 DEF RowsInv, LiveRuns, ClaimsOnDisk, SelectedSkips

\* Resetting rows leaves no claim of theirs and no worker they name.
LEMMA ResetRows ==
    ASSUME TypeOK, RowsInv, NEW R, reset_stage_for_retry(R), NEW Q, CancelScans(Q), UNCHANGED active
    PROVE  RowsInv'
BY DEF TypeOK, RowsInv, LiveRuns, ClaimsOnDisk, SelectedSkips, reset_stage_for_retry, Abandon,
   CancelScans

LEMMA CommandRows ==
    ASSUME TypeOK, RowsInv, Operator
    PROVE  RowsInv'
<1> USE DEF TypeOK, RowsInv, LiveRuns, ClaimsOnDisk, SelectedSkips, work, ledger, run
<1>1. CASE Cancel
    BY <1>1 DEF Cancel, Terminate, CancelScans, running_stage_runs, NonterminalStatuses
<1>2. CASE Pause \/ Resume
    BY <1>2 DEF Pause, Resume, SetPaused
<1>3. ASSUME NEW r \in Rows, NEW down \in BOOLEAN, RetryStage(r, down) PROVE RowsInv'
  <2>1. CASE status[r] = "running"
    BY <1>3, <2>1 DEF RetryStage, Terminate, CancelScans
  <2>2. CASE status[r] # "running"
    BY <1>3, <2>2, ResetRows DEF RetryStage
  <2> QED
    BY <2>1, <2>2
<1>4. CASE RetryRun
    BY <1>4, ResetRows DEF RetryRun
<1>5. ASSUME NEW S \in RerunSelections, ForceRerun(S) PROVE RowsInv'
    BY <1>5 DEF ForceRerun, Terminate, CancelScans, running_stage_runs, Rows
<1>6. ASSUME NEW r \in Rows, ForceLaunch(r) PROVE RowsInv'
    BY <1>6 DEF ForceLaunch
<1> QED
    BY <1>1, <1>2, <1>3, <1>4, <1>5, <1>6 DEF Operator

(****************************************************************************)
(* The supervisor                                                           *)
(****************************************************************************)
LEMMA LaunchRows ==
    ASSUME TickInv, RowsInv, NEW r \in Rows, LaunchRow(r)
    PROVE  RowsInv'
<1>1. /\ TypeOK /\ status[r] \in Waiting /\ worker[r] # "live" /\ active' = active
    BY DEF TickInv, BudgetInv, VisitedOpen, RowsInv, LiveRuns, Waiting, run, LaunchRow, LaunchRefused,
           LaunchDemoted, LaunchSkipped, LaunchOk, LaunchFails, Claimable, Launching, Visit
<1> USE <1>1 DEF TypeOK, RowsInv, LiveRuns, ClaimsOnDisk, SelectedSkips, work, ledger
<1>2. CASE LaunchRefused(r)
    BY <1>2 DEF LaunchRefused
<1>3. CASE LaunchDemoted(r)
    BY <1>3 DEF LaunchDemoted
<1>4. CASE LaunchSkipped(r)
    BY <1>4 DEF LaunchSkipped
<1>5. CASE LaunchOk(r)
    BY <1>5 DEF LaunchOk, Claimable
<1>6. CASE LaunchFails(r)
    BY <1>6 DEF LaunchFails, FailAndBlock
<1> QED
    BY <1>2, <1>3, <1>4, <1>5, <1>6 DEF LaunchRow

LEMMA ReconcileRows ==
    ASSUME TickInv, RowsInv, NEW r \in Rows, ReconcileRow(r)
    PROVE  RowsInv'
<1>1. /\ TypeOK /\ status[r] = "running" /\ UNCHANGED <<active, reason, scan>>
    BY DEF TickInv, BudgetInv, VisitedOpen, run, ReconcileRow, KeepRunning, Finalize, RequeueLost,
           RequeueStale, RequeueEvicted, FailUnseen, Reconciling, Visit
<1> USE <1>1 DEF TypeOK, RowsInv, LiveRuns, ClaimsOnDisk, SelectedSkips, work
<1>2. CASE KeepRunning(r)
    BY <1>2 DEF KeepRunning
<1>3. CASE Finalize(r)
    BY <1>3 DEF Finalize, ForgetWorker, FailAndBlock
<1>4. ASSUME status' = FailAndBlock(r) \/ status' = [status EXCEPT ![r] = "ready"],
             worker'[r] = "none", \A x \in Rows : x # r => worker'[x] = worker[x], disk' = disk
      PROVE  RowsInv'
    BY <1>4 DEF FailAndBlock
<1>5. CASE RequeueLost(r)
    BY <1>4, <1>5 DEF RequeueLost, ForgetWorker, requeue_or_fail, GiveUp, Requeue
<1>6. CASE RequeueStale(r)
    BY <1>4, <1>6 DEF RequeueStale, Abandon, Terminate, requeue_or_fail, GiveUp, Requeue
<1>7. CASE RequeueEvicted(r)
    BY <1>4, <1>7 DEF RequeueEvicted, Terminate, requeue_or_fail, GiveUp, Requeue
<1>8. CASE FailUnseen(r)
    BY <1>4, <1>8 DEF FailUnseen, Abandon
<1> QED
    BY <1>2, <1>3, <1>5, <1>6, <1>7, <1>8 DEF ReconcileRow

LEMMA VerifyRows ==
    ASSUME TypeOK, RowsInv, NEW r \in Rows, VerifyRow(r)
    PROVE  RowsInv'
<1> USE DEF TypeOK, RowsInv, LiveRuns, ClaimsOnDisk, SelectedSkips, work, ledger
<1>1. /\ UNCHANGED <<active, worker, disk>>
      /\ \A x \in Rows : scan'[x] = "complete" => scan[x] = "complete"
    BY DEF VerifyRow, ApplyScan, VerifyFast, VerifyScheduled, Visit, run
<1>2. \/ UNCHANGED <<status, reason>>
      \/ \E verdict : ApplyVerdict(r, verdict) /\ (verdict = "complete" => disk[r])
    BY DEF VerifyRow, ApplyScan, VerifyFast, VerifyScheduled, ScanAnswer
<1>3. ASSUME NEW verdict, ApplyVerdict(r, verdict), verdict = "complete" => disk[r]
      PROVE  RowsInv'
  <2>1. CASE UNCHANGED <<status, reason>>
    BY <1>1, <2>1
  <2>2. CASE /\ status[r] \in {"pending", "external"} /\ disk[r]
             /\ status' = [status EXCEPT ![r] = "skipped"]
             /\ reason' = [reason EXCEPT ![r] = "artifacts"]
    BY <1>1, <2>2
  <2>3. CASE status[r] = "external" /\ status' = FailAndBlock(r) /\ UNCHANGED reason
    BY <1>1, <2>3 DEF FailAndBlock
  <2> QED
    BY <1>3, <2>1, <2>2, <2>3 DEF ApplyVerdict, Applicable
<1> QED
    BY <1>1, <1>2, <1>3

\* What the bulk updates leave of a row: they start none, let none succeed, and skip
\* rows outside the selection only.
LEMMA PromoteRows ==
    ASSUME NEW st, NEW ck, NEW x \in Rows
    PROVE  LET next == promote_stages(st, ck)
           IN  /\ next[x] \in {st[x], "ready", "pending"}
               /\ st[x] = "running" => next[x] = "running"
BY DEF promote_stages

LEMMA SupersededRows ==
    ASSUME NEW st, NEW x \in Rows
    PROVE  IF x \in Superseded(st, active)
           THEN x[2] \notin active /\ apply_superseded_skips(st, active)[x] = "skipped"
           ELSE apply_superseded_skips(st, active)[x] = st[x]
BY DEF Superseded, apply_superseded_skips

LEMMA NotSelectedRows ==
    ASSUME SkippedOutside, NEW x \in Rows
    PROVE  IF x \in NotSelected(status, reason, active)
           THEN x[2] \notin active /\ apply_not_selected_skips(status, reason, active)[x] = "skipped"
           ELSE apply_not_selected_skips(status, reason, active)[x] = status[x]
BY DEF NotSelected, Reselected, SkippedOutside, apply_not_selected_skips

LEMMA RepairRows ==
    ASSUME NEW st, NEW x \in Rows
    PROVE  LET repaired == repair_orphaned_pending_upstream(st)
           IN  repaired[x] = st[x] \/ (st[x] = "pending" /\ repaired[x] = "external")
BY DEF repair_orphaned_pending_upstream

LEMMA EndVerifyRows ==
    ASSUME TickInv, RowsInv, EndVerify
    PROVE  RowsInv'
<1> DEFINE hits == Superseded(status, active)
           ck == [r \in Rows |-> IF r \in hits THEN "none" ELSE check[r]]
           trimmed == apply_superseded_skips(status, active)
           next == promote_stages(trimmed, ck)
<1>1. /\ status' = next /\ Abandon(hits) /\ UNCHANGED <<active, scan>>
      /\ \A x \in Rows : reason'[x] = IF x \in hits THEN "superseded" ELSE reason[x]
    BY DEF EndVerify, run
<1>2. ASSUME NEW x \in Rows
      PROVE  IF x \in hits THEN x[2] \notin active /\ trimmed[x] = "skipped" ELSE trimmed[x] = status[x]
    BY SupersededRows
<1>3. ASSUME NEW x \in Rows
      PROVE  next[x] \in {trimmed[x], "ready", "pending"} /\ (trimmed[x] = "running" => next[x] = "running")
    BY PromoteRows
<1> HIDE DEF hits, trimmed, next
<1> QED
    BY <1>1, <1>2, <1>3 DEF RowsInv, LiveRuns, ClaimsOnDisk, SelectedSkips, Abandon

LEMMA EndReconcileRows ==
    ASSUME TickInv, RowsInv, EndReconcile
    PROVE  RowsInv'
<1> DEFINE unselected == NotSelected(status, reason, active)
           kept == apply_not_selected_skips(status, reason, active)
           hits == Superseded(kept, active)
           trimmed == apply_superseded_skips(kept, active)
           repaired == repair_orphaned_pending_upstream(trimmed)
           trust == IF SkipVerify THEN Trusted(repaired) ELSE {}
           settled == [r \in Rows |-> IF r \in trust THEN "skipped" ELSE repaired[r]]
           reopened == Reselected(status, reason, active)
           ck == [r \in Rows |-> IF r \in unselected \cup hits \cup reopened THEN "none" ELSE check[r]]
           next == IF SkipVerify THEN promote_stages(settled, ck) ELSE settled
<1>1. /\ status' = next /\ Abandon(unselected \cup hits) /\ UNCHANGED <<active, scan>>
      /\ \A x \in Rows : reason'[x] = IF x \in trust THEN "trusted"
                                      ELSE IF x \in hits THEN "superseded"
                                      ELSE IF x \in unselected THEN "not_selected"
                                      ELSE IF x \in reopened THEN "none"
                                      ELSE reason[x]
    BY DEF EndReconcile, run
<1>2. ASSUME NEW x \in Rows
      PROVE  /\ IF x \in unselected THEN x[2] \notin active /\ kept[x] = "skipped" ELSE kept[x] = status[x]
             /\ x \notin reopened
    BY NotSelectedRows DEF TickInv, BudgetInv, SkippedOutside, Reselected
<1>3. ASSUME NEW x \in Rows
      PROVE  IF x \in hits THEN x[2] \notin active /\ trimmed[x] = "skipped" ELSE trimmed[x] = kept[x]
    BY SupersededRows
<1>4. ASSUME NEW x \in Rows
      PROVE  repaired[x] = trimmed[x] \/ (trimmed[x] = "pending" /\ repaired[x] = "external")
    BY RepairRows
<1>5. ASSUME NEW x \in Rows
      PROVE  IF x \in trust THEN x[2] \notin active /\ repaired[x] = "external" /\ settled[x] = "skipped"
             ELSE settled[x] = repaired[x]
    BY DEF Trusted
<1>6. ASSUME NEW x \in Rows
      PROVE  next[x] \in {settled[x], "ready", "pending"} /\ (settled[x] = "running" => next[x] = "running")
    BY PromoteRows
<1> HIDE DEF unselected, kept, hits, trimmed, repaired, trust, settled, reopened, next
<1> QED
    BY <1>1, <1>2, <1>3, <1>4, <1>5, <1>6 DEF RowsInv, LiveRuns, ClaimsOnDisk, SelectedSkips, Abandon

LEMMA OthersRows ==
    ASSUME TickInv, RowsInv, Environment \/ SupervisorRestarts \/ UNCHANGED vars
    PROVE  RowsInv'
<1>0. TypeOK
    BY DEF TickInv, BudgetInv
<1> USE <1>0 DEF TypeOK, RowsInv, LiveRuns, ClaimsOnDisk, SelectedSkips, work, ledger, run
<1>1. ASSUME NEW r \in Rows, WorkerExits(r) PROVE RowsInv'
  <2>1. PICK e \in Exits : worker' = [worker EXCEPT ![r] = e] /\ disk' = [disk EXCEPT ![r] = @ \/ e = "ok"]
    BY <1>1 DEF WorkerExits
  <2>2. e # "live" /\ (\A x \in Rows : disk[x] => disk'[x]) /\ (e = "ok" => disk'[r])
    BY <2>1 DEF Exits
  <2> QED
    BY <1>1, <2>1, <2>2 DEF WorkerExits, Outside
<1>2. ASSUME NEW r \in Rows, OrphanExits(r) PROVE RowsInv'
    BY <1>2 DEF OrphanExits, Outside
<1>3. ASSUME NEW r \in Rows, NEW verdict \in Verdicts, ScanFinishes(r, verdict) PROVE RowsInv'
    BY <1>3 DEF ScanFinishes, ScanAnswer, Outside
<1>4. ASSUME NEW r \in Rows, BackoffElapses(r) PROVE RowsInv'
    BY <1>4 DEF BackoffElapses, Outside
<1>5. CASE SupervisorRestarts
  <2>1. UNCHANGED <<work, reason, active>> /\ scan' = [r \in Rows |-> "idle"]
    BY <1>5 DEF SupervisorRestarts
  <2>2. CASE UNCHANGED status
    BY <2>1, <2>2
  <2>3. ASSUME NEW r \in todo, HalfFinalized(r) PROVE RowsInv'
    BY <2>1, <2>3 DEF HalfFinalized
  <2> QED
    BY <1>5, <2>2, <2>3 DEF SupervisorRestarts
<1>6. CASE UNCHANGED vars
    BY <1>6 DEF vars
<1> QED
    BY <1>1, <1>2, <1>3, <1>4, <1>5, <1>6 DEF Environment

LEMMA NextRows == TickInv /\ RowsInv /\ [Next]_vars => RowsInv'
<1> SUFFICES ASSUME TickInv, RowsInv, [Next]_vars PROVE RowsInv'
    OBVIOUS
<1>0. TypeOK
    BY DEF TickInv, BudgetInv
<1>1. CASE Operator
    BY <1>0, <1>1, CommandRows
<1>2. CASE Supervisor
  <2>1. CASE BeginTick \/ EndForce \/ EndDrain \/ FillPools \/ EndTick
    BY <2>1 DEF BeginTick, EndForce, EndDrain, FillPools, EndTick, ledger, work, run, RowsInv, LiveRuns,
                ClaimsOnDisk, SelectedSkips
  <2> QED
    BY <1>0, <1>2, <2>1, EndVerifyRows, EndReconcileRows, LaunchRows, ReconcileRows, VerifyRows
    DEF Supervisor
<1> QED
    BY <1>1, <1>2, OthersRows DEF Next

(****************************************************************************)
(* A run that is over                                                       *)
(****************************************************************************)
\* Outside the idle phase the run is not over, so what ticks does not concern it.
LEMMA NextOver == TickInv /\ OverIsSettled /\ [Next]_vars => OverIsSettled'
<1> SUFFICES ASSUME TickInv, OverIsSettled, [Next]_vars, runStatus' \in TerminalRunStatuses
             PROVE  /\ phase' = "idle"
                    /\ \A r \in Rows : status'[r] \in TerminalStatuses
                    /\ runStatus' = "success" => \A r \in Rows : status'[r] \in SatisfiedStatuses
    BY DEF OverIsSettled
<1>0. TypeOK
    BY DEF TickInv, BudgetInv
<1> USE DEF TerminalRunStatuses, ActiveRunStatuses, run
<1>1. CASE UNCHANGED <<runStatus, phase, status>>
    BY <1>1 DEF OverIsSettled
<1>2. CASE EndTick
  <2>1. \A r \in Rows : status[r] \notin NonterminalStatuses
    BY <1>2 DEF EndTick, OverIsSettled, Leave
  <2>2. \A r \in Rows : status[r] \in TerminalStatuses
    BY <1>0, <2>1 DEF TypeOK, NonterminalStatuses, TerminalStatuses, StageStatuses
  <2>3. runStatus' = "success" => \A r \in Rows : status[r] \notin {"failed", "canceled"}
    BY <1>2, <2>1 DEF EndTick, derive_run_final_status
  <2> QED
    BY <1>2, <2>2, <2>3 DEF EndTick, Enter, TerminalStatuses, SatisfiedStatuses
<1>3. CASE Operator
  <2>1. CASE Cancel
    BY <1>0, <2>1 DEF Cancel, Command, TypeOK, NonterminalStatuses, TerminalStatuses, StageStatuses
  <2>2. CASE Pause \/ Resume
    BY <1>1, <2>2 DEF Pause, Resume, SetPaused, Command
  <2>3. CASE RetryRun \/ (\E r \in Rows, down \in BOOLEAN : RetryStage(r, down))
             \/ (\E S \in RerunSelections : ForceRerun(S))
    BY <2>3 DEF RetryRun, RetryStage, ForceRerun
  <2>4. CASE \E r \in Rows : ForceLaunch(r)
    BY <1>1, <2>4 DEF ForceLaunch, Command
  <2> QED
    BY <1>3, <2>1, <2>2, <2>3, <2>4 DEF Operator
<1>4. ASSUME runStatus \in ActiveRunStatuses, UNCHANGED runStatus PROVE FALSE
    BY <1>4
<1>5. CASE Supervisor /\ ~ EndTick
  <2>1. runStatus' = runStatus /\ (phase = "idle" => BeginTick)
    BY <1>5 DEF Supervisor, BeginTick, EndForce, EndReconcile, EndDrain, EndVerify, FillPools, Leave,
                LaunchRow, LaunchRefused, LaunchDemoted, LaunchSkipped, LaunchOk, LaunchFails, Claimable,
                Launching, Visit, ReconcileRow, KeepRunning, Finalize, RequeueLost, RequeueStale,
                RequeueEvicted, FailUnseen, Reconciling, VerifyRow, ApplyScan, VerifyFast, VerifyScheduled
  <2> QED
    BY <2>1 DEF OverIsSettled, BeginTick
<1>6. CASE Environment
    BY <1>1, <1>6 DEF Environment, WorkerExits, OrphanExits, BackoffElapses, ScanFinishes, Outside
<1>7. CASE SupervisorRestarts
  <2>1. runStatus' = runStatus /\ phase = "idle" /\ phase' = "idle" /\ status' = status
    BY <1>7 DEF SupervisorRestarts, OverIsSettled, HalfFinalized
  <2> QED
    BY <1>1, <2>1
<1>8. CASE UNCHANGED vars
    BY <1>1, <1>8 DEF vars
<1> QED
    BY <1>2, <1>3, <1>5, <1>6, <1>7, <1>8 DEF Next

LEMMA InitSettled == Init => SettledInv
BY InitTick, InitRows DEF Init, SettledInv, OverIsSettled, TerminalRunStatuses

LEMMA NextSettled == SettledInv /\ [Next]_vars => SettledInv'
BY NextTick, NextRows, NextOver DEF SettledInv

\* A run that is over stays quiet, for every DAG, every setting and every command:
\* all of its rows are finished and no worker that one of them names is alive.
THEOREM OverStaysQuiet == Spec => []OverIsQuiet
<1>1. SettledInv => OverIsQuiet
    BY DEF SettledInv, RowsInv, LiveRuns, OverIsSettled, OverIsQuiet, TerminalStatuses
<1> QED
    BY <1>1, InitSettled, NextSettled, PTL DEF Spec

\* A run reported successful has the output of every stage it selects on disk, also
\* after reruns, retries, verdicts of old scans and half-finished restarts.
THEOREM SuccessStaysOnDisk == Spec => []SuccessIsOnDisk
<1>1. SettledInv => SuccessIsOnDisk
    BY DEF SettledInv, RowsInv, ClaimsOnDisk, SelectedSkips, OverIsSettled, SuccessIsOnDisk,
           TerminalRunStatuses, SatisfiedStatuses
<1> QED
    BY <1>1, InitSettled, NextSettled, PTL DEF Spec

(****************************************************************************)
(* Runs of the whole pipeline                                               *)
(*                                                                          *)
(* A run that selects a part of the pipeline trusts, supersedes or leaves   *)
(* out what it does not select, and so promises less.                       *)
(****************************************************************************)
\* Runs are created with every stage selected, and so are reruns.
WholeRuns ==
    /\ \A setup \in RunSetups : setup.active = Stages
    /\ RerunSelections \subseteq {Stages}

\* Every set of stages has one that waits for none of the set.
Acyclic == \A S \in SUBSET Stages : S # {} => \E s \in S : EffectiveDeps[s] \cap S = {}

NothingOutside == active = Stages /\ \A r \in Rows : status[r] # "external"

WholeInv == SettledInv /\ NothingOutside

LEMMA ClosureOfAll == artifact_verify_closure(Stages) \subseteq Stages /\ run_stage_closure(Stages) \subseteq Stages
<1>1. upstream_stages_for(Stages) \subseteq Stages
    BY DEF upstream_stages_for, Ancestors
<1> QED
    BY <1>1, StagesAssumption DEF artifact_verify_closure, run_stage_closure

\* The normalisation of a tick leaves the rows of a whole run alone.
LEMMA NothingToNormalise ==
    ASSUME active = Stages, NEW st, NEW rs
    PROVE  /\ NotSelected(st, rs, active) = {} /\ Superseded(st, active) = {}
           /\ Trusted(st) = {}
           /\ \A x \in Rows : repair_orphaned_pending_upstream(st)[x] = st[x]
BY ClosureOfAll DEF NotSelected, Superseded, Trusted, repair_orphaned_pending_upstream, Rows

\* So does what a whole run would verify.
LEMMA NothingToVerify ==
    ASSUME active = Stages
    PROVE  VerifyCandidates = {}
BY ClosureOfAll DEF VerifyCandidates, VerifyCandidate, artifact_verify_needed, Rows

LEMMA InitWhole ==
    ASSUME WholeRuns
    PROVE  Init => WholeInv
<1> SUFFICES ASSUME Init PROVE NothingOutside
    BY InitSettled DEF WholeInv
<1>1. PICK setup \in RunSetups :
        LET act == setup.active
            made == Created(act)
            configured == [r \in Rows |-> IF r[2] \in PreSkipped THEN "config" ELSE "none"]
            kept == apply_not_selected_skips(made, configured, act)
        IN  active = act /\ status = apply_superseded_skips(kept, act)
    BY DEF Init
<1>2. setup.active = Stages /\ active = Stages
    BY <1>1 DEF WholeRuns
<1>3. \A x \in Rows : Created(Stages)[x] # "external"
    BY DEF Created, Rows
<1> QED
    BY <1>1, <1>2, <1>3 DEF NothingOutside, apply_superseded_skips, apply_not_selected_skips

LEMMA WholeCommands ==
    ASSUME WholeRuns, TypeOK, NothingOutside, Operator
    PROVE  NothingOutside'
<1> USE DEF NothingOutside, TypeOK, run, work, ledger
<1>0. \A x \in Rows : x[2] \in Stages
    BY DEF Rows
<1>1. CASE Cancel
    BY <1>1 DEF Cancel
<1>2. CASE Pause \/ Resume
    BY <1>2 DEF Pause, Resume, SetPaused
<1>3. ASSUME NEW R, reset_stage_for_retry(R), UNCHANGED active PROVE NothingOutside'
    BY <1>0, <1>3 DEF reset_stage_for_retry
<1>4. ASSUME NEW r \in Rows, NEW down \in BOOLEAN, RetryStage(r, down) PROVE NothingOutside'
  <2>1. CASE status[r] = "running"
    BY <1>4, <2>1 DEF RetryStage
  <2>2. CASE status[r] # "running"
    BY <1>3, <1>4, <2>2 DEF RetryStage
  <2> QED
    BY <2>1, <2>2
<1>5. CASE RetryRun
    BY <1>3, <1>5 DEF RetryRun
<1>6. ASSUME NEW S \in RerunSelections, ForceRerun(S) PROVE NothingOutside'
    BY <1>6 DEF ForceRerun, WholeRuns
<1>7. ASSUME NEW r \in Rows, ForceLaunch(r) PROVE NothingOutside'
    BY <1>7 DEF ForceLaunch
<1> QED
    BY <1>1, <1>2, <1>4, <1>5, <1>6, <1>7 DEF Operator

\* No step but a command makes a row external.
LEMMA WholeSteps ==
    ASSUME TickInv, NothingOutside, ~ Operator, [Next]_vars
    PROVE  NothingOutside'
<1>0. TypeOK
    BY DEF TickInv, BudgetInv
<1> USE <1>0 DEF NothingOutside, TypeOK, run, work, ledger
<1>1. ASSUME UNCHANGED <<status, active>> PROVE NothingOutside'
    BY <1>1
<1>2. ASSUME NEW r \in Rows, LaunchRow(r) PROVE NothingOutside'
    BY <1>2 DEF LaunchRow, LaunchRefused, LaunchDemoted, LaunchSkipped, LaunchOk, LaunchFails,
       Claimable,
                Launching, Visit, FailAndBlock
<1>3. ASSUME NEW r \in Rows, ReconcileRow(r) PROVE NothingOutside'
    BY <1>3 DEF ReconcileRow, KeepRunning, Finalize, RequeueLost, RequeueStale, RequeueEvicted,
       FailUnseen,
                Reconciling, Visit, requeue_or_fail, GiveUp, Requeue, FailAndBlock
<1>4. ASSUME NEW r \in Rows, VerifyRow(r) PROVE NothingOutside'
    BY <1>4 DEF VerifyRow, ApplyScan, VerifyFast, VerifyScheduled, ApplyVerdict, Visit, FailAndBlock
<1>5. ASSUME NEW st, NEW ck, \A x \in Rows : st[x] # "external"
      PROVE  \A x \in Rows : promote_stages(st, ck)[x] # "external"
    BY <1>5 DEF promote_stages
<1>6. ASSUME NEW st, \A x \in Rows : st[x] # "external"
      PROVE  \A x \in Rows : apply_superseded_skips(st, active)[x] # "external"
    BY <1>6 DEF apply_superseded_skips
<1>7. CASE EndVerify
    BY <1>5, <1>6, <1>7 DEF EndVerify
<1>8. CASE EndReconcile
  <2> DEFINE kept == apply_not_selected_skips(status, reason, active)
             trimmed == apply_superseded_skips(kept, active)
             repaired == repair_orphaned_pending_upstream(trimmed)
             trust == IF SkipVerify THEN Trusted(repaired) ELSE {}
             settled == [r \in Rows |-> IF r \in trust THEN "skipped" ELSE repaired[r]]
             skipped == NotSelected(status, reason, active) \cup Superseded(kept, active)
             reopened == Reselected(status, reason, active)
             ck == [r \in Rows |-> IF r \in skipped \cup reopened THEN "none" ELSE check[r]]
             next == IF SkipVerify THEN promote_stages(settled, ck) ELSE settled
  <2>1. status' = next /\ UNCHANGED active
    BY <1>8 DEF EndReconcile
  <2>2. \A x \in Rows : kept[x] # "external"
    BY DEF apply_not_selected_skips
  <2>3. \A x \in Rows : trimmed[x] # "external"
    BY <1>6, <2>2
  <2>4. \A x \in Rows : repaired[x] # "external"
    BY <2>3, NothingToNormalise
  <2>5. \A x \in Rows : settled[x] # "external"
    BY <2>4
  <2>6. \A x \in Rows : next[x] # "external"
    BY <1>5, <2>5
  <2> QED
    BY <2>1, <2>6
<1>9. CASE BeginTick \/ EndForce \/ EndDrain \/ FillPools \/ EndTick
    BY <1>1, <1>9 DEF BeginTick, EndForce, EndDrain, FillPools, EndTick
<1>10. CASE Environment \/ UNCHANGED vars
    BY <1>1, <1>10 DEF Environment, WorkerExits, OrphanExits, BackoffElapses, ScanFinishes, Outside,
       vars
<1>11. CASE SupervisorRestarts
    BY <1>11, RestartRows DEF SupervisorRestarts
<1> QED
    BY <1>2, <1>3, <1>4, <1>7, <1>8, <1>9, <1>10, <1>11 DEF Next, Supervisor

LEMMA NextWhole ==
    ASSUME WholeRuns
    PROVE  WholeInv /\ [Next]_vars => WholeInv'
BY NextSettled, WholeCommands, WholeSteps DEF WholeInv, SettledInv, TickInv, BudgetInv

\* In a run of the whole pipeline a worker starts, and stays, over complete inputs:
\* every artifact its stage waits for is on disk, but what the configuration skips.
THEOREM InputsStayOnDisk ==
    ASSUME WholeRuns, CommandsTakeDependents
    PROVE  Spec => []InputsOnDisk
<1>1. OrderInv /\ WholeInv => InputsOnDisk
    BY RowOfInput DEF OrderInv, RunningHasInputs, WholeInv, SettledInv, NothingOutside, RowsInv,
       ClaimsOnDisk,
                      SelectedSkips, SatisfiedStatuses, InputsOnDisk
<1>2. Init => OrderInv /\ WholeInv
    BY InitOrder, InitWhole
<1>3. OrderInv /\ WholeInv /\ [Next]_vars => OrderInv' /\ WholeInv'
    BY NextOrder, NextWhole
<1> QED
    BY <1>1, <1>2, <1>3, PTL DEF Spec

LEMMA AncestorsAreTransitive ==
    ASSUME NEW s \in Stages, NEW t \in Ancestors[s], NEW u \in Ancestors[t]
    PROVE  u \in Ancestors[s]
<1>1. t \in Stages /\ u \in Stages
    BY DEF Ancestors
<1>2. ASSUME NEW S \in SUBSET Stages, UpstreamOf(S \cup {s}) \subseteq S
      PROVE  u \in S
  <2>1. t \in S
    BY <1>2 DEF Ancestors
  <2>2. UpstreamOf(S \cup {t}) \subseteq S
    BY <1>2, <2>1 DEF UpstreamOf
  <2> QED
    BY <1>1, <2>2 DEF Ancestors
<1> QED
    BY <1>1, <1>2 DEF Ancestors

\* What a stage waits for is upstream of it in the fixed map too.
LEMMA InputsAreAncestors ==
    ASSUME NEW s \in Stages, NEW d \in EffectiveDeps[s]
    PROVE  d \in Ancestors[s]
<1> DEFINE T == {u \in Stages : d \in Ancestors[u]}
<1>1. d \in Stages /\ s \in downstream_stages[d]
    BY StagesAssumption, EffectiveDepsAssumption
<1>2. ASSUME NEW t \in Stages, NEW e \in Deps[t]
      PROVE  e \in Ancestors[t]
    BY <1>2, StagesAssumption DEF Ancestors, UpstreamOf
<1>3. ASSUME NEW t \in DownstreamOf(T \cup {d})
      PROVE  t \in T
  <2>1. PICK e \in Deps[t] : e \in T \cup {d}
    BY DEF DownstreamOf
  <2>2. t \in Stages /\ e \in Ancestors[t]
    BY <1>2 DEF DownstreamOf
  <2> QED
    BY <2>1, <2>2, AncestorsAreTransitive
<1>4. T \in SUBSET Stages /\ DownstreamOf(T \cup {d}) \subseteq T
    BY <1>3
<1>5. s \in T
    BY <1>1, <1>4 DEF downstream_stages
<1> QED
    BY <1>5

\* When nothing runs and nothing can be launched, the first row of any group that
\* waits is to be promoted or waits for a row that failed or was canceled.
LEMMA StuckRowsHaveCulprits ==
    ASSUME Acyclic, TypeOK, NothingOutside, Stuck,
           NEW r \in Rows, status[r] \in NonterminalStatuses
    PROVE  Culprits(r) # {}
<1> SUFFICES ASSUME Culprits(r) = {} PROVE FALSE
    OBVIOUS
<1> DEFINE B == {s \in Stages : /\ status[<<r[1], s>>] \in NonterminalStatuses
                                /\ Culprits(<<r[1], s>>) = {}}
<1>1. r[1] \in Targets /\ r[2] \in Stages /\ r = <<r[1], r[2]>>
    BY DEF Rows
<1>2. r[2] \in B
    BY <1>1
<1>3. PICK s \in B : EffectiveDeps[s] \cap B = {}
    BY <1>2 DEF Acyclic
<1> DEFINE x == <<r[1], s>>
<1>4. /\ x \in Rows /\ x[1] = r[1] /\ x[2] = s /\ s \in Stages
      /\ status[x] \in NonterminalStatuses /\ Culprits(x) = {}
    BY <1>1 DEF Rows
<1> HIDE DEF B
<1>5. status[x] \in {"pending", "ready", "blocked"}
    BY <1>4 DEF Stuck, running_stage_runs, NothingOutside, NonterminalStatuses
<1>6. CASE deps_satisfied(status, x)
  <2>1. Promotable(x)
    BY <1>4, <1>5, <1>6 DEF Stuck, Promotable, NothingOutside
  <2> QED
    BY <1>4, <2>1 DEF Culprits
<1>7. CASE ~ deps_satisfied(status, x)
  <2>1. PICK d \in EffectiveDeps[s] : status[<<r[1], d>>] \notin SatisfiedStatuses
    BY <1>4, <1>7 DEF deps_satisfied
  <2> DEFINE y == <<r[1], d>>
  <2>2. y \in Rows /\ y[1] = r[1] /\ y[2] = d /\ d \in Stages /\ d \in Ancestors[s]
    BY <1>1, <1>4, StagesAssumption, InputsAreAncestors DEF Rows
  <2>3. y \in RowsOf(r[1], Ancestors[s])
    BY <2>2 DEF RowsOf
  <2>4. status[y] \notin {"failed", "canceled"}
    BY <1>4, <2>3 DEF Culprits
  <2>5. status[y] \in NonterminalStatuses
    BY <2>1, <2>2, <2>4 DEF TypeOK, StageStatuses, NonterminalStatuses, SatisfiedStatuses
  <2>6. d \notin B
    BY <1>3
  <2>7. PICK c \in Culprits(y) : TRUE
    BY <2>2, <2>5, <2>6 DEF B
  <2>8. c \in {y} \cup RowsOf(r[1], Ancestors[d]) /\ (status[c] \in {"failed", "canceled"} \/ Promotable(c))
    BY <2>2, <2>7 DEF Culprits
  <2>9. c \in RowsOf(r[1], Ancestors[s])
    BY <1>4, <2>2, <2>3, <2>8, AncestorsAreTransitive DEF RowsOf
  <2> QED
    BY <1>4, <2>8, <2>9 DEF Culprits
<1> QED
    BY <1>6, <1>7

\* A stall that a tick declares in a run of the whole pipeline is nobody's mystery:
\* behind every row that is left stands one that failed, was canceled or is to be
\* promoted by the next tick.
THEOREM StallsHaveCulprits ==
    ASSUME WholeRuns, Acyclic
    PROVE  Spec => StallHasCulprit
<1>1. ASSUME WholeInv, [Next]_vars, runStatus # "stalled", runStatus' = "stalled"
      PROVE  \A r \in Rows : status[r] \in NonterminalStatuses => Culprits(r) # {}
  <2>0. TypeOK /\ NothingOutside
    BY <1>1 DEF WholeInv, SettledInv, TickInv, BudgetInv
  <2>1. EndTick
    BY <1>1, <2>0 DEF TypeOK, ActiveRunStatuses, TerminalRunStatuses, Next, Supervisor, Operator,
       Environment,
                SupervisorRestarts, vars, run, BeginTick, EndForce, EndReconcile, EndDrain, EndVerify, FillPools,
                LaunchRow, LaunchRefused, LaunchDemoted, LaunchSkipped, LaunchOk, LaunchFails, Claimable,
                Launching, Visit, ReconcileRow, KeepRunning, Finalize, RequeueLost, RequeueStale,
                RequeueEvicted, FailUnseen, Reconciling, VerifyRow, ApplyScan, VerifyFast, VerifyScheduled,
                WorkerExits, OrphanExits, BackoffElapses, ScanFinishes, Outside,
                Cancel, Pause, Resume, SetPaused, RetryRun, ForceLaunch, RetryStage, ForceRerun
  <2>2. Stuck
    BY <1>1, <2>1 DEF EndTick, derive_run_final_status
  <2> QED
    BY <2>0, <2>2, StuckRowsHaveCulprits
<1>2. WholeInv /\ [Next]_vars =>
        [runStatus # "stalled" /\ runStatus' = "stalled" =>
            \A r \in Rows : status[r] \in NonterminalStatuses => Culprits(r) # {}]_vars
    BY <1>1
<1>3. Init => WholeInv
    BY InitWhole
<1>4. WholeInv /\ [Next]_vars => WholeInv'
    BY NextWhole
<1> QED
    BY <1>2, <1>3, <1>4, PTL DEF Spec, StallHasCulprit

(****************************************************************************)
(* One worker per row                                                       *)
(****************************************************************************)
\* No operator command and no fault leaves a worker behind: stages are not retried
\* one by one, a run that is rerun has no stage its configuration skips, a local
\* worker keeps its launch token and condor keeps showing a cluster that lives.
NothingIsAbandoned ==
    /\ Commands \cap {"retry_stage", "retry_alone"} = {}
    /\ "force_rerun" \in Commands => PreSkipped = {}
    /\ Faults \cap {"stale", "unseen"} = {}

\* Among the stages it does not skip, the configuration changes what a stage waits
\* for, but not which stages come before it.
KeepsTheOrder ==
    \A d \in Stages \ PreSkipped : \A s \in downstream_stages[d] \ PreSkipped :
        d \in EffectiveDeps[s] \/ \E e \in EffectiveDeps[s] \ PreSkipped : e \in downstream_stages[d]

NoOrphans == \A x \in Rows : ~ orphan[x]

\* A whole run verifies nothing.
NothingScanned ==
    /\ \A x \in Rows : scan[x] = "idle"
    /\ phase \in {"drain", "verify"} => todo = {}

\* The configuration's skips, and no others, stay for the whole run.
ConfigSkips ==
    \A x \in Rows : /\ x[2] \in PreSkipped => status[x] = "skipped" /\ reason[x] = "config"
                    /\ reason[x] = "config" => x[2] \in PreSkipped

\* Whatever comes before a row that runs or is settled is settled.
SettledUpwards ==
    \A x \in Rows : x[2] \notin PreSkipped /\ status[x] \in SatisfiedStatuses \cup {"running"} =>
        \A d \in Stages \ PreSkipped :
            x[2] \in downstream_stages[d] => status[<<x[1], d>>] \in SatisfiedStatuses

SingleInv == WholeInv /\ NoOrphans /\ NothingScanned /\ ConfigSkips /\ SettledUpwards

\* Steps that leave no worker and no scan behind, and settle only rows that run or
\* that a launch loop finds ready.
SettlesInOrder ==
    /\ \A x \in Rows : orphan'[x] => orphan[x]
    /\ NothingScanned'
    /\ \A x \in Rows : status[x] = "skipped" => reason'[x] = reason[x]
    /\ \A x \in Rows : status'[x] \in SatisfiedStatuses =>
           status[x] \in SatisfiedStatuses \cup {"running"} \/ MayStart(x)

LEMMA LaunchSettles ==
    ASSUME TickInv, NothingScanned, NEW r \in Rows, LaunchRow(r)
    PROVE  SettlesInOrder
<1>1. TypeOK /\ VisitedOpen
    BY DEF TickInv, BudgetInv
<1> USE <1>1 DEF TypeOK, Visit, Launching, Claimable, ledger, work, NothingScanned, SettlesInOrder
<1>2. phase \in {"force", "override", "launch"} /\ r \in todo /\ phase' = phase /\ scan' = scan /\ orphan' = orphan
    BY DEF LaunchRow, LaunchRefused, LaunchDemoted, LaunchSkipped, LaunchOk, LaunchFails
<1>3. status[r] \in Waiting
    BY <1>2 DEF VisitedOpen
<1>4. CASE LaunchSkipped(r)
    BY <1>2, <1>3, <1>4 DEF LaunchSkipped, MayStart, Waiting
<1>5. CASE LaunchFails(r)
    BY <1>2, <1>5 DEF LaunchFails, FailAndBlock, SatisfiedStatuses
<1>6. CASE LaunchRefused(r) \/ LaunchDemoted(r) \/ LaunchOk(r)
    BY <1>2, <1>6 DEF LaunchRefused, LaunchDemoted, LaunchOk, SatisfiedStatuses
<1> QED
    BY <1>4, <1>5, <1>6 DEF LaunchRow

LEMMA ReconcileSettles ==
    ASSUME NothingIsAbandoned, TickInv, NothingScanned, NEW r \in Rows, ReconcileRow(r)
    PROVE  SettlesInOrder
<1>1. TypeOK /\ VisitedOpen
    BY DEF TickInv, BudgetInv
<1>2. KeepRunning(r) \/ Finalize(r) \/ RequeueLost(r) \/ RequeueEvicted(r)
    BY DEF ReconcileRow, RequeueStale, FailUnseen, NothingIsAbandoned
<1>3. Reconciling(r) /\ orphan' = orphan
    BY <1>2 DEF KeepRunning, Finalize, RequeueLost, RequeueEvicted, Terminate, work
<1>4. phase = "reconcile" /\ phase' = "reconcile" /\ r \in todo /\ scan' = scan /\ reason' = reason
    BY <1>3 DEF Reconciling, Visit
<1>5. status[r] = "running"
    BY <1>1, <1>4 DEF VisitedOpen
<1>6. \/ status' = status
      \/ status' = FailAndBlock(r)
      \/ \E v \in {"success", "canceled", "ready"} : status' = [status EXCEPT ![r] = v]
    BY <1>2 DEF KeepRunning, Finalize, RequeueLost, RequeueEvicted, requeue_or_fail, GiveUp, Requeue
<1>7. \A x \in Rows : status'[x] \in SatisfiedStatuses => status[x] \in SatisfiedStatuses \cup {"running"}
    BY <1>1, <1>5, <1>6 DEF FailAndBlock, TypeOK, SatisfiedStatuses
<1> QED
    BY <1>3, <1>4, <1>7 DEF NothingScanned, SettlesInOrder

LEMMA EndVerifySettles ==
    ASSUME NothingOutside, NothingScanned, EndVerify
    PROVE  SettlesInOrder
<1> DEFINE hits == Superseded(status, active)
           trimmed == apply_superseded_skips(status, active)
           ck == [r \in Rows |-> IF r \in hits THEN "none" ELSE check[r]]
           next == promote_stages(trimmed, ck)
<1>1. /\ status' = next /\ Abandon(hits) /\ scan' = scan /\ phase' = "override"
      /\ reason' = [r \in Rows |-> IF r \in hits THEN "superseded" ELSE reason[r]]
    BY DEF EndVerify, Enter
<1>2. hits = {}
    BY NothingToNormalise DEF NothingOutside
<1>3. \A x \in Rows : trimmed[x] = status[x]
    BY <1>2 DEF apply_superseded_skips
<1>4. \A x \in Rows : next[x] \in {trimmed[x], "ready", "pending"}
    BY PromoteRows
<1> HIDE DEF hits, trimmed, ck, next
<1>5. \A x \in Rows : status'[x] \in SatisfiedStatuses => status[x] \in SatisfiedStatuses
    BY <1>1, <1>3, <1>4 DEF SatisfiedStatuses
<1> QED
    BY <1>1, <1>2, <1>5 DEF SettlesInOrder, NothingScanned, Abandon

LEMMA EndReconcileSettles ==
    ASSUME TickInv, NothingOutside, NothingScanned, EndReconcile
    PROVE  SettlesInOrder
<1> DEFINE unselected == NotSelected(status, reason, active)
           kept == apply_not_selected_skips(status, reason, active)
           hits == Superseded(kept, active)
           trimmed == apply_superseded_skips(kept, active)
           repaired == repair_orphaned_pending_upstream(trimmed)
           trust == IF SkipVerify THEN Trusted(repaired) ELSE {}
           settled == [r \in Rows |-> IF r \in trust THEN "skipped" ELSE repaired[r]]
           reopened == Reselected(status, reason, active)
           ck == [r \in Rows |-> IF r \in unselected \cup hits \cup reopened THEN "none" ELSE check[r]]
           next == IF SkipVerify THEN promote_stages(settled, ck) ELSE settled
<1>1. /\ status' = next /\ Abandon(unselected \cup hits) /\ scan' = scan
      /\ phase' \in {"drain", "verify"} => todo' = {r \in Rows : scan[r] \in Verdicts}
      /\ \A x \in Rows : reason'[x] = IF x \in trust THEN "trusted"
                                      ELSE IF x \in hits THEN "superseded"
                                      ELSE IF x \in unselected THEN "not_selected"
                                      ELSE IF x \in reopened THEN "none"
                                      ELSE reason[x]
    BY DEF EndReconcile, Enter, run
<1>2. unselected = {} /\ hits = {} /\ trust = {}
    BY NothingToNormalise DEF NothingOutside
<1>3. \A x \in Rows : x \notin reopened
    BY NotSelectedRows DEF TickInv, BudgetInv, SkippedOutside, Reselected
<1>4. \A x \in Rows : kept[x] = status[x]
    BY <1>2, <1>3 DEF apply_not_selected_skips
<1>5. \A x \in Rows : trimmed[x] = kept[x]
    BY <1>2 DEF apply_superseded_skips
<1>6. \A x \in Rows : settled[x] = trimmed[x]
    BY <1>2, NothingToNormalise DEF NothingOutside
<1>7. \A x \in Rows : next[x] \in {settled[x], "ready", "pending"}
    BY PromoteRows
<1> HIDE DEF unselected, kept, hits, trimmed, repaired, trust, settled, reopened, ck, next
<1>8. \A x \in Rows : status'[x] \in SatisfiedStatuses => status[x] \in SatisfiedStatuses
    BY <1>1, <1>4, <1>5, <1>6, <1>7 DEF SatisfiedStatuses
<1>9. NothingScanned'
    BY <1>1 DEF NothingScanned, Verdicts
<1> QED
    BY <1>1, <1>2, <1>3, <1>8, <1>9 DEF SettlesInOrder, Abandon

LEMMA OthersSettle ==
    ASSUME TickInv, NothingScanned, Environment \/ SupervisorRestarts \/ UNCHANGED vars
    PROVE  SettlesInOrder
<1>1. TypeOK /\ VisitedOpen
    BY DEF TickInv, BudgetInv
<1>2. CASE Environment
  <2>1. status' = status /\ reason' = reason /\ phase' = phase /\ todo' = todo
    BY <1>2 DEF Environment, WorkerExits, OrphanExits, BackoffElapses, ScanFinishes, Outside
  <2>2. scan' = scan /\ \A x \in Rows : orphan'[x] => orphan[x]
    BY <1>1, <1>2 DEF Environment, WorkerExits, OrphanExits, BackoffElapses, ScanFinishes, work, TypeOK,
                      NothingScanned
  <2> QED
    BY <2>1, <2>2 DEF SettlesInOrder, NothingScanned
<1>3. CASE SupervisorRestarts
  <2>1. reason' = reason /\ phase' = "idle" /\ orphan' = orphan /\ scan' = [r \in Rows |-> "idle"]
    BY <1>3 DEF SupervisorRestarts, ledger, work
  <2>2. ASSUME NEW r \in todo, HalfFinalized(r)
        PROVE  \A x \in Rows : status'[x] \in SatisfiedStatuses => status[x] \in SatisfiedStatuses \cup {"running"}
    BY <1>1, <2>2 DEF HalfFinalized, VisitedOpen, TypeOK, SatisfiedStatuses
  <2>3. status' = status \/ \E r \in todo : HalfFinalized(r)
    BY <1>3 DEF SupervisorRestarts
  <2> QED
    BY <2>1, <2>2, <2>3 DEF SettlesInOrder, NothingScanned
<1>4. CASE UNCHANGED vars
    BY <1>4 DEF vars, ledger, work, SettlesInOrder, NothingScanned
<1> QED
    BY <1>2, <1>3, <1>4

LEMMA StepsSettle ==
    ASSUME NothingIsAbandoned, TickInv, NothingOutside, NothingScanned, ~ Operator, [Next]_vars
    PROVE  SettlesInOrder
<1>1. CASE BeginTick \/ EndForce \/ EndDrain \/ FillPools \/ EndTick
  <2>1. /\ status' = status /\ reason' = reason /\ orphan' = orphan /\ scan' = scan
        /\ phase' \in {"drain", "verify"} => todo' = {}
    BY <1>1, NothingToVerify DEF BeginTick, EndForce, EndDrain, FillPools, EndTick, Enter, ledger,
       work, NothingOutside
  <2> QED
    BY <2>1 DEF SettlesInOrder, NothingScanned
<1>2. ASSUME NEW r \in Rows, VerifyRow(r) PROVE FALSE
    BY <1>2 DEF VerifyRow, ApplyScan, VerifyFast, VerifyScheduled, Visit, NothingScanned
<1> QED
    BY <1>1, <1>2, LaunchSettles, ReconcileSettles, EndVerifySettles, EndReconcileSettles, OthersSettle
       DEF Next, Supervisor

LEMMA InitSingle ==
    ASSUME WholeRuns
    PROVE  Init => SingleInv
<1> SUFFICES ASSUME Init PROVE NoOrphans /\ NothingScanned /\ ConfigSkips /\ SettledUpwards
    BY InitWhole DEF SingleInv
<1>1. NoOrphans /\ NothingScanned
    BY DEF Init, NoOrphans, NothingScanned
<1>2. PICK setup \in RunSetups :
        LET act == setup.active
            made == Created(act)
            configured == [r \in Rows |-> IF r[2] \in PreSkipped THEN "config" ELSE "none"]
            kept == apply_not_selected_skips(made, configured, act)
        IN  /\ active = act
            /\ status = apply_superseded_skips(kept, act)
            /\ reason = [r \in Rows |->
                  IF r \in NotSelected(made, configured, act) THEN "not_selected"
                  ELSE IF r \in Superseded(kept, act) THEN "superseded"
                  ELSE configured[r]]
    BY DEF Init
<1> DEFINE made == Created(active)
           configured == [r \in Rows |-> IF r[2] \in PreSkipped THEN "config" ELSE "none"]
           kept == apply_not_selected_skips(made, configured, active)
<1>3. active = Stages
    BY <1>2 DEF WholeRuns
<1>4. NotSelected(made, configured, active) = {} /\ Superseded(kept, active) = {}
    BY <1>3, NothingToNormalise
<1>5. Reselected(made, configured, active) = {}
    BY DEF Reselected
<1>6. \A x \in Rows : kept[x] = made[x]
    BY <1>4, <1>5 DEF apply_not_selected_skips
<1>7. \A x \in Rows : status[x] = kept[x] /\ reason[x] = configured[x]
    BY <1>2, <1>4 DEF apply_superseded_skips
<1>8. \A x \in Rows : made[x] = IF x[2] \in PreSkipped THEN "skipped" ELSE "pending"
    BY <1>3 DEF Created, Rows
<1> HIDE DEF made, kept
<1>9. ConfigSkips
    BY <1>6, <1>7, <1>8 DEF ConfigSkips
<1>10. SettledUpwards
    BY <1>6, <1>7, <1>8 DEF SettledUpwards, SatisfiedStatuses
<1> QED
    BY <1>1, <1>9, <1>10

\* The rows a retried run resets include whatever comes after one of them, and none
\* of them runs.
LEMMA RetryRunSingle ==
    ASSUME SingleInv, RetryRun
    PROVE  NoOrphans' /\ ConfigSkips' /\ SettledUpwards'
<1> DEFINE seeds == {r \in Rows : status[r] \in {"failed", "canceled", "blocked"}}
           R == UNION {RetryCone(r, TRUE) : r \in seeds}
<1>0. TypeOK /\ LiveRuns /\ NoOrphans /\ ConfigSkips /\ SettledUpwards
    BY DEF SingleInv, WholeInv, SettledInv, TickInv, BudgetInv, RowsInv
<1>1. reset_stage_for_retry(R)
    BY DEF RetryRun
<1>2. ASSUME NEW x \in Rows, x \in R
      PROVE  x[2] \notin PreSkipped /\ worker[x] # "live"
  <2>1. PICK r \in seeds : x \in RetryCone(r, TRUE)
    BY <1>2
  <2>2. reason[x] # "config" /\ (x = r \/ x \in DownstreamRows(r))
    BY <2>1 DEF RetryCone
  <2>3. x[2] \notin PreSkipped
    BY <1>0, <2>2 DEF ConfigSkips
  <2>4. r \in Rows /\ r[2] \in Stages \ PreSkipped /\ status[r] \notin SatisfiedStatuses \cup {"running"}
    BY <1>0 DEF ConfigSkips, SatisfiedStatuses, Rows
  <2>5. CASE x = r
    BY <1>0, <2>3, <2>4, <2>5 DEF LiveRuns
  <2>6. CASE x \in DownstreamRows(r)
    <3>1. r = <<x[1], r[2]>> /\ x[2] \in downstream_stages[r[2]]
      BY <2>6 DEF DownstreamRows, RowsOf, Rows
    <3>2. status[x] # "running"
      BY <1>0, <2>3, <2>4, <3>1 DEF SettledUpwards
    <3> QED
      BY <1>0, <2>3, <3>2 DEF LiveRuns
  <2> QED
    BY <2>2, <2>5, <2>6
<1>3. ASSUME NEW x \in Rows, NEW d \in Stages, x[2] \in downstream_stages[d], <<x[1], d>> \in R,
             x[2] \notin PreSkipped
      PROVE  x \in R
  <2>1. PICK r \in seeds : <<x[1], d>> \in RetryCone(r, TRUE)
    BY <1>3
  <2>2. r = <<r[1], r[2]>> /\ r[2] \in Stages /\ x = <<x[1], x[2]>>
    BY DEF Rows
  <2>3. x[1] = r[1] /\ (d = r[2] \/ d \in downstream_stages[r[2]])
    BY <2>1, <2>2 DEF RetryCone, DownstreamRows, RowsOf
  <2>4. x[2] \in downstream_stages[r[2]]
    BY <1>3, <2>2, <2>3, DownstreamIsTransitive
  <2>5. x \in RetryCone(r, TRUE)
    BY <1>0, <1>3, <2>2, <2>3, <2>4 DEF RetryCone, DownstreamRows, RowsOf, ConfigSkips
  <2> QED
    BY <2>5
<1> HIDE DEF R
<1>4. NoOrphans'
    BY <1>0, <1>1, <1>2 DEF reset_stage_for_retry, Abandon, NoOrphans
<1>5. \A x \in Rows : IF x \in R THEN status'[x] \in {"pending", "external"} /\ reason'[x] = "none"
                      ELSE status'[x] = status[x] /\ reason'[x] = reason[x]
    BY <1>1 DEF reset_stage_for_retry
<1>6. ConfigSkips'
    BY <1>0, <1>2, <1>5 DEF ConfigSkips
<1>7. ASSUME NEW x \in Rows, x[2] \notin PreSkipped, status'[x] \in SatisfiedStatuses \cup {"running"},
             NEW d \in Stages \ PreSkipped, x[2] \in downstream_stages[d]
      PROVE  status'[<<x[1], d>>] \in SatisfiedStatuses
  <2>1. x \notin R /\ status'[x] = status[x]
    BY <1>5, <1>7 DEF SatisfiedStatuses
  <2>2. <<x[1], d>> \in Rows /\ <<x[1], d>> \notin R
    BY <1>3, <1>7, <2>1 DEF Rows
  <2> QED
    BY <1>0, <1>5, <1>7, <2>1, <2>2 DEF SettledUpwards
<1> QED
    BY <1>4, <1>6, <1>7 DEF SettledUpwards

LEMMA CommandSingle ==
    ASSUME WholeRuns, NothingIsAbandoned, SingleInv, Operator
    PROVE  NoOrphans' /\ NothingScanned' /\ ConfigSkips' /\ SettledUpwards'
<1>0. TypeOK /\ NoOrphans /\ NothingScanned /\ ConfigSkips /\ SettledUpwards
    BY DEF SingleInv, WholeInv, SettledInv, TickInv, BudgetInv
<1> USE DEF ledger, work
<1>1. phase' = "idle"
    BY CommandIdle
<1>2. ASSUME NEW R, CancelScans(R) PROVE \A x \in Rows : scan'[x] = "idle"
    BY <1>0, <1>2 DEF CancelScans, NothingScanned
<1>3. ASSUME \A x \in Rows : scan'[x] = "idle" PROVE NothingScanned'
    BY <1>1, <1>3 DEF NothingScanned
<1>4. ASSUME UNCHANGED <<status, reason, orphan, scan>>
      PROVE  NoOrphans' /\ NothingScanned' /\ ConfigSkips' /\ SettledUpwards'
    BY <1>0, <1>1, <1>4 DEF NoOrphans, NothingScanned, ConfigSkips, SettledUpwards
<1>5. CASE Cancel
  <2>1. /\ reason' = reason /\ orphan' = orphan /\ CancelScans(Rows)
        /\ \A x \in Rows : status'[x] = IF status[x] \in NonterminalStatuses THEN "canceled" ELSE status[x]
    BY <1>5 DEF Cancel, Terminate
  <2>2. \A x \in Rows : /\ status[x] \in SatisfiedStatuses => status'[x] = status[x]
                        /\ status'[x] \in SatisfiedStatuses \cup {"running"} => status'[x] = status[x]
    BY <2>1 DEF NonterminalStatuses, SatisfiedStatuses
  <2>3. ConfigSkips' /\ NoOrphans'
    BY <1>0, <2>1, <2>2 DEF ConfigSkips, NoOrphans, SatisfiedStatuses
  <2>4. SettledUpwards'
    BY <1>0, <2>2 DEF SettledUpwards, Rows
  <2> QED
    BY <1>2, <1>3, <2>1, <2>3, <2>4
<1>6. CASE Pause \/ Resume \/ \E r \in Rows : ForceLaunch(r)
    BY <1>4, <1>6 DEF Pause, Resume, SetPaused, ForceLaunch
<1>7. CASE RetryRun
  <2>1. CancelScans(Rows)
    BY <1>7 DEF RetryRun
  <2> QED
    BY <1>2, <1>3, <1>7, <2>1, RetryRunSingle
<1>8. ASSUME NEW S \in RerunSelections, ForceRerun(S)
      PROVE  NoOrphans' /\ NothingScanned' /\ ConfigSkips' /\ SettledUpwards'
  <2>1. PreSkipped = {} /\ S = Stages
    BY <1>8 DEF ForceRerun, Command, NothingIsAbandoned, WholeRuns
  <2>2. \A x \in Rows : x \in Targets \X S
    BY <2>1 DEF Rows
  <2>3. /\ orphan' = orphan /\ CancelScans(Rows)
        /\ \A x \in Rows : status'[x] = "pending" /\ reason'[x] = "none"
    BY <1>8, <2>2 DEF ForceRerun, Terminate
  <2> QED
    BY <1>0, <1>2, <1>3, <2>1, <2>3 DEF NoOrphans, ConfigSkips, SettledUpwards, SatisfiedStatuses
<1>9. ASSUME NEW r \in Rows, NEW down \in BOOLEAN PROVE ~ RetryStage(r, down)
    BY DEF RetryStage, Command, NothingIsAbandoned
<1> QED
    BY <1>5, <1>6, <1>7, <1>8, <1>9 DEF Operator

\* What may start waits for rows that are settled, and so does what they waited for.
LEMMA StartsUpwards ==
    ASSUME KeepsTheOrder, SettledUpwards, NEW x \in Rows, x[2] \notin PreSkipped, MayStart(x),
           NEW d \in Stages \ PreSkipped, x[2] \in downstream_stages[d]
    PROVE  status[<<x[1], d>>] \in SatisfiedStatuses
<1>1. x[2] \in Stages
    BY DEF Rows
<1>2. \A e \in EffectiveDeps[x[2]] : <<x[1], e>> \in Rows /\ status[<<x[1], e>>] \in SatisfiedStatuses
    BY RowOfInput DEF MayStart, deps_satisfied
<1>3. CASE d \in EffectiveDeps[x[2]]
    BY <1>2, <1>3
<1>4. ASSUME NEW e \in EffectiveDeps[x[2]] \ PreSkipped, e \in downstream_stages[d]
      PROVE  status[<<x[1], d>>] \in SatisfiedStatuses
    BY <1>2, <1>4 DEF SettledUpwards
<1> QED
    BY <1>1, <1>3, <1>4 DEF KeepsTheOrder

LEMMA NextSingle ==
    ASSUME WholeRuns, NothingIsAbandoned, KeepsTheOrder
    PROVE  SingleInv /\ [Next]_vars => SingleInv'
<1> SUFFICES ASSUME SingleInv, [Next]_vars
             PROVE  NoOrphans' /\ NothingScanned' /\ ConfigSkips' /\ SettledUpwards'
    BY NextWhole DEF SingleInv
<1>0. TickInv /\ NothingOutside /\ NoOrphans /\ NothingScanned /\ ConfigSkips /\ SettledUpwards
    BY DEF SingleInv, WholeInv, SettledInv
<1>1. CASE Operator
    BY <1>1, CommandSingle
<1>2. CASE ~ Operator
  <2>1. SettlesInOrder
    BY <1>0, <1>2, StepsSettle
  <2>2. Orderly
    BY <1>0, <1>2, SupervisorOrder, OthersOrder DEF Next
  <2>3. NoOrphans' /\ NothingScanned'
    BY <1>0, <2>1 DEF SettlesInOrder, NoOrphans
  <2>4. ConfigSkips'
    BY <1>0, <2>1, <2>2 DEF ConfigSkips, SettlesInOrder, Orderly, SettledStays, ConfigStays,
       SatisfiedStatuses
  <2>5. ASSUME NEW x \in Rows, x[2] \notin PreSkipped, status'[x] \in SatisfiedStatuses \cup {"running"},
               NEW d \in Stages \ PreSkipped, x[2] \in downstream_stages[d]
        PROVE  status'[<<x[1], d>>] \in SatisfiedStatuses
    <3>1. status[x] \in SatisfiedStatuses \cup {"running"} \/ MayStart(x)
      BY <2>1, <2>2, <2>5 DEF SettlesInOrder, Orderly, StartsInOrder
    <3>2. status[<<x[1], d>>] \in SatisfiedStatuses
      BY <1>0, <2>5, <3>1, StartsUpwards DEF SettledUpwards
    <3>3. <<x[1], d>> \in Rows
      BY DEF Rows
    <3> QED
      BY <2>2, <3>2, <3>3 DEF Orderly, SettledStays
  <2> QED
    BY <2>3, <2>4, <2>5 DEF SettledUpwards
<1> QED
    BY <1>1, <1>2

\* In a run of the whole pipeline whose stages are not retried one by one, no row
\* ever has two workers, and none is left behind: a retried run finds no worker
\* behind the rows it reopens, for every DAG, however often launches fail, workers
\* are evicted or lost, and the supervisor dies.
THEOREM WorkersStaySingle ==
    ASSUME WholeRuns, NothingIsAbandoned, KeepsTheOrder
    PROVE  Spec => []NoDuplicateWorker
<1>1. SingleInv => NoDuplicateWorker
    BY DEF SingleInv, NoOrphans, NoDuplicateWorker
<1>2. Init => SingleInv
    BY InitSingle
<1>3. SingleInv /\ [Next]_vars => SingleInv'
    BY NextSingle
<1> QED
    BY <1>1, <1>2, <1>3, PTL DEF Spec

-----------------------------------------------------------------------------
(****************************************************************************)
(* Part 4.  Pools                                                           *)
(*                                                                          *)
(* FillPools looks at the running rows once and then launches one row after *)
(* the other. The invariant counts the rows that run together with those    *)
(* that have been picked: only FillPools adds to them.                      *)
(****************************************************************************)
\* The operator does not override pool limits.
NoForcedLaunches == "force_launch" \notin Commands

NoOverride ==
    /\ \A r \in Rows : ~ forced[r]
    /\ phase \in {"force", "override"} => todo = {}

\* The rows of pool p that run or are about to be launched.
Claimed(p) == RunningIn(p) \cup {r \in todo : phase = "launch" /\ PoolOf[r[2]] = p}

ClaimsFit == \A p \in Pools : Cardinality(Claimed(p)) <= Capacity[p]

PoolInv == TickInv /\ NoOverride /\ ClaimsFit

(****************************************************************************)
(* Counting                                                                 *)
(****************************************************************************)
LEMMA RowsFinite == IsFiniteSet(Rows)
BY FS_Product, StagesAssumption, StageRunsAssumption DEF Rows

LEMMA ClaimsFinite ==
    ASSUME TypeOK, NEW p
    PROVE  /\ RunningIn(p) \subseteq Claimed(p)
           /\ Claimed(p) \subseteq Rows
           /\ IsFiniteSet(Claimed(p)) /\ IsFiniteSet(RunningIn(p))
           /\ Cardinality(Claimed(p)) \in Nat
           /\ Cardinality(RunningIn(p)) <= Cardinality(Claimed(p))
<1>1. RunningIn(p) \subseteq Claimed(p) /\ Claimed(p) \subseteq Rows
    BY DEF Claimed, RunningIn, running_stage_runs, TypeOK
<1>2. IsFiniteSet(Claimed(p))
    BY <1>1, RowsFinite, FS_Subset
<1> QED
    BY <1>1, <1>2, FS_Subset, FS_CardinalityType

\* A step that starts only rows it had picked, and picks none, keeps the claims
\* within the capacity.
LEMMA ClaimsShrink ==
    ASSUME PoolInv, TypeOK',
           \A x \in Rows : status'[x] = "running" =>
               status[x] = "running" \/ (phase = "launch" /\ x \in todo),
           phase' = "launch" => phase = "launch" /\ todo' \subseteq todo
    PROVE  ClaimsFit'
<1> SUFFICES ASSUME NEW p \in Pools PROVE Cardinality(Claimed(p)') <= Capacity[p]
    BY DEF ClaimsFit, Pools
<1>1. TypeOK
    BY DEF PoolInv, TickInv, BudgetInv
<1>2. Claimed(p)' \subseteq Claimed(p)
    BY DEF Claimed, RunningIn, running_stage_runs
<1>3. Cardinality(Claimed(p)') <= Cardinality(Claimed(p)) /\ Cardinality(Claimed(p)') \in Nat
    BY <1>1, <1>2, ClaimsFinite, FS_Subset, FS_CardinalityType
<1> QED
    BY <1>1, <1>3, ClaimsFinite, StageRunsAssumption DEF PoolInv, ClaimsFit

LEMMA FillPoolsClaims ==
    ASSUME PoolInv, TypeOK', FillPools
    PROVE  ClaimsFit'
<1>1. TypeOK /\ phase = "override" /\ todo = {} /\ phase' = "launch" /\ status' = status
    BY DEF PoolInv, TickInv, BudgetInv, FillPools, Leave, Enter
<1>2. PICK batch \in SUBSET {r \in Rows : status[r] = "ready" /\ ~backoff[r]} :
        /\ \A p \in Pools :
             LET room == Capacity[p] - Cardinality(RunningIn(p))
                 taken == Cardinality(batch \cap FetchableIn(p))
             IN  taken <= room \/ taken = 0
        /\ todo' = batch
    BY DEF FillPools, Enter
<1> SUFFICES ASSUME NEW p \in Pools PROVE Cardinality(Claimed(p)') <= Capacity[p]
    BY DEF ClaimsFit, Pools
<1> DEFINE picked == batch \cap FetchableIn(p)
<1>3. RunningIn(p)' = RunningIn(p)
    BY <1>1 DEF RunningIn, running_stage_runs
<1>4. Claimed(p)' = RunningIn(p) \cup picked
    BY <1>1, <1>2, <1>3 DEF Claimed, FetchableIn
<1>5. /\ IsFiniteSet(RunningIn(p)) /\ Cardinality(RunningIn(p)) \in Nat
      /\ Cardinality(RunningIn(p)) <= Capacity[p]
      /\ Capacity[p] \in Nat
  <2>1. Cardinality(Claimed(p)) <= Capacity[p] /\ Capacity[p] \in Nat
    BY StageRunsAssumption DEF PoolInv, ClaimsFit
  <2>2. /\ IsFiniteSet(RunningIn(p)) /\ Cardinality(Claimed(p)) \in Nat
        /\ Cardinality(RunningIn(p)) <= Cardinality(Claimed(p))
    BY <1>1, ClaimsFinite
  <2>3. Cardinality(RunningIn(p)) \in Nat
    BY <2>2, FS_CardinalityType
  <2> QED
    BY <2>1, <2>2, <2>3
<1>6. IsFiniteSet(picked) /\ Cardinality(picked) \in Nat
    BY <1>2, RowsFinite, FS_Subset, FS_CardinalityType
<1>7. /\ Cardinality(RunningIn(p) \cup picked)
           = Cardinality(RunningIn(p)) + Cardinality(picked)
             - Cardinality(RunningIn(p) \cap picked)
      /\ Cardinality(RunningIn(p) \cap picked) \in Nat
    BY <1>5, <1>6, FS_Union, FS_Intersection, FS_CardinalityType
<1>8. Cardinality(picked) <= Capacity[p] - Cardinality(RunningIn(p)) \/ Cardinality(picked) = 0
    BY <1>2
<1> HIDE DEF picked
<1> QED
    BY <1>4, <1>5, <1>6, <1>7, <1>8

(****************************************************************************)
(* The steps                                                                *)
(****************************************************************************)
LEMMA InitPools == Init => PoolInv
<1> SUFFICES ASSUME Init PROVE NoOverride /\ ClaimsFit
    BY InitTick DEF PoolInv
<1>1. NoOverride
    BY DEF Init, NoOverride
<1>2. \A x \in Rows : status[x] # "running"
  <2>1. PICK setup \in RunSetups :
          LET act == setup.active
              made == Created(act)
              configured == [r \in Rows |-> IF r[2] \in PreSkipped THEN "config" ELSE "none"]
              kept == apply_not_selected_skips(made, configured, act)
          IN  status = apply_superseded_skips(kept, act)
      BY DEF Init
  <2> QED
      BY <2>1 DEF apply_superseded_skips, apply_not_selected_skips, Created
<1>3. ASSUME NEW p \in Pools PROVE Cardinality(Claimed(p)) <= Capacity[p]
  <2>1. Claimed(p) = {}
    BY <1>2 DEF Init, Claimed, RunningIn, running_stage_runs
  <2> QED
    BY <2>1, FS_EmptySet, StageRunsAssumption
<1> QED
    BY <1>1, <1>3 DEF ClaimsFit

\* Without the override no row is ever marked for one.
LEMMA ForcedStays ==
    ASSUME PoolInv, NoForcedLaunches, [Next]_vars
    PROVE  \A r \in Rows : ~ forced'[r]
<1> USE DEF ledger, work, run
<1>1. TypeOK /\ NoOverride
    BY DEF PoolInv, TickInv, BudgetInv
<1>2. CASE Operator
  <2>1. forced' = forced
    BY <1>2 DEF Operator, Cancel, Pause, Resume, SetPaused, RetryRun, RetryStage, ForceRerun,
                ForceLaunch, Command, reset_stage_for_retry, NoForcedLaunches
  <2> QED
    BY <1>1, <2>1 DEF NoOverride
<1>3. CASE Supervisor
  <2>1. ASSUME NEW r \in Rows, SpendOverride(r) PROVE \A x \in Rows : ~ forced'[x]
    BY <1>1, <2>1 DEF SpendOverride, NoOverride, TypeOK
  <2>2. ASSUME NEW r \in Rows, LaunchRow(r) PROVE \A x \in Rows : ~ forced'[x]
    BY <1>1, <2>1, <2>2 DEF LaunchRow, LaunchRefused, LaunchDemoted, LaunchSkipped, LaunchOk,
                            LaunchFails, NoOverride
  <2>3. ASSUME NEW r \in Rows, ReconcileRow(r) \/ VerifyRow(r) PROVE forced' = forced
    BY <2>3 DEF ReconcileRow, KeepRunning, Finalize, RequeueLost, RequeueStale,
                RequeueEvicted, FailUnseen, Reconciling, VerifyRow, ApplyScan, VerifyFast,
                VerifyScheduled
  <2>4. CASE BeginTick \/ EndForce \/ EndReconcile \/ EndDrain \/ EndVerify \/ FillPools
             \/ EndTick
    <3>1. forced' = forced
      BY <2>4 DEF BeginTick, EndForce, EndReconcile, EndDrain, EndVerify, FillPools, EndTick
    <3> QED
      BY <1>1, <3>1 DEF NoOverride
  <2> QED
    BY <1>1, <1>3, <2>2, <2>3, <2>4 DEF Supervisor, NoOverride
<1>4. CASE Environment \/ SupervisorRestarts \/ UNCHANGED vars
  <2>1. forced' = forced
    BY <1>4 DEF Environment, WorkerExits, OrphanExits, BackoffElapses, ScanFinishes, Outside,
                SupervisorRestarts, vars
  <2> QED
    BY <1>1, <2>1 DEF NoOverride
<1> QED
    BY <1>2, <1>3, <1>4 DEF Next

\* How the phases follow each other, as far as the launch loops go.
LEMMA PhaseOrder ==
    ASSUME PoolInv, [Next]_vars
    PROVE  /\ phase' \in {"force", "override"} =>
                \/ phase' = phase /\ todo' \subseteq todo
                \/ \E st : todo' = ForceLaunchable(st)
           /\ phase' = "launch" => FillPools \/ (phase = "launch" /\ todo' \subseteq todo)
<1>1. CASE Operator
    BY <1>1, CommandIdle
<1>2. CASE Environment \/ UNCHANGED vars
    BY <1>2 DEF Environment, WorkerExits, OrphanExits, BackoffElapses, ScanFinishes, Outside,
                vars
<1>3. CASE SupervisorRestarts
    BY <1>3 DEF SupervisorRestarts
<1>4. CASE \E r \in Rows : LaunchRow(r) \/ ReconcileRow(r) \/ VerifyRow(r)
  <2>1. PICK r \in Rows : \E ph : Visit(ph, r)
    BY <1>4 DEF LaunchRow, LaunchRefused, LaunchDemoted, LaunchSkipped, LaunchOk, LaunchFails,
                Claimable, Launching, ReconcileRow, KeepRunning, Finalize, RequeueLost,
                RequeueStale, RequeueEvicted, FailUnseen, Reconciling, VerifyRow, ApplyScan,
                VerifyFast, VerifyScheduled
  <2> QED
    BY <2>1 DEF Visit
<1>5. CASE BeginTick \/ EndForce \/ EndDrain \/ EndTick
    BY <1>5 DEF BeginTick, EndForce, EndDrain, EndTick, Enter
<1>6. CASE EndReconcile
    BY <1>6 DEF EndReconcile, Enter
<1>7. CASE EndVerify
    BY <1>7 DEF EndVerify, Enter
<1>8. CASE FillPools
    BY <1>8 DEF FillPools, Enter
<1> QED
    BY <1>1, <1>2, <1>3, <1>4, <1>5, <1>6, <1>7, <1>8 DEF Next, Supervisor

\* Commands start nothing.
LEMMA CommandStartsNothing ==
    ASSUME TypeOK, Operator, NEW x \in Rows, status'[x] = "running"
    PROVE  status[x] = "running"
<1> USE DEF ledger
<1>1. CASE Cancel
    BY <1>1 DEF Cancel
<1>2. ASSUME NEW R, reset_stage_for_retry(R) PROVE status[x] = "running"
    BY <1>2 DEF reset_stage_for_retry
<1>3. ASSUME NEW r \in Rows, NEW down \in BOOLEAN, RetryStage(r, down)
      PROVE  status[x] = "running"
    BY <1>2, <1>3 DEF RetryStage, TypeOK
<1>4. CASE RetryRun
    BY <1>2, <1>4 DEF RetryRun
<1>5. ASSUME NEW S \in RerunSelections, ForceRerun(S) PROVE status[x] = "running"
    BY <1>5 DEF ForceRerun
<1> QED
    BY <1>1, <1>3, <1>4, <1>5 DEF Operator, Pause, Resume, SetPaused, ForceLaunch

LEMMA NextPools ==
    ASSUME NoForcedLaunches
    PROVE  PoolInv /\ [Next]_vars => PoolInv'
<1> SUFFICES ASSUME PoolInv, [Next]_vars PROVE PoolInv'
    OBVIOUS
<1>1. /\ TickInv /\ TickInv'
      /\ TypeOK /\ TypeOK' /\ NoOverride
    BY NextTick DEF PoolInv, TickInv, BudgetInv
<1>2. \A r \in Rows : ~ forced'[r]
    BY ForcedStays
<1>3. NoOverride'
  <2>1. ASSUME phase' \in {"force", "override"} PROVE todo' = {}
    <3>1. CASE phase' = phase /\ todo' \subseteq todo
      BY <1>1, <2>1, <3>1 DEF NoOverride
    <3>2. CASE \E st : todo' = ForceLaunchable(st)
      BY <1>1, <3>2 DEF ForceLaunchable, NoOverride
    <3> QED
      BY <2>1, <3>1, <3>2, PhaseOrder
  <2> QED
    BY <1>2, <2>1 DEF NoOverride
<1>4. ClaimsFit'
  <2>1. ASSUME NEW x \in Rows, status'[x] = "running"
        PROVE  status[x] = "running" \/ (phase = "launch" /\ x \in todo)
    <3>1. CASE Operator
      BY <1>1, <2>1, <3>1, CommandStartsNothing
    <3>2. CASE Orderly
      BY <1>1, <2>1, <3>2 DEF Orderly, StartsInOrder, MayStart, NoOverride
    <3> QED
      BY <1>1, <3>1, <3>2, SupervisorOrder, OthersOrder DEF Next
  <2>2. CASE FillPools
    BY <1>1, <2>2, FillPoolsClaims
  <2>3. CASE ~ FillPools
    BY <1>1, <2>1, <2>3, PhaseOrder, ClaimsShrink
  <2> QED
    BY <2>2, <2>3
<1> QED
    BY <1>1, <1>3, <1>4 DEF PoolInv

\* As long as nobody forces a launch, no pool runs more rows than its capacity:
\* the running rows are counted once for a whole batch of launches, and nothing
\* that happens before the batch is through adds to them.
THEOREM PoolsKeepCapacity ==
    ASSUME NoForcedLaunches
    PROVE  Spec => []PoolWithinCapacity
<1>1. ASSUME PoolInv PROVE PoolWithinCapacity
  <2>1. TypeOK /\ ClaimsFit
    BY <1>1 DEF PoolInv, TickInv, BudgetInv
  <2>2. ASSUME NEW p \in Pools PROVE Cardinality(RunningIn(p)) <= Capacity[p]
    <3>1. /\ Cardinality(Claimed(p)) \in Nat /\ IsFiniteSet(RunningIn(p))
          /\ Cardinality(RunningIn(p)) <= Cardinality(Claimed(p))
      BY <2>1, ClaimsFinite
    <3>2. Cardinality(RunningIn(p)) \in Nat
      BY <3>1, FS_CardinalityType
    <3>3. Cardinality(Claimed(p)) <= Capacity[p] /\ Capacity[p] \in Nat
      BY <2>1, StageRunsAssumption DEF ClaimsFit
    <3> QED
      BY <3>1, <3>2, <3>3
  <2> QED
    BY <2>2 DEF PoolWithinCapacity
<1> QED
    BY <1>1, InitPools, NextPools, PTL DEF Spec
=============================================================================
