-------------------------- MODULE LocalLaunch_proofs ---------------------------
(****************************************************************************)
(* Proofs about LocalLaunch, for any number of launches, restarts and       *)
(* commands and every kind of fault.                                        *)
(*                                                                          *)
(* The status file has one name for all launches of a stage, so what it     *)
(* says has to be tied to the launch whose token it carries, and the row's  *)
(* descriptor to the current launch.                                        *)
(****************************************************************************)
EXTENDS LocalLaunch, TLAPS

\* A launch in progress is that of a running row; only a claimed row has a launch.
LaunchUnderWay ==
    /\ step # "idle" => status = "running"
    /\ status \in {"running", "success"} => launch \in Launches

\* No process exists before its launch has spawned it.
NotYetSpawned ==
    \A w \in Launches : w > launch \/ (w = launch /\ step \in {"claimed", "cleared"}) => worker[w] = "none"

\* What the file says of a launch was so when its worker wrote it, and an exit is final.
FileIsTrue ==
    file.token \in Launches =>
        /\ file.state = "running" => worker[file.token] \in {"working", "killed", "lost"}
        /\ file.state = "ok" => worker[file.token] = "ok"
        /\ file.state = "err" => worker[file.token] = "err"

\* A descriptor is that of the current launch, of a running row.
NamesCurrent ==
    /\ native \in {None, launch}
    /\ native # None => status = "running"
    /\ step # "idle" => native = None

\* Every worker is on the supervisor's host unless that has moved.
NobodyElsewhere == "move" \notin lapses => elsewhere = {}

LaunchInv ==
    /\ TypeOK
    /\ LaunchUnderWay
    /\ NotYetSpawned
    /\ FileIsTrue
    /\ NamesCurrent
    /\ NobodyElsewhere
    /\ SuccessIsEarned

\* Without a lapse, also inside a launch: a worker that is alive is the one just
\* spawned or the one the row names, and has left its record once its grace is over.
OneIsLive ==
    lapses = {} =>
        /\ \A w \in Launches : Live(w) =>
              /\ status = "running" /\ w = launch
              /\ step \in {"idle", "spawned"}
              /\ step = "idle" => native = w
              /\ worker[w] = "working" => file = [token |-> w, state |-> "running"]
        /\ status = "running" /\ ~ fresh => worker[launch] \notin {"none", "starting"}

NamedInv == LaunchInv /\ OneIsLive

(****************************************************************************)
(* Types                                                                    *)
(****************************************************************************)
LEMMA ConstantsTyped == /\ MaxAttempts \in Nat /\ MaxLaunches \in Nat
                        /\ MaxCrashes \in Nat /\ MaxCommands \in Nat
BY LocalLaunchAssumption

LEMMA InitTyped == Init => TypeOK
<1>1. Init => fresh \in BOOLEAN
    BY DEF Init
<1> QED
    BY <1>1, ConstantsTyped DEF Init, TypeOK, Launches, None, NoFile

\* What a row is rewritten to when its worker is given up or stopped.
LEMMA RewrittenTyped ==
    ASSUME TypeOK, NEW w \in Launches \cup {None}, terminate_process_tree(w)
    PROVE  worker' \in [Launches -> {"none", "starting", "working", "ok", "err", "killed", "lost"}]
BY DEF TypeOK, terminate_process_tree

LEMMA FreshTyped == TypeOK /\ [Next]_vars => fresh' \in BOOLEAN
BY Zenon DEF TypeOK, Next, vars, row, past, Launching, Claim, RemoveStatusFile, Spawn, SpawnFails,
   Describe,
             requeue_or_fail, give_up, requeue, clear_launch_fields, Restart, Work, Begin, Finish,
             Die, Reconcile, Finalize, Adopt, Lost, Reconciling, GraceElapses, ApplyCancel,
             ApplyRetry, Command

LEMMA TypePreserved == TypeOK /\ [Next]_vars => TypeOK'
<1> SUFFICES ASSUME TypeOK, [Next]_vars PROVE TypeOK'
    OBVIOUS
<1> USE ConstantsTyped, FreshTyped DEF TypeOK, row, past, None
<1>1. CASE Launching
  <2>1. CASE Claim
    BY <2>1 DEF Claim, Launches
  <2>2. CASE RemoveStatusFile
    BY <2>2 DEF RemoveStatusFile
  <2>3. CASE Spawn
    BY <2>3 DEF Spawn
  <2>4. CASE SpawnFails
    BY <2>4, RewrittenTyped DEF SpawnFails, requeue_or_fail, give_up, requeue, clear_launch_fields
  <2>5. CASE Describe
    BY <2>5 DEF Describe, Launches
  <2> QED
    BY <1>1, <2>1, <2>2, <2>3, <2>4, <2>5 DEF Launching
<1>2. CASE Restart
  <2>1. elsewhere' \subseteq Launches
    BY <1>2 DEF Restart
  <2>2. crashes' \in 0 .. MaxCrashes
    BY <1>2 DEF Restart
  <2>3. lapses' \subseteq {"crash", "move", "slow"}
    BY <1>2 DEF Restart
  <2> QED
    BY <1>2, <2>1, <2>2, <2>3 DEF Restart
<1>3. ASSUME NEW w \in Launches, Work(w) PROVE TypeOK'
  <2>1. CASE Begin(w)
    BY <2>1 DEF Begin, WriteStatus
  <2>2. CASE Finish(w)
    BY <2>2 DEF Finish, WriteStatus
  <2>3. CASE Die(w)
    BY <2>3 DEF Die
  <2> QED
    BY <1>3, <2>1, <2>2, <2>3 DEF Work
<1>4. CASE Reconcile
  <2>1. CASE Finalize
    BY <1>4, <2>1 DEF Finalize, Reconciling, clear_launch_fields
  <2>2. CASE Adopt
    BY <1>4, <2>2 DEF Adopt, Reconciling, resolve_local_pid, token_ok, NoFile
  <2>3. CASE Lost
    BY <2>3, RewrittenTyped DEF Lost, Reconciling, requeue_or_fail, give_up, requeue,
                                clear_launch_fields
  <2> QED
    BY <1>4, <2>1, <2>2, <2>3 DEF Reconcile
<1>5. CASE GraceElapses
  BY <1>5 DEF GraceElapses
<1>6. CASE ApplyCancel
  BY <1>6, RewrittenTyped DEF ApplyCancel, Command, clear_launch_fields
<1>7. CASE ApplyRetry
  BY <1>7, RewrittenTyped DEF ApplyRetry, Command, clear_launch_fields
<1>8. CASE UNCHANGED vars
  BY <1>8 DEF vars
<1> QED
  BY <1>1, <1>2, <1>3, <1>4, <1>5, <1>6, <1>7, <1>8 DEF Next

\* Every variable of a local launch keeps its type.
THEOREM TypeCorrect == Spec => []TypeOK
<1> QED
  BY InitTyped, TypePreserved, PTL DEF Spec

(****************************************************************************)
(* The launch, its file and its descriptor                                  *)
(****************************************************************************)
LEMMA InitLaunch == Init => LaunchInv
<1> SUFFICES ASSUME Init PROVE LaunchInv
    OBVIOUS
<1> QED
    BY InitTyped, ConstantsTyped
    DEF Init, LaunchInv, LaunchUnderWay, NotYetSpawned, FileIsTrue, NamesCurrent, NobodyElsewhere,
        SuccessIsEarned, Launches, None, NoFile

LEMMA LaunchPreserved == LaunchInv /\ [Next]_vars => LaunchInv'
<1> SUFFICES ASSUME LaunchInv, [Next]_vars
             PROVE  /\ LaunchUnderWay' /\ NotYetSpawned' /\ FileIsTrue'
                    /\ NamesCurrent' /\ NobodyElsewhere' /\ SuccessIsEarned'
    BY TypePreserved DEF LaunchInv
<1> USE ConstantsTyped DEF LaunchInv, row, past, None, TypeOK, Launches, LaunchUnderWay,
        NotYetSpawned, FileIsTrue, NamesCurrent, NobodyElsewhere, SuccessIsEarned
<1>1. CASE Launching
  <2>1. CASE Claim
    BY <2>1 DEF Claim
  <2>2. CASE RemoveStatusFile
    BY <2>2 DEF RemoveStatusFile, NoFile
  <2>3. CASE Spawn
    BY <2>3 DEF Spawn
  <2>4. CASE SpawnFails
    BY <2>4 DEF SpawnFails, requeue_or_fail, give_up, requeue, clear_launch_fields,
       terminate_process_tree, is_process_alive
  <2>5. CASE Describe
    BY <2>5 DEF Describe
  <2> QED
    BY <1>1, <2>1, <2>2, <2>3, <2>4, <2>5 DEF Launching
<1>2. CASE Restart
    BY <1>2 DEF Restart
<1>3. ASSUME NEW w \in Launches, Work(w)
      PROVE  /\ LaunchUnderWay' /\ NotYetSpawned' /\ FileIsTrue'
                    /\ NamesCurrent' /\ NobodyElsewhere' /\ SuccessIsEarned'
  <2>1. CASE Begin(w)
    BY <2>1 DEF Begin, WriteStatus
  <2>2. CASE Finish(w)
    BY <2>2 DEF Finish, WriteStatus
  <2>3. CASE Die(w)
    BY <2>3 DEF Die, Live
  <2> QED
    BY <1>3, <2>1, <2>2, <2>3 DEF Work
<1>4. CASE Reconcile
  <2>1. CASE Finalize
    BY <1>4, <2>1 DEF Finalize, Reconciling, clear_launch_fields, token_ok
  <2>2. CASE Adopt
    BY <1>4, <2>2 DEF Adopt, Reconciling, resolve_local_pid, token_ok, NoFile
  <2>3. CASE Lost
    BY <2>3 DEF Lost, Reconciling, requeue_or_fail, give_up, requeue,
                                clear_launch_fields, terminate_process_tree, is_process_alive, Live
  <2> QED
    BY <1>4, <2>1, <2>2, <2>3 DEF Reconcile
<1>5. CASE GraceElapses
  BY <1>5 DEF GraceElapses
<1>6. CASE ApplyCancel
  BY <1>6 DEF ApplyCancel, Command, clear_launch_fields, terminate_process_tree, is_process_alive, Live
<1>7. CASE ApplyRetry
  BY <1>7 DEF ApplyRetry, Command, clear_launch_fields, terminate_process_tree, is_process_alive, Live
<1>8. CASE UNCHANGED vars
  BY <1>8 DEF vars
<1> QED
  BY <1>1, <1>2, <1>3, <1>4, <1>5, <1>6, <1>7, <1>8 DEF Next

(****************************************************************************)
(* One worker                                                               *)
(****************************************************************************)
\* SIGTERM reaches the one worker that may be alive.
LEMMA TerminateStops ==
    ASSUME NamedInv, lapses = {}, step = "idle", terminate_process_tree(native)
    PROVE  \A w \in Launches : ~ Live(w)'
BY DEF NamedInv, LaunchInv, TypeOK, NobodyElsewhere, OneIsLive, terminate_process_tree,
   is_process_alive, Live, None, Launches

\* An exit on record ends the row of a worker that has exited.
LEMMA FinalizedIsOver ==
    ASSUME LaunchInv, Finalize
    PROVE  worker[launch] \in {"ok", "err"}
<1>1. launch \in Launches /\ file.token = launch /\ file.state # "running"
    BY DEF Finalize, Reconciling, token_ok, LaunchInv, LaunchUnderWay
<1>2. file # NoFile
    BY <1>1 DEF NoFile, None, Launches
<1> QED
    BY <1>1, <1>2 DEF LaunchInv, TypeOK, FileIsTrue

\* A row is given up, or launched again, only when its worker is dead.
LEMMA LostIsDead ==
    ASSUME NamedInv, lapses = {}, Lost
    PROVE  \A w \in Launches : ~ Live(w)'
<1> SUFFICES ASSUME NEW w \in Launches, Live(w)' PROVE FALSE
    OBVIOUS
<1> USE DEF NamedInv, LaunchInv, Lost, Reconciling
<1>1. CASE requeue
  BY <1>1, TerminateStops DEF requeue
<1>2. CASE give_up
  <2>1. Live(w) /\ native = w /\ native = launch /\ native # None
    BY <1>2 DEF give_up, Live, OneIsLive, Launches, None
  <2>2. Alive
    BY <2>1 DEF Alive, resolve_local_pid, is_process_alive, NobodyElsewhere
  <2>3. ~ token_ok
    BY <2>1, <2>2 DEF OneIsLive, Live, token_ok, FileIsTrue
  <2>4. ~ fresh
    BY <2>2, <2>3 DEF StillStarting
  <2> QED
    BY <2>1, <2>3, <2>4 DEF OneIsLive, Live, token_ok
<1> QED
  BY <1>1, <1>2 DEF requeue_or_fail

LEMMA OneIsLivePreserved == NamedInv /\ [Next]_vars => OneIsLive'
<1> SUFFICES ASSUME NamedInv, [Next]_vars, lapses' = {} PROVE OneIsLive'
    BY DEF OneIsLive
<1>0. lapses = {} /\ LaunchInv'
  BY LaunchPreserved DEF NamedInv, Next, Launching, Claim, RemoveStatusFile, Spawn, SpawnFails,
     Describe,
             Restart, Work, Begin, Finish, past, vars, 
             Die, Reconcile, Finalize, Adopt, Lost, Reconciling, GraceElapses, ApplyCancel,
             ApplyRetry, Command
<1> USE <1>0, ConstantsTyped DEF NamedInv, LaunchInv, row, past, None, TypeOK, Launches,
        LaunchUnderWay, NotYetSpawned, NamesCurrent, OneIsLive, Live
<1>1. CASE Launching
  <2>1. CASE Claim
    BY <2>1 DEF Claim
  <2>2. CASE RemoveStatusFile
    BY <2>2 DEF RemoveStatusFile, NoFile
  <2>3. CASE Spawn
    BY <2>3 DEF Spawn
  <2>4. CASE SpawnFails
    BY <2>4 DEF SpawnFails, requeue_or_fail, give_up, requeue, clear_launch_fields,
       terminate_process_tree, is_process_alive
  <2>5. CASE Describe
    BY <2>5 DEF Describe
  <2> QED
    BY <1>1, <2>1, <2>2, <2>3, <2>4, <2>5 DEF Launching
<1>2. CASE Restart
    BY <1>2 DEF Restart
<1>3. ASSUME NEW w \in Launches, Work(w) PROVE OneIsLive'
  <2>1. CASE Begin(w)
    BY <2>1 DEF Begin, WriteStatus
  <2>2. CASE Finish(w)
    BY <2>2 DEF Finish, WriteStatus
  <2>3. CASE Die(w)
    BY <2>3 DEF Die, Live
  <2> QED
    BY <1>3, <2>1, <2>2, <2>3 DEF Work
<1>4. CASE Reconcile
  <2>1. CASE Finalize
    BY <2>1, FinalizedIsOver DEF Finalize, Reconciling
  <2>2. CASE Adopt
    BY <1>4, <2>2 DEF Adopt, Reconciling, resolve_local_pid, token_ok, NoFile
  <2>3. CASE Lost
    BY <2>3, LostIsDead DEF Lost, Reconciling, requeue_or_fail, give_up, requeue
  <2> QED
    BY <1>4, <2>1, <2>2, <2>3 DEF Reconcile
<1>5. CASE GraceElapses
  BY <1>5 DEF GraceElapses
<1>6. CASE ApplyCancel
  BY <1>6, TerminateStops DEF ApplyCancel, Command
<1>7. CASE ApplyRetry
  BY <1>7, TerminateStops DEF ApplyRetry, Command
<1>8. CASE UNCHANGED vars
  BY <1>8 DEF vars
<1> QED
  BY <1>1, <1>2, <1>3, <1>4, <1>5, <1>6, <1>7, <1>8 DEF Next

LEMMA InitNamed == Init => NamedInv
BY InitLaunch, ConstantsTyped DEF Init, NamedInv, OneIsLive, Live

LEMMA NamedPreserved == NamedInv /\ [Next]_vars => NamedInv'
BY LaunchPreserved, OneIsLivePreserved DEF NamedInv

(****************************************************************************)
(* Theorems                                                                 *)
(****************************************************************************)
\* A success is that of the current launch, whatever lapses: no orphan's record
\* is taken for it.
THEOREM SuccessStaysEarned == Spec => []SuccessIsEarned
<1>1. LaunchInv => SuccessIsEarned
    BY DEF LaunchInv
<1> QED
    BY <1>1, InitLaunch, LaunchPreserved, PTL DEF Spec

\* Without a lapse there is one worker at most, and between launches the row
\* names it.
THEOREM LiveStaysNamed == Spec => []LiveIsNamed
<1>1. NamedInv => LiveIsNamed
    BY DEF NamedInv, OneIsLive, LiveIsNamed
<1> QED
    BY <1>1, InitNamed, NamedPreserved, PTL DEF Spec

\* No step but an operator's ends a row whose worker has left its record.
LEMMA RecordedStep ==
    ASSUME LaunchInv, [Next]_vars,
           status = "running", worker[launch] = "working", file.token = launch,
           "move" \notin lapses, commands' = commands
    PROVE  status' = "running" /\ worker'[launch] # "killed"
<1> USE ConstantsTyped DEF LaunchInv, row, past, None, TypeOK, Launches, LaunchUnderWay,
        NotYetSpawned, FileIsTrue, NamesCurrent, NobodyElsewhere
<1>1. CASE Launching
  BY <1>1 DEF Launching, Claim, RemoveStatusFile, Spawn, SpawnFails, Describe
<1>2. CASE Restart
    BY <1>2 DEF Restart
<1>3. ASSUME NEW w \in Launches, Work(w)
      PROVE  status' = "running" /\ worker'[launch] # "killed"
    BY <1>3 DEF Work, Begin, Finish, Die
<1>4. CASE Reconcile
  <2>1. CASE Finalize
    BY <2>1, FinalizedIsOver
  <2>2. CASE Adopt
    BY <2>2 DEF Adopt, Reconciling
  <2>3. CASE Lost
    <3>1. Alive /\ token_ok
      BY DEF Alive, resolve_local_pid, is_process_alive, Live, token_ok
    <3> QED
      BY <2>3, <3>1 DEF Lost
  <2> QED
    BY <1>4, <2>1, <2>2, <2>3 DEF Reconcile
<1>5. CASE GraceElapses
  BY <1>5 DEF GraceElapses
<1>6. CASE ApplyCancel \/ ApplyRetry
  BY <1>6 DEF ApplyCancel, ApplyRetry, Command
<1>8. CASE UNCHANGED vars
  BY <1>8 DEF vars
<1> QED
  BY <1>1, <1>2, <1>3, <1>4, <1>5, <1>6, <1>8 DEF Next

\* A worker on record is neither given up nor stopped by a reconcile.
THEOREM RecordedStaysKept == Spec => RecordedIsKept
<1>1. LaunchInv /\ [Next]_vars =>
        [status = "running" /\ worker[launch] = "working" /\ file.token = launch
         /\ "move" \notin lapses /\ commands' = commands
         => status' = "running" /\ worker'[launch] # "killed"]_vars
    BY RecordedStep
<1> QED
    BY <1>1, InitLaunch, LaunchPreserved, PTL DEF Spec, RecordedIsKept
=============================================================================
