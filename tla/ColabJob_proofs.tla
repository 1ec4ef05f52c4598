---------------------------- MODULE ColabJob_proofs ----------------------------
(****************************************************************************)
(* Proofs about ColabJob: what the processes around a rented runtime may    *)
(* take away, for every limit on failed fetches, every set of faults and    *)
(* any number of faults and commands.                                       *)
(****************************************************************************)
EXTENDS ColabJob, TLAPS

(****************************************************************************)
(* Types                                                                    *)
(****************************************************************************)
Flags == {registered, proxy, params, token, stopFile, drive, resumed} \subseteq BOOLEAN

LEMMA FlagsStay ==
    ASSUME Flags, [Next]_vars
    PROVE  Flags'
<1> USE DEF Flags, runtime, disk, bounds
<1>1. ASSUME UNCHANGED <<registered, proxy, params, token, stopFile, drive, resumed>> PROVE Flags'
    BY <1>1, Zenon
<1>2. CASE Submit \/ KillSubmit \/ NewByChild
  <2>1. CASE Launch
    BY <2>1, Zenon DEF Launch
  <2>2. CASE New \/ Raise \/ NewByChild
    <3>1. /\ registered' \in {registered, TRUE, FALSE}
          /\ UNCHANGED <<proxy, params, token, stopFile, drive, resumed>>
      BY <2>2, Zenon DEF New, Raise, NewByChild
    <3> QED
      BY <3>1, Zenon
  <2> QED
    BY <1>1, <1>2, <2>1, <2>2, Zenon DEF Submit, Enter, Refuse, Allocate, SaveEndpoint, Prove,
       SetRunning, StartSupervisor, KillSubmit
<1>3. CASE submit_crash_watchdog \/ provision_watchdog
    BY <1>1, <1>3, Zenon DEF submit_crash_watchdog, provision_watchdog
<1>4. ASSUME NEW c \in Cleaners, _submit_cleanup(c) PROVE Flags'
    BY <1>1, <1>4, Zenon DEF _submit_cleanup, Mark, StopFailed
<1>5. CASE supervise \/ SupKilled
  <2>1. CASE SupAsk
    BY <2>1, Zenon DEF SupAsk
  <2> QED
    BY <1>1, <1>5, <2>1, Zenon DEF supervise, SupKilled, SupLoad, SupFetch, SupSync, SupSynced,
       SupAgain,
                                   SupFinalSync, SupFinal, SupClose, SupUnreachable, SupAbort, SupRestart
<1>6. CASE RunnerEnds
    BY <1>6, Zenon DEF RunnerEnds
<1>7. CASE emergency_upload_and_release
    BY <1>7, Zenon DEF emergency_upload_and_release
<1>8. CASE RuntimeFails \/ ProxyReturns \/ Prune \/ RunnerHangs
  <2>1. /\ proxy' \in {proxy, TRUE, FALSE} /\ registered' \in {registered, FALSE}
        /\ UNCHANGED <<params, token, stopFile, drive, resumed>>
    BY <1>8, Zenon DEF RuntimeFails, ProxyReturns, Prune, RunnerHangs
  <2> QED
    BY <2>1, Zenon
<1>9. CASE Stop \/ StopForce \/ Recover
    BY <1>1, <1>9, Zenon DEF Stop, StopForce, Recover, Command
<1>10. CASE Finish
  <2>1. CASE Stopped
    BY <2>1, Zenon DEF Stopped
  <2> QED
    BY <1>1, <1>10, <2>1, Zenon DEF Finish, Forced, Recovered
<1>11. CASE UNCHANGED vars
    BY <1>1, <1>11, Zenon DEF vars
<1> QED
    BY <1>2, <1>3, <1>4, <1>5, <1>6, <1>7, <1>8, <1>9, <1>10, <1>11, Zenon DEF Next

Places == {"off", "enter", "allocate", "new", "child", "endpoint", "launch", "prove", "running", "start", "done",
           "watch", "mark", "stop", "gone", "dead"}
Supervision ==
    [pc : {"none", "load", "fetch", "act", "sync", "final", "close", "abort", "down"},
     mem : Content, seen : {"none", "running", "hung", "ended"}, fails : 0 .. FailLimit, asked : BOOLEAN]
Operation == [pc : {"idle", "stop", "force", "recover"}, mem : Content]

Shape ==
    /\ vm \in {"none", "assigned", "released"}
    /\ runner \in {"none", "running", "hung", "ended"}
    /\ file \in Content
    /\ cache \in {"none", "running", "hung", "ended"}
    /\ saved \in {"none", "part", "all"}
    /\ pc \in [Cleaners -> Places]
    /\ lock \in Cleaners \cup {"free"}
    /\ sup \in Supervision
    /\ op \in Operation
    /\ faults \in 0 .. MaxFaults
    /\ commands \in 0 .. MaxCommands

LEMMA TypeIsShape == TypeOK <=> Flags /\ Shape
BY DEF TypeOK, Flags, Shape, Content, Places, Supervision, Operation

\* What the processes write into the controller file.
LEMMA Contents ==
    /\ Blank \in Content /\ Unstopped \in Content
    /\ Unstarted.pc = "none" /\ Unstarted.mem = Blank
    /\ \A content \in Content, kind \in {"sync", "stop"} : \A ok :
           Tell(content, kind, ok) \in Content /\ Tell(content, kind, ok).state = content.state
    /\ \A content \in Content, st \in States :
           [content EXCEPT !.state = st] \in Content /\ [content EXCEPT !.state = st].state = st
BY DEF Blank, Unstopped, Content, States, Tell, Unstarted

LEMMA Supervisions ==
    ASSUME NEW k \in {"none", "load", "fetch", "act", "sync", "final", "close", "abort", "down"}
    PROVE  /\ [Unstarted EXCEPT !.pc = k] \in Supervision
           /\ \A s \in Supervision, m \in Content : [s EXCEPT !.pc = k, !.mem = m] \in Supervision
<1>1. Unstarted \in Supervision
    BY Contents, ColabJobAssumption DEF Unstarted, Supervision
<1>2. \A s \in Supervision : [s EXCEPT !.pc = k] \in Supervision
    BY DEF Supervision
<1>3. \A s \in Supervision, m \in Content : [s EXCEPT !.pc = k, !.mem = m] \in Supervision
    BY DEF Supervision
<1> QED
    BY <1>1, <1>2, <1>3

LEMMA FaultsCounted ==
    ASSUME Shape, UNCHANGED faults \/ \E kind : Fault(kind)
    PROVE  faults' \in 0 .. MaxFaults
<1>1. CASE UNCHANGED faults
    BY <1>1 DEF Shape
<1>2. ASSUME NEW kind, Fault(kind) PROVE faults' \in 0 .. MaxFaults
  <2>1. faults \in 0 .. MaxFaults /\ faults < MaxFaults /\ faults' = faults + 1 /\ MaxFaults \in Nat
    BY <1>2, ColabJobAssumption DEF Fault, Shape
  <2> QED
    BY <2>1
<1> QED
    BY <1>1, <1>2

LEMMA SubmitShape ==
    ASSUME Shape, Submit \/ KillSubmit \/ NewByChild
    PROVE  Shape'
<1>1. file' \in Content
  <2>1. CASE Enter \/ SetRunning
    <3>1. Blank \in Content /\ file \in Content /\ {"provisioning", "running"} \subseteq States
      BY Contents DEF Shape, States
    <3>2. [Blank EXCEPT !.state = "provisioning"] \in Content /\ [file EXCEPT !.state = "running"] \in Content
      BY <3>1, Contents
    <3> QED
      BY <2>1, <3>2 DEF Enter, SetRunning
  <2>2. CASE Refuse
    BY <2>2, Contents DEF Refuse, Shape, States
  <2>3. CASE SaveEndpoint
    BY <2>3 DEF SaveEndpoint, Shape, Content
  <2>4. CASE ~ (Enter \/ SetRunning \/ Refuse \/ SaveEndpoint)
    BY <2>4 DEF Shape, Submit, KillSubmit, NewByChild, Allocate, New, Launch, Prove, StartSupervisor, Raise
  <2> QED
    BY <2>1, <2>2, <2>3, <2>4
<1>2. pc' \in [Cleaners -> Places]
    BY DEF Shape, Goto, Cleaners, Places, Submit, KillSubmit, NewByChild, Enter, Refuse, Allocate, New,
       SaveEndpoint, Launch,
           Prove, SetRunning, StartSupervisor, Raise
<1>3. sup' \in Supervision
  <2>1. UNCHANGED sup \/ sup' = [Unstarted EXCEPT !.pc = "load"]
    BY Zenon DEF Submit, KillSubmit, NewByChild, Enter, Refuse, Allocate, New, SaveEndpoint, Launch,
       Prove, SetRunning, StartSupervisor, _start_supervisor, Raise
  <2> QED
    BY <2>1, Supervisions DEF Shape
<1>4. UNCHANGED faults \/ \E kind : Fault(kind)
    BY Zenon DEF Submit, KillSubmit, NewByChild, Enter, Refuse, Allocate, New, SaveEndpoint, Launch,
           Prove, SetRunning, StartSupervisor, Raise, NoFault, bounds
<1>5. /\ vm' \in {vm, "assigned"} /\ runner' \in {runner, "running"} /\ lock' \in {lock, "free"}
      /\ UNCHANGED <<disk, op, commands>>
    BY DEF Submit, KillSubmit, NewByChild, Enter, Refuse, Allocate, New, SaveEndpoint, Launch,
           Prove, SetRunning, StartSupervisor, Raise, runtime, bounds
<1> QED
    BY <1>1, <1>2, <1>3, <1>4, <1>5, FaultsCounted DEF Shape, disk

\* A stop, whatever it is given: a failed one takes nothing away.
LEMMA StopShape ==
    ASSUME Shape, NEW ok \in BOOLEAN, NEW endpoint, NEW force_release,
           stop_assignment_verified(ok, endpoint, force_release)
    PROVE  /\ vm' \in {vm, "released"} /\ faults' \in 0 .. MaxFaults
           /\ past' \in {past, past \cup {"unregistered"}}
           /\ ~ ok => vm' = vm
<1>1. UNCHANGED faults \/ \E kind : Fault(kind)
    BY Zenon DEF stop_assignment_verified
<1>2. vm' \in {vm, "released"} /\ (~ ok => vm' = vm)
    BY Zenon DEF stop_assignment_verified
<1>3. past' \in {past, past \cup {"unregistered"}}
  <2>1. past' = past \/ past' = past \cup {"unregistered"} \/ past' = past \cup {}
    BY Zenon DEF stop_assignment_verified
  <2> QED
    BY <2>1
<1> QED
    BY <1>1, <1>2, <1>3, FaultsCounted

LEMMA CleanupShape ==
    ASSUME Shape,
           submit_crash_watchdog \/ provision_watchdog \/ \E c \in Cleaners : _submit_cleanup(c)
    PROVE  Shape'
<1>1. CASE submit_crash_watchdog \/ provision_watchdog
  <2>1. pc' \in [Cleaners -> Places]
    BY <1>1 DEF Shape, submit_crash_watchdog, provision_watchdog, Goto, Cleaners, Places
  <2>2. UNCHANGED faults \/ \E kind : Fault(kind)
    BY <1>1 DEF submit_crash_watchdog, provision_watchdog, NoFault
  <2> QED
    BY <1>1, <2>1, <2>2, FaultsCounted DEF Shape, submit_crash_watchdog, provision_watchdog, runtime,
       disk
<1>2. ASSUME NEW c \in Cleaners, Mark(c) PROVE Shape'
  <2>1. pc' \in [Cleaners -> Places]
    BY <1>2 DEF Shape, Mark, Goto, Cleaners, Places
  <2>2. file' \in Content /\ lock' \in Cleaners \cup {"free"}
    BY <1>2, Contents, ZenonT(60) DEF Shape, Mark, States
  <2> QED
    BY <1>2, <2>1, <2>2 DEF Shape, Mark, NoFault, runtime, disk
<1>3. ASSUME NEW c \in Cleaners, StopFailed(c) PROVE Shape'
  <2>1. PICK ok \in BOOLEAN, again \in BOOLEAN :
          /\ stop_assignment_verified(ok, file.endpoint \/ (c = "submit" /\ resumed), FALSE)
          /\ file' = Tell(IF again THEN [file EXCEPT !.state = "failed"] ELSE file, "stop", ok)
    BY <1>3 DEF StopFailed
  <2>2. file' \in Content
    BY <2>1, Contents DEF Shape, States
  <2>3. vm' \in {vm, "released"} /\ faults' \in 0 .. MaxFaults
    BY <2>1, StopShape
  <2>4. pc' \in [Cleaners -> Places]
    BY <1>3 DEF Shape, StopFailed, Goto, Places
  <2> QED
    BY <1>3, <2>2, <2>3, <2>4 DEF Shape, StopFailed, disk
<1> QED
    BY <1>1, <1>2, <1>3 DEF _submit_cleanup

\* The steps of the supervisor that only look, decide or keep what they loaded.
LEMMA SupDecides ==
    ASSUME Shape, SupLoad \/ SupAsk \/ SupSync \/ SupAgain \/ SupFinalSync \/ SupRestart \/ SupKilled
    PROVE  Shape'
<1>1. sup' \in Supervision
  <2>0. sup \in Supervision /\ file \in Content /\ Blank \in Content
    BY Contents DEF Shape
  <2>1. CASE SupAsk
    BY <2>0, <2>1 DEF SupAsk, Supervision
  <2>2. \A k \in {"fetch", "sync", "load", "final"}, m \in Content : [sup EXCEPT !.pc = k, !.mem = m] \in Supervision
    BY <2>0, Supervisions
  <2>3. CASE SupLoad \/ SupSync \/ SupAgain \/ SupFinalSync
    BY <2>0, <2>2, <2>3 DEF SupLoad, SupSync, SupAgain, SupFinalSync
  <2>4. CASE SupRestart \/ SupKilled
    BY <2>4, Supervisions DEF SupRestart, SupKilled
  <2> QED
    BY <2>1, <2>3, <2>4
<1>2. UNCHANGED faults \/ \E kind : Fault(kind)
    BY DEF SupLoad, SupAsk, SupSync, SupAgain, SupFinalSync, SupRestart, SupKilled, NoFault
<1>3. UNCHANGED <<vm, runner, file, cache, saved, pc, lock, op, commands>>
    BY DEF SupLoad, SupAsk, SupSync, SupAgain, SupFinalSync, SupRestart, SupKilled, runtime, disk
<1> QED
    BY <1>1, <1>2, <1>3, FaultsCounted DEF Shape

LEMMA FetchShape ==
    ASSUME Shape, SupFetch
    PROVE  Shape'
<1>1. PICK status \in {cache, runner}, fresh \in BOOLEAN :
        /\ cache' = status /\ file' = sup.mem
        /\ sup' = [sup EXCEPT !.pc = "act", !.seen = status,
                              !.fails = IF fresh THEN 0 ELSE IF @ < FailLimit THEN @ + 1 ELSE @]
    BY DEF SupFetch
<1>2. status \in {"none", "running", "hung", "ended"} /\ sup.mem \in Content
    BY DEF Shape, Supervision
<1>3. (IF fresh THEN 0 ELSE IF sup.fails < FailLimit THEN sup.fails + 1 ELSE sup.fails) \in 0 .. FailLimit
    BY ColabJobAssumption DEF Shape, Supervision
<1>4. sup' \in Supervision
    BY <1>1, <1>2, <1>3 DEF Shape, Supervision
<1>5. UNCHANGED <<vm, runner, saved, pc, lock, op, faults, commands>>
    BY DEF SupFetch, runtime, bounds
<1> QED
    BY <1>1, <1>2, <1>4, <1>5 DEF Shape

LEMMA DownloadsShape ==
    ASSUME Shape
    PROVE  Downloads \subseteq {"none", "part", "all"} /\ (saved # "none" => Downloads = {saved})
BY DEF Shape, Downloads

LEMMA SupWritesShape ==
    ASSUME Shape, SupSynced \/ SupFinal \/ SupClose \/ SupUnreachable \/ SupAbort
    PROVE  Shape'
<1>0. sup.mem \in Content /\ file \in Content /\ {"failed", "ended", "orphaned"} \subseteq States
    BY DEF Shape, Supervision, States
<1>00. Blank \in Content
    BY Contents
<1>1. CASE SupSynced
  <2>1. file' \in Content
    BY <1>0, <1>1, Contents DEF SupSynced, Synced
  <2>2. sup' \in Supervision
    BY <1>00, <1>1, Supervisions DEF SupSynced, Shape
  <2> QED
    BY <1>1, <2>1, <2>2, DownloadsShape DEF Shape, SupSynced, runtime, bounds
<1>2. CASE SupFinal
  <2>1. PICK ok \in BOOLEAN :
          /\ sync_final(ok)
          /\ IF sup.seen = "ended"
             THEN /\ file' = Tell(sup.mem, "sync", ok)
                  /\ sup' = [sup EXCEPT !.pc = IF ok THEN "close" ELSE "load", !.mem = IF ok THEN file' ELSE Blank]
             ELSE /\ file' = [Tell(sup.mem, "sync", ok) EXCEPT !.state = "failed"]
                  /\ sup' = [sup EXCEPT !.pc = "abort", !.mem = Blank]
    BY <1>2 DEF SupFinal
  <2>2. Tell(sup.mem, "sync", ok) \in Content
    BY <1>0, Contents
  <2>3. file' \in Content
    BY <1>0, <2>1, <2>2, Contents
  <2>4. \E k \in {"close", "load", "abort"}, m \in {file', Blank} : sup' = [sup EXCEPT !.pc = k, !.mem = m]
    BY <2>1
  <2>5. sup' \in Supervision
    <3>1. PICK k \in {"close", "load", "abort"}, m \in {file', Blank} : sup' = [sup EXCEPT !.pc = k, !.mem = m]
      BY <2>4
    <3>2. m \in Content /\ sup \in Supervision
      BY <1>00, <2>3, <3>1 DEF Shape
    <3>3. [sup EXCEPT !.pc = k, !.mem = m] \in Supervision
      BY <3>2, Supervisions
    <3> QED
      BY <3>1, <3>3
  <2>6. saved' \in {"none", "part", "all"} /\ (UNCHANGED faults \/ \E kind : Fault(kind))
    BY <2>1, DownloadsShape DEF sync_final, Shape
  <2> QED
    BY <1>2, <2>3, <2>5, <2>6, FaultsCounted DEF Shape, SupFinal, runtime
<1>3. CASE SupClose
  <2>1. PICK ok \in BOOLEAN :
          /\ stop_assignment_verified(ok, sup.mem.endpoint, TRUE)
          /\ file' = Tell([sup.mem EXCEPT !.state = "ended"], "stop", ok)
          /\ sup' = IF ok THEN Unstarted ELSE [sup EXCEPT !.pc = "load", !.mem = Blank]
    BY <1>3 DEF SupClose
  <2>2. file' \in Content
    BY <1>0, <2>1, Contents
  <2>3. sup' \in Supervision
    <3>1. sup \in Supervision
      BY DEF Shape
    <3>2. [sup EXCEPT !.pc = "load", !.mem = Blank] \in Supervision
      BY <1>00, <3>1, Supervisions
    <3>3. Unstarted \in Supervision
      BY Contents, ColabJobAssumption DEF Unstarted, Supervision
    <3> QED
      BY <2>1, <3>2, <3>3
  <2> QED
    BY <1>3, <2>1, <2>2, <2>3, StopShape DEF Shape, SupClose, disk
<1>4. CASE SupUnreachable
  <2>1. file' \in Content /\ sup' \in Supervision
    BY <1>0, <1>4, Contents, Supervisions DEF SupUnreachable
  <2> QED
    BY <1>4, <2>1 DEF Shape, SupUnreachable, runtime, disk, bounds
<1>5. CASE SupAbort
  <2>1. PICK ok \in BOOLEAN :
          stop_assignment_verified(ok, file.endpoint, TRUE) /\ file' = IF ok THEN Tell(file, "stop", TRUE) ELSE file
    BY <1>5 DEF SupAbort
  <2>2. file' \in Content /\ sup' \in Supervision
    BY <1>0, <1>5, <2>1, Contents, Supervisions DEF SupAbort
  <2> QED
    BY <1>5, <2>1, <2>2, StopShape DEF Shape, SupAbort, disk
<1> QED
    BY <1>1, <1>2, <1>3, <1>4, <1>5

LEMMA RuntimeShape ==
    ASSUME Shape, RunnerEnds \/ RunnerHangs \/ emergency_upload_and_release \/ RuntimeFails \/ ProxyReturns \/ Prune
    PROVE  Shape'
<1>1. faults' \in 0 .. MaxFaults
    BY FaultsCounted, StopShape
    DEF RunnerEnds, RunnerHangs, emergency_upload_and_release, RuntimeFails, ProxyReturns, Prune, NoFault
<1>2. vm' \in {vm, "released"}
    BY StopShape DEF RunnerEnds, RunnerHangs, emergency_upload_and_release, RuntimeFails, ProxyReturns, Prune
<1>3. runner' \in {runner, "ended", "hung"} /\ UNCHANGED <<file, cache, saved, pc, lock, sup, op, commands>>
    BY DEF RunnerEnds, RunnerHangs, emergency_upload_and_release, RuntimeFails, ProxyReturns, Prune, disk
<1> QED
    BY <1>1, <1>2, <1>3 DEF Shape

LEMMA OperatorShape ==
    ASSUME Shape, Stop \/ StopForce \/ Recover \/ Finish
    PROVE  Shape'
<1>0. op.mem \in Content /\ file \in Content /\ {"orphaned", "running", "force_stopped"} \subseteq States
    BY DEF Shape, Operation, States
<1>1. ASSUME NEW kind \in {"stop", "force", "recover"}, Command(kind)
      PROVE  op' \in Operation /\ commands' \in 0 .. MaxCommands
  <2>1. op' \in Operation
    BY <1>0, <1>1 DEF Command, Operation
  <2>2. commands \in 0 .. MaxCommands /\ commands < MaxCommands /\ commands' = commands + 1 /\ MaxCommands \in Nat
    BY <1>1, ColabJobAssumption DEF Command, Shape
  <2> QED
    BY <2>1, <2>2
<1>2. CASE Stop \/ Recover
    BY <1>1, <1>2 DEF Stop, Recover, Command, Shape, runtime, disk
<1>3. CASE StopForce
  <2>1. sup' \in Supervision
    BY <1>3, Supervisions DEF StopForce, Shape
  <2> QED
    BY <1>1, <1>3, <2>1 DEF StopForce, Command, Shape, runtime, disk
<1>4. ASSUME Idle PROVE op' \in Operation
    BY <1>4, Contents DEF Idle, Operation
<1>5. CASE Stopped
  <2>1. Synced(op.mem) \in Content
    BY <1>0, Contents DEF Synced
  <2>2. file' \in Content
    BY <1>0, <1>5, <2>1, Contents DEF Stopped
  <2> QED
    BY <1>4, <1>5, <2>2, DownloadsShape DEF Stopped, Shape, bounds
<1>6. CASE Forced
  <2>1. PICK ok \in BOOLEAN :
          /\ stop_assignment_verified(ok, op.mem.endpoint, TRUE)
          /\ file' = Tell([op.mem EXCEPT !.state = "force_stopped"], "stop", ok)
    BY <1>6 DEF Forced
  <2>2. file' \in Content
    BY <1>0, <2>1, Contents
  <2> QED
    BY <1>4, <1>6, <2>1, <2>2, StopShape DEF Forced, Shape, disk
<1>7. CASE Recovered
  <2>1. file' \in Content
    BY <1>0, <1>7, Contents DEF Recovered
  <2>2. sup' \in Supervision
    BY <1>7, Supervisions DEF Recovered, _start_supervisor, Shape
  <2> QED
    BY <1>4, <1>7, <2>1, <2>2 DEF Recovered, Shape, runtime, disk, bounds
<1> QED
    BY <1>2, <1>3, <1>5, <1>6, <1>7 DEF Finish

LEMMA InitTypes == Init => TypeOK
<1> SUFFICES ASSUME Init PROVE Flags /\ Shape
    BY TypeIsShape
<1>1. Flags
    BY Zenon DEF Init, Flags
<1>2. file \in Content /\ sup \in Supervision /\ op \in Operation
  <2>1. Unstarted \in Supervision
    BY Contents, ColabJobAssumption DEF Unstarted, Supervision
  <2> QED
    BY <2>1, Contents DEF Init, Operation
<1>3. pc \in [Cleaners -> Places]
    BY DEF Init, Places
<1>4. faults \in 0 .. MaxFaults /\ commands \in 0 .. MaxCommands
    BY ColabJobAssumption DEF Init
<1> QED
    BY <1>1, <1>2, <1>3, <1>4 DEF Shape, Init

LEMMA NextTypes == TypeOK /\ [Next]_vars => TypeOK'
<1> SUFFICES ASSUME Shape, [Next]_vars PROVE Shape'
  <2>1. Flags /\ [Next]_vars => Flags'
    BY FlagsStay
  <2>2. Shape /\ [Next]_vars => Shape'
    OBVIOUS
  <2> QED
    BY <2>1, <2>2, TypeIsShape, PTL
<1>1. CASE UNCHANGED vars
    BY <1>1 DEF vars, runtime, disk, bounds, Shape
<1> QED
    BY <1>1, SubmitShape, CleanupShape, SupDecides, FetchShape, SupWritesShape, RuntimeShape,
       OperatorShape
    DEF Next, supervise

\* Every variable keeps its kind of value: the copies of the controller file that
\* processes hold, the counters within their bounds, and the places of the processes.
THEOREM TypeCorrect == Spec => []TypeOK
BY InitTypes, NextTypes, PTL DEF Spec


(****************************************************************************)
(* What takes a runtime away                                                *)
(****************************************************************************)
\* Nothing has happened that lets a submit, a watchdog, the operator or Colab
\* itself take a runtime away.
Innocent == past \cap {"raise", "kill", "slow", "force", "lost"} = {}

Started == {"prove", "running", "start", "done"}

\* The submit is on its way and its watchdogs find it there; the supervisor and
\* the operator come after it, and the file says "provisioning" no longer.
SubmitInv ==
    /\ pc["submit"] \in {"enter", "allocate", "new", "endpoint", "launch", "gone"} \cup Started
    /\ \A c \in {"crash", "deadline"} :
           /\ pc[c] \in {"off", "watch", "gone"}
           /\ pc["submit"] \in {"enter", "allocate", "gone"} => pc[c] = "off"
    /\ runner \in {"running", "hung"} => pc["submit"] \in Started
    /\ sup.pc # "none" => pc["submit"] = "done"
    /\ sup.pc = "none" => sup.seen = "none"
    /\ op.pc # "idle" => pc["submit"] \in {"done", "gone"}
    /\ op.pc # "force"
    /\ pc["submit"] \in {"start", "done", "gone"} => file.state # "provisioning"
    /\ "provisioning" \notin {sup.mem.state, op.mem.state}

\* What the supervisor saw, and what it decided on it: the runner still is that far.
SeenInv ==
    /\ sup.seen = "ended" => runner = "ended" \/ "cached" \in past
    /\ sup.seen = "hung" /\ sup.fails = 0 => runner \in {"hung", "ended"}
    /\ sup.pc = "final" => sup.seen = "ended" \/ (sup.seen = "hung" /\ sup.fails = 0)
    /\ sup.pc = "close" => sup.seen = "ended"
    /\ sup.pc = "abort" => runner \in {"hung", "ended"}

HealthyInv ==
    Innocent =>
        /\ SubmitInv
        /\ SeenInv
        /\ vm = "released" /\ runner = "running" => "cached" \in past

\* No training has stalled either.
Smooth == Innocent /\ "hang" \notin past

Safe == saved = "all" \/ drive \/ (saved = "part" /\ past \cap {"download", "proxy", "pruned"} # {})

\* The runtime was out of reach at some time.
Cut == past \cap {"proxy", "pruned"} # {}

SmoothInv ==
    /\ "hung" \notin {runner, cache, sup.seen} /\ sup.pc # "abort"
    /\ "cached" \in past => Cut
    /\ ~proxy => "proxy" \in past
    /\ ~registered /\ pc["submit"] \in Started \cup {"launch"} => "pruned" \in past
    /\ vm = "none" => pc["submit"] \notin Started \cup {"endpoint", "launch"}
    /\ runner = "none" => pc["submit"] \notin Started
    /\ vm = "released" /\ runner # "ended" => sup.pc = "none" /\ pc["submit"] = "done"
    /\ sup.pc = "close" =>
           /\ saved # "none"
           /\ runner = "ended" /\ params => Safe
           /\ runner # "ended" => Cut
    /\ vm = "released" /\ runner = "ended" /\ params => Safe

ArtifactsInv == Smooth => SmoothInv


LEMMA PastGrows == [Next]_vars => past \subseteq past'
<1> SUFFICES ASSUME Next \/ UNCHANGED vars PROVE past \subseteq past'
    OBVIOUS
<1>1. CASE UNCHANGED vars
    BY <1>1 DEF vars
<1>2. CASE Submit \/ KillSubmit \/ NewByChild
    BY <1>2 DEF Submit, Enter, Refuse, Allocate, New, SaveEndpoint, Launch, Prove, SetRunning,
       StartSupervisor,
                Raise, KillSubmit, NewByChild, NoFault
<1>3. CASE submit_crash_watchdog \/ provision_watchdog \/ \E c \in Cleaners : _submit_cleanup(c)
    BY <1>3 DEF submit_crash_watchdog, provision_watchdog, _submit_cleanup, Mark, StopFailed, NoFault,
       stop_assignment_verified
<1>4. CASE supervise \/ SupKilled
    BY <1>4 DEF supervise, SupLoad, SupFetch, SupAsk, SupSync, SupSynced, SupAgain, SupFinalSync,
       SupFinal, SupClose,
                SupUnreachable, SupAbort, SupRestart, SupKilled, NoFault, stop_assignment_verified
<1>5. CASE RunnerEnds \/ RunnerHangs \/ emergency_upload_and_release \/ RuntimeFails \/ ProxyReturns \/ Prune
    BY <1>5 DEF RunnerEnds, RunnerHangs, emergency_upload_and_release, RuntimeFails, ProxyReturns, Prune,
       NoFault
<1>6. CASE Stop \/ StopForce \/ Recover \/ Finish
    BY <1>6 DEF Stop, StopForce, Recover, Finish, Stopped, Forced, Recovered, stop_assignment_verified
<1> QED
    BY <1>1, <1>2, <1>3, <1>4, <1>5, <1>6 DEF Next

LEMMA Fields ==
    /\ \A s \in Supervision : \A k, m :
           LET t == [s EXCEPT !.pc = k, !.mem = m]
           IN  t.pc = k /\ t.mem = m /\ t.seen = s.seen /\ t.fails = s.fails
    /\ \A k : LET t == [Unstarted EXCEPT !.pc = k]
              IN  t.pc = k /\ t.mem = Blank /\ t.seen = "none" /\ t.fails = 0
    /\ Unstarted.pc = "none" /\ Unstarted.mem = Blank /\ Unstarted.seen = "none" /\ Unstarted.fails = 0
    /\ Blank.state = "none"
BY DEF Supervision, Unstarted, Blank

HealthyBody ==
    /\ SubmitInv
    /\ SeenInv
    /\ vm = "released" /\ runner = "running" => "cached" \in past

\* The submit itself goes forward: it neither raises nor is killed.
LEMMA SubmitHealthy ==
    ASSUME Shape, HealthyBody, Submit \/ KillSubmit \/ NewByChild, Innocent'
    PROVE  HealthyBody'
<1>0. /\ pc \in [Cleaners -> Places] /\ {"submit", "crash", "deadline"} \subseteq Cleaners
      /\ sup \in Supervision /\ file \in Content
    BY DEF Shape, Cleaners
<1>1. ~ Raise /\ ~ KillSubmit /\ ~ NewByChild
    BY DEF Innocent, Raise, KillSubmit, NewByChild, HealthyBody, SubmitInv, Started
<1>2. UNCHANGED <<op, past>>
    BY <1>1 DEF Submit, Enter, Refuse, Allocate, New, SaveEndpoint, Launch, Prove, SetRunning,
       StartSupervisor, NoFault
<1>3. CASE Enter
  <2>1. /\ pc["submit"] = "enter" /\ pc' = [pc EXCEPT !["submit"] = "allocate"]
        /\ UNCHANGED <<vm, runner, sup, op, past>>
    BY <1>2, <1>3 DEF Enter, Goto, runtime
  <2> QED
    BY <1>0, <2>1 DEF HealthyBody, SubmitInv, SeenInv, Started
<1>4. CASE Refuse
  <2>1. /\ pc["submit"] = "allocate" /\ pc' = [pc EXCEPT !["submit"] = "gone"]
        /\ UNCHANGED <<vm, runner, sup, op, past>>
    BY <1>2, <1>4 DEF Refuse, Goto, runtime
  <2>2. file'.state # "provisioning"
    BY <1>0, <1>4 DEF Refuse, Content, Unstopped
  <2> QED
    BY <1>0, <2>1, <2>2 DEF HealthyBody, SubmitInv, SeenInv, Started
<1>5. CASE Allocate
  <2>1. /\ pc["submit"] = "allocate" /\ UNCHANGED <<vm, runner, file, sup, op, past>>
        /\ \E k \in {"new", "endpoint"} : pc' = [pc EXCEPT !["submit"] = k, !["crash"] = "watch"]
    BY <1>2, <1>5 DEF Allocate, runtime
  <2> QED
    BY <1>0, <2>1 DEF HealthyBody, SubmitInv, SeenInv, Started
<1>6. CASE New
  <2>1. /\ pc["submit"] = "new" /\ UNCHANGED <<runner, file, sup, op, past>> /\ vm' = "assigned"
        /\ pc' = [pc EXCEPT !["submit"] = "endpoint"]
    BY <1>2, <1>6 DEF New, Goto
  <2> QED
    BY <1>0, <2>1 DEF HealthyBody, SubmitInv, SeenInv, Started
<1>7. CASE SaveEndpoint
  <2>1. /\ pc["submit"] = "endpoint" /\ UNCHANGED <<vm, runner, sup, op, past>>
        /\ pc' = [pc EXCEPT !["submit"] = "launch", !["deadline"] = "watch"]
    BY <1>2, <1>7 DEF SaveEndpoint, runtime
  <2>2. file'.state = file.state
    BY <1>0, <1>7 DEF SaveEndpoint, Content
  <2> QED
    BY <1>0, <2>1, <2>2 DEF HealthyBody, SubmitInv, SeenInv, Started
<1>8. CASE Launch
  <2>1. /\ pc["submit"] = "launch" /\ UNCHANGED <<vm, file, sup, op, past>> /\ runner' = "running"
        /\ pc' = [pc EXCEPT !["submit"] = "prove"] /\ vm = "assigned"
    BY <1>2, <1>8 DEF Launch, Goto, Reachable
  <2> QED
    BY <1>0, <2>1 DEF HealthyBody, SubmitInv, SeenInv, Started
<1>9. CASE Prove
  <2>1. /\ pc["submit"] = "prove" /\ UNCHANGED <<vm, runner, file, sup, op, past>>
        /\ pc' = [pc EXCEPT !["submit"] = "running"]
    BY <1>2, <1>9 DEF Prove, Goto, runtime
  <2> QED
    BY <1>0, <2>1 DEF HealthyBody, SubmitInv, SeenInv, Started
<1>10. CASE SetRunning
  <2>1. /\ pc["submit"] = "running" /\ UNCHANGED <<vm, runner, sup, op, past>>
        /\ pc' = [pc EXCEPT !["submit"] = "start"]
    BY <1>2, <1>10 DEF SetRunning, Goto, runtime
  <2>2. file'.state = "running"
    BY <1>0, <1>10 DEF SetRunning, Content
  <2> QED
    BY <1>0, <2>1, <2>2 DEF HealthyBody, SubmitInv, SeenInv, Started
<1>11. CASE StartSupervisor
  <2>1. /\ pc["submit"] = "start" /\ UNCHANGED <<vm, runner, file, op, past>>
        /\ pc' = [pc EXCEPT !["submit"] = "done"]
        /\ sup.pc = "none" /\ sup' = [Unstarted EXCEPT !.pc = "load"]
    BY <1>2, <1>11 DEF StartSupervisor, _start_supervisor, Goto, runtime, HealthyBody, SubmitInv
  <2>2. sup'.pc = "load" /\ sup'.mem.state = "none" /\ sup'.seen = "none"
    BY <2>1, Fields
  <2> QED
    BY <1>0, <2>1, <2>2 DEF HealthyBody, SubmitInv, SeenInv, Started
<1> QED
    BY <1>1, <1>3, <1>4, <1>5, <1>6, <1>7, <1>8, <1>9, <1>10, <1>11 DEF Submit

\* A watchdog finds the submit over only when the file is past provisioning.
LEMMA CleanupHealthy ==
    ASSUME Shape, HealthyBody, Innocent',
           submit_crash_watchdog \/ provision_watchdog \/ \E c \in Cleaners : _submit_cleanup(c)
    PROVE  HealthyBody'
<1>0. pc \in [Cleaners -> Places] /\ Cleaners = {"submit", "crash", "deadline"}
    BY DEF Shape, Cleaners
<1>1. \A c \in Cleaners : ~ _submit_cleanup(c)
    BY <1>0 DEF HealthyBody, SubmitInv, Started, _submit_cleanup, Mark, StopFailed
<1>2. \E c \in {"crash", "deadline"} : pc[c] = "watch" /\ pc' = [pc EXCEPT ![c] = "gone"]
    BY <1>1 DEF submit_crash_watchdog, provision_watchdog, Goto, SubmitOver, HealthyBody, SubmitInv,
       Innocent, Started
<1>3. UNCHANGED <<vm, runner, file, sup, op, past>>
    BY <1>1 DEF submit_crash_watchdog, provision_watchdog, NoFault, runtime, Innocent, SubmitOver,
       HealthyBody,
                SubmitInv, Started
<1> QED
    BY <1>0, <1>2, <1>3 DEF HealthyBody, SubmitInv, SeenInv, Started


\* A new state of the supervisor: what has to hold of it.
LEMMA SupHealthy ==
    ASSUME Shape, Shape', HealthyBody, supervise \/ SupKilled
    PROVE  HealthyBody'
<1>0. /\ sup \in Supervision
      /\ sup.pc # "none" => pc["submit"] = "done"
      /\ "provisioning" \notin {sup.mem.state, op.mem.state}
      /\ FailLimit \in Nat \ {0}
    BY ColabJobAssumption DEF Shape, HealthyBody, SubmitInv
<1>1. ASSUME UNCHANGED <<vm, runner, pc, op>>, past \subseteq past', sup.pc # "none",
             sup'.pc # "none" \/ sup'.seen = "none", sup'.mem.state # "provisioning",
             file'.state # "provisioning", SeenInv'
      PROVE  HealthyBody'
    BY <1>0, <1>1 DEF HealthyBody, SubmitInv, Started
<1>2. sup.pc # "none" => file.state # "provisioning"
    BY DEF HealthyBody, SubmitInv
<1>3. CASE SupLoad \/ SupSync \/ SupAgain \/ SupFinalSync
  <2>1. PICK k \in {"fetch", "sync", "load", "final"}, m \in {file, Blank} :
          /\ sup' = [sup EXCEPT !.pc = k, !.mem = m] /\ sup.pc # "none"
          /\ k = "final" => sup.seen = "ended" \/ (sup.seen = "hung" /\ sup.fails = 0)
    BY <1>3 DEF SupLoad, SupSync, SupAgain, SupFinalSync
  <2>2. /\ UNCHANGED <<vm, runner, file, pc, op, past>>
        /\ sup'.pc = k /\ sup'.mem = m /\ sup'.seen = sup.seen /\ sup'.fails = sup.fails
    BY <1>0, <1>3, <2>1, Fields DEF SupLoad, SupSync, SupAgain, SupFinalSync, runtime, NoFault
  <2>3. SeenInv'
    BY <2>1, <2>2 DEF HealthyBody, SeenInv
  <2> QED
    BY <1>1, <1>2, <2>1, <2>2, <2>3, Fields
<1>4. CASE SupFetch
  <2>1. PICK status \in {cache, runner}, fresh \in BOOLEAN :
          /\ fetch_remote_status(status, fresh)
          /\ file' = sup.mem
          /\ sup' = [sup EXCEPT !.pc = "act", !.seen = status,
                                !.fails = IF fresh THEN 0 ELSE IF @ < FailLimit THEN @ + 1 ELSE @]
          /\ past' = past \cup (IF status = "ended" /\ runner # "ended" THEN {"cached"} ELSE {})
    BY <1>4 DEF SupFetch
  <2>2. /\ UNCHANGED <<vm, runner, pc, op>> /\ sup.pc # "none"
        /\ sup'.pc = "act" /\ sup'.mem = sup.mem /\ sup'.seen = status
        /\ sup'.fails = IF fresh THEN 0 ELSE IF sup.fails < FailLimit THEN sup.fails + 1 ELSE sup.fails
    BY <1>0, <1>4, <2>1 DEF SupFetch, runtime, Supervision
  <2>3. sup'.fails = 0 => fresh
    BY <1>0, <2>2 DEF Supervision
  <2>4. fresh => status = runner
    BY <2>1 DEF fetch_remote_status
  <2>5. SeenInv'
    BY <2>1, <2>2, <2>3, <2>4 DEF SeenInv
  <2> QED
    BY <1>0, <1>1, <1>2, <2>1, <2>2, <2>5
<1>5. CASE SupAsk
  <2>1. /\ UNCHANGED <<vm, runner, file, pc, op, past>> /\ sup.pc = "act"
        /\ sup'.pc = sup.pc /\ sup'.mem = sup.mem /\ sup'.seen = sup.seen /\ sup'.fails = sup.fails
    BY <1>0, <1>5 DEF SupAsk, NoFault, Supervision
  <2>2. SeenInv'
    BY <2>1 DEF HealthyBody, SeenInv
  <2> QED
    BY <1>0, <1>1, <1>2, <2>1, <2>2
<1>6. \A content \in Content, kind \in {"sync", "stop"} : \A ok : Tell(content, kind, ok).state = content.state
    BY Contents
<1>7. CASE SupSynced
  <2>1. /\ UNCHANGED <<vm, runner, pc, op, past>> /\ sup.pc # "none" /\ file' = Synced(sup.mem)
        /\ sup' = [sup EXCEPT !.pc = "load", !.mem = Blank]
    BY <1>7 DEF SupSynced, runtime
  <2>2. file'.state # "provisioning"
    BY <1>0, <1>6, <2>1 DEF Synced, Supervision
  <2>3. sup'.pc = "load" /\ sup'.mem = Blank /\ sup'.seen = sup.seen /\ sup'.fails = sup.fails
    BY <1>0, <2>1, Fields
  <2>4. SeenInv'
    BY <2>1, <2>3 DEF HealthyBody, SeenInv
  <2> QED
    BY <1>1, <2>1, <2>2, <2>3, <2>4, Fields
<1>8. CASE SupFinal
  <2>1. PICK ok \in BOOLEAN :
          IF sup.seen = "ended"
          THEN /\ file' = Tell(sup.mem, "sync", ok)
               /\ sup' = [sup EXCEPT !.pc = IF ok THEN "close" ELSE "load", !.mem = IF ok THEN file' ELSE Blank]
          ELSE /\ file' = [Tell(sup.mem, "sync", ok) EXCEPT !.state = "failed"]
               /\ sup' = [sup EXCEPT !.pc = "abort", !.mem = Blank]
    BY <1>8 DEF SupFinal
  <2>2. UNCHANGED <<vm, runner, pc, op>> /\ past \subseteq past' /\ sup.pc = "final"
    BY <1>8 DEF SupFinal, runtime
  <2>3. /\ Tell(sup.mem, "sync", ok) \in Content /\ Tell(sup.mem, "sync", ok).state = sup.mem.state
        /\ "failed" \in States
    BY <1>0, Contents DEF Supervision, States
  <2>4. file'.state # "provisioning"
    BY <1>0, <2>1, <2>3, Contents
  <2>5. PICK k \in {"close", "load", "abort"}, m \in {file', Blank} :
          /\ sup' = [sup EXCEPT !.pc = k, !.mem = m]
          /\ k = "close" => sup.seen = "ended"
          /\ k = "abort" => sup.seen # "ended"
    BY <2>1
  <2>6. sup'.pc = k /\ sup'.mem = m /\ sup'.seen = sup.seen /\ sup'.fails = sup.fails
    BY <1>0, <2>5, Fields
  <2>7. SeenInv'
    BY <2>2, <2>5, <2>6 DEF HealthyBody, SeenInv
  <2> QED
    BY <1>1, <2>2, <2>4, <2>5, <2>6, <2>7, Fields
<1>9. CASE SupClose
  <2>1. PICK ok \in BOOLEAN :
          /\ stop_assignment_verified(ok, sup.mem.endpoint, TRUE)
          /\ file' = Tell([sup.mem EXCEPT !.state = "ended"], "stop", ok)
          /\ sup' = IF ok THEN Unstarted ELSE [sup EXCEPT !.pc = "load", !.mem = Blank]
    BY <1>9 DEF SupClose
  <2>2. UNCHANGED <<runner, pc, op>> /\ past \subseteq past' /\ sup.pc = "close" /\ sup.seen = "ended"
    BY <1>9, <2>1, StopShape DEF SupClose, HealthyBody, SeenInv
  <2>3. [sup.mem EXCEPT !.state = "ended"] \in Content /\ [sup.mem EXCEPT !.state = "ended"].state = "ended"
    BY <1>0, Contents DEF Supervision, States
  <2>4. file'.state # "provisioning"
    BY <1>6, <2>1, <2>3
  <2>5. /\ sup'.pc \in {"none", "load"} /\ sup'.mem = Blank
        /\ sup'.pc = "none" => sup'.seen = "none"
        /\ \/ sup'.seen = "none"
           \/ sup'.seen = sup.seen
    BY <1>0, <2>1, Fields
  <2>6. SeenInv'
    BY <2>2, <2>5 DEF HealthyBody, SeenInv
  <2>7. vm' = "released" /\ runner' = "running" => "cached" \in past'
    BY <2>2 DEF HealthyBody, SeenInv
  <2> QED
    BY <1>0, <2>2, <2>4, <2>5, <2>6, <2>7, Fields DEF HealthyBody, SubmitInv, Started
<1>10. CASE SupUnreachable
  <2>1. /\ UNCHANGED <<vm, runner, pc, op, past>> /\ sup.pc # "none"
        /\ file' = [sup.mem EXCEPT !.state = "orphaned"] /\ sup' = [Unstarted EXCEPT !.pc = "down"]
    BY <1>10 DEF SupUnreachable, runtime, bounds
  <2>2. file'.state = "orphaned"
    BY <1>0, <2>1, Contents DEF Supervision, States
  <2>3. sup'.pc = "down" /\ sup'.mem = Blank /\ sup'.seen = "none"
    BY <2>1, Fields
  <2>4. SeenInv'
    BY <2>3 DEF SeenInv
  <2> QED
    BY <1>1, <2>1, <2>2, <2>3, <2>4, Fields
<1>11. CASE SupAbort
  <2>1. PICK ok \in BOOLEAN :
          stop_assignment_verified(ok, file.endpoint, TRUE) /\ file' = IF ok THEN Tell(file, "stop", TRUE) ELSE file
    BY <1>11 DEF SupAbort
  <2>2. UNCHANGED <<runner, pc, op>> /\ past \subseteq past' /\ sup.pc = "abort" /\ sup' = [Unstarted EXCEPT !.pc = "down"]
    BY <1>11, <2>1, StopShape DEF SupAbort
  <2>3. file'.state = file.state
    BY <1>6, <2>1 DEF Shape
  <2>4. sup'.pc = "down" /\ sup'.mem = Blank /\ sup'.seen = "none"
    BY <2>2, Fields
  <2>5. SeenInv' /\ runner' # "running"
    BY <2>2, <2>4 DEF HealthyBody, SeenInv
  <2> QED
    BY <1>0, <1>2, <2>2, <2>3, <2>4, <2>5, Fields DEF HealthyBody, SubmitInv, Started
<1>12. CASE SupRestart \/ SupKilled
  <2>1. /\ UNCHANGED <<vm, runner, file, pc, op, past>> /\ sup.pc # "none"
        /\ \E k \in {"load", "down"} : sup' = [Unstarted EXCEPT !.pc = k]
    BY <1>12 DEF SupRestart, SupKilled, NoFault, runtime
  <2>2. sup'.pc \in {"load", "down"} /\ sup'.mem = Blank /\ sup'.seen = "none"
    BY <2>1, Fields
  <2>3. SeenInv'
    BY <2>2 DEF SeenInv
  <2> QED
    BY <1>1, <1>2, <2>1, <2>2, <2>3, Fields
<1> QED
    BY <1>3, <1>4, <1>5, <1>7, <1>8, <1>9, <1>10, <1>11, <1>12 DEF supervise

LEMMA RuntimeHealthy ==
    ASSUME Shape, HealthyBody, Innocent',
           RunnerEnds \/ RunnerHangs \/ emergency_upload_and_release \/ RuntimeFails \/ ProxyReturns \/ Prune
    PROVE  HealthyBody'
<1>1. UNCHANGED <<file, pc, sup, op>> /\ past \subseteq past'
    BY DEF RunnerEnds, RunnerHangs, emergency_upload_and_release, RuntimeFails, ProxyReturns, Prune, NoFault
<1>2. CASE RunnerEnds \/ RunnerHangs
  <2>1. vm' = "assigned" /\ runner \in {"running", "hung"} /\ runner' \in {"ended", "hung"}
        /\ (runner = "hung" => runner' = "ended")
    BY <1>2 DEF RunnerEnds, RunnerHangs
  <2>2. SeenInv'
    BY <1>1, <2>1 DEF HealthyBody, SeenInv
  <2>3. SubmitInv'
    BY <1>1, <2>1 DEF HealthyBody, SubmitInv
  <2> QED
    BY <2>1, <2>2, <2>3 DEF HealthyBody
<1>3. CASE emergency_upload_and_release \/ RuntimeFails \/ ProxyReturns \/ Prune
  <2>1. runner' = runner /\ (vm' = vm \/ runner = "ended")
    BY <1>3 DEF emergency_upload_and_release, RuntimeFails, ProxyReturns, Prune, Innocent
  <2>2. SeenInv'
    BY <1>1, <2>1 DEF HealthyBody, SeenInv
  <2>3. SubmitInv'
    BY <1>1, <2>1 DEF HealthyBody, SubmitInv
  <2> QED
    BY <1>1, <2>1, <2>2, <2>3 DEF HealthyBody
<1> QED
    BY <1>2, <1>3

LEMMA OperatorHealthy ==
    ASSUME Shape, HealthyBody, Innocent', Stop \/ StopForce \/ Recover \/ Finish
    PROVE  HealthyBody'
<1>0. ~ StopForce /\ ~ Forced
    BY DEF StopForce, Forced, Innocent, HealthyBody, SubmitInv
<1>1. UNCHANGED <<vm, runner, pc, past>>
    BY <1>0 DEF Stop, Recover, Finish, Stopped, Recovered, runtime
<1>2. CASE Stop \/ Recover
  <2>1. /\ UNCHANGED <<file, sup>> /\ pc["submit"] \in {"done", "gone"}
        /\ \E kind \in {"stop", "recover"} : op' = [pc |-> kind, mem |-> file]
    BY <1>2 DEF Stop, Recover, Command, SubmitOver, HealthyBody, SubmitInv, Started
  <2>2. op'.pc # "force" /\ op'.mem.state # "provisioning"
    BY <2>1 DEF HealthyBody, SubmitInv
  <2> QED
    BY <1>1, <2>1, <2>2 DEF HealthyBody, SubmitInv, SeenInv, Started
<1>3. ASSUME Idle PROVE op'.pc = "idle" /\ op'.mem.state = "none"
    BY <1>3 DEF Idle, Blank
<1>4. op.mem \in Content /\ {"orphaned", "running"} \subseteq States
    BY DEF Shape, Operation, States
<1>5. CASE Stopped
  <2>1. Synced(op.mem) \in Content /\ Synced(op.mem).state = op.mem.state
    BY <1>4, Contents DEF Synced
  <2>2. file'.state \in {"orphaned", op.mem.state}
    BY <1>4, <1>5, <2>1, Contents DEF Stopped
  <2>3. UNCHANGED sup
    BY <1>5 DEF Stopped
  <2>4. Idle
    BY <1>5 DEF Stopped
  <2> QED
    BY <1>1, <1>3, <2>2, <2>3, <2>4 DEF HealthyBody, SubmitInv, SeenInv, Started
<1>6. CASE Recovered
  <2>1. file'.state \in {"running", file.state}
    <3>1. [op.mem EXCEPT !.state = "running"].state = "running"
      BY <1>4, Contents
    <3> QED
      BY <1>6, <3>1 DEF Recovered
  <2>2. Idle /\ op.pc = "recover" /\ (sup' = sup \/ (runner = "running" /\ sup' = [Unstarted EXCEPT !.pc = "load"]))
    BY <1>6 DEF Recovered, _start_supervisor, validate_runner_proof
  <2>3. CASE sup' = sup
    BY <1>1, <1>3, <2>1, <2>2, <2>3 DEF HealthyBody, SubmitInv, SeenInv, Started
  <2>4. CASE runner = "running" /\ sup' = [Unstarted EXCEPT !.pc = "load"]
    <3>1. sup'.pc = "load" /\ sup'.mem.state = "none" /\ sup'.seen = "none"
      BY <2>4, Fields
    <3>2. pc["submit"] = "done"
      BY <2>2, <2>4 DEF HealthyBody, SubmitInv, Started
    <3> QED
      BY <1>1, <1>3, <2>1, <2>2, <3>1, <3>2 DEF HealthyBody, SubmitInv, SeenInv, Started
  <2> QED
    BY <2>2, <2>3, <2>4
<1> QED
    BY <1>0, <1>2, <1>5, <1>6 DEF Finish

LEMMA InitHealthy == Init => HealthyInv
<1> SUFFICES ASSUME Init PROVE HealthyBody
    BY DEF HealthyInv, HealthyBody
<1>1. /\ pc["submit"] = "enter" /\ pc["crash"] = "off" /\ pc["deadline"] = "off"
      /\ runner \in {"none", "ended"} /\ vm # "released"
      /\ sup = Unstarted /\ op.pc = "idle" /\ op.mem.state = "none"
    BY Fields DEF Init, Cleaners
<1> QED
    BY <1>1, Fields DEF HealthyBody, SubmitInv, SeenInv, Started

LEMMA NextHealthy == TypeOK /\ HealthyInv /\ [Next]_vars => HealthyInv'
<1> SUFFICES ASSUME Shape, Shape', HealthyInv, [Next]_vars, Innocent' PROVE HealthyBody'
  <2>1. TypeOK /\ [Next]_vars => TypeOK'
    BY NextTypes
  <2>2. (HealthyInv' <=> (Innocent' => HealthyBody'))
    BY DEF HealthyInv, HealthyBody
  <2> QED
    BY <2>1, <2>2, TypeIsShape, PTL
<1>1. HealthyBody
  <2>1. Innocent
    BY PastGrows DEF Innocent
  <2> QED
    BY <2>1 DEF HealthyInv, HealthyBody
<1>2. CASE UNCHANGED vars
    BY <1>1, <1>2 DEF vars, runtime, HealthyBody, SubmitInv, SeenInv
<1> QED
    BY <1>1, <1>2, SubmitHealthy, CleanupHealthy, SupHealthy, RuntimeHealthy, OperatorHealthy DEF Next

\* A runtime whose training runs is taken away only after a submit that failed, was
\* killed or overran, the operator's force, Colab itself, or a status cached from
\* another run: a supervisor that cannot reach the runtime never does it.
THEOREM HealthyStays == Spec => []HealthyIsKept
<1>1. HealthyInv => HealthyIsKept
    BY DEF HealthyInv, HealthyIsKept, Innocent
<1> QED
    BY <1>1, TypeCorrect, InitHealthy, NextHealthy, PTL DEF Spec


(****************************************************************************)
(* What is saved before it goes                                             *)
(****************************************************************************)
LEMMA SafeStays ==
    ASSUME Shape, [Next]_vars, Safe
    PROVE  Safe'
<1>1. drive => drive'
  <2> USE DEF disk
  <2>1. CASE UNCHANGED vars
    BY <2>1, Zenon DEF vars
  <2>2. CASE Submit \/ KillSubmit \/ NewByChild
    BY <2>2, Zenon DEF Submit, Enter, Refuse, Allocate, New, SaveEndpoint, Launch, Prove, SetRunning,
                       StartSupervisor, Raise, KillSubmit, NewByChild
  <2>3. CASE submit_crash_watchdog \/ provision_watchdog \/ \E c \in Cleaners : _submit_cleanup(c)
    BY <2>3, Zenon DEF submit_crash_watchdog, provision_watchdog, _submit_cleanup, Mark, StopFailed
  <2>4. CASE supervise \/ SupKilled
    BY <2>4, Zenon DEF supervise, SupLoad, SupFetch, SupAsk, SupSync, SupSynced, SupAgain,
       SupFinalSync, SupFinal,
                       SupClose, SupUnreachable, SupAbort, SupRestart, SupKilled
  <2>5. CASE RunnerEnds \/ RunnerHangs \/ emergency_upload_and_release \/ RuntimeFails \/ ProxyReturns \/ Prune
    BY <2>5, Zenon DEF RunnerEnds, RunnerHangs, emergency_upload_and_release, RuntimeFails, ProxyReturns, Prune
  <2>6. CASE Stop \/ StopForce \/ Recover \/ Finish
    BY <2>6, Zenon DEF Stop, StopForce, Recover, Finish, Stopped, Forced, Recovered
  <2> QED
    BY <2>1, <2>2, <2>3, <2>4, <2>5, <2>6, Zenon DEF Next
<1>2. saved = "none" \/ saved' = saved \/ saved' = "all"
  <2> USE DEF disk
  <2>1. CASE UNCHANGED vars
    BY <2>1 DEF vars
  <2>2. CASE Submit \/ KillSubmit \/ NewByChild
    BY <2>2 DEF Submit, Enter, Refuse, Allocate, New, SaveEndpoint, Launch, Prove, SetRunning,
                StartSupervisor, Raise, KillSubmit, NewByChild
  <2>3. CASE submit_crash_watchdog \/ provision_watchdog \/ \E c \in Cleaners : _submit_cleanup(c)
    BY <2>3 DEF submit_crash_watchdog, provision_watchdog, _submit_cleanup, Mark, StopFailed
  <2>4. CASE supervise \/ SupKilled
    <3>1. CASE SupFinal
      BY <3>1, DownloadsShape DEF SupFinal, sync_final
    <3> QED
      BY <2>4, <3>1, DownloadsShape
      DEF supervise, SupLoad, SupFetch, SupAsk, SupSync, SupSynced, SupAgain, SupFinalSync, SupClose,
          SupUnreachable,
          SupAbort, SupRestart, SupKilled
  <2>5. CASE RunnerEnds \/ RunnerHangs \/ emergency_upload_and_release \/ RuntimeFails \/ ProxyReturns \/ Prune
    BY <2>5 DEF RunnerEnds, RunnerHangs, emergency_upload_and_release, RuntimeFails, ProxyReturns, Prune
  <2>6. CASE Stop \/ StopForce \/ Recover \/ Finish
    BY <2>6, DownloadsShape DEF Stop, StopForce, Recover, Finish, Stopped, Forced, Recovered
  <2> QED
    BY <2>1, <2>2, <2>3, <2>4, <2>5, <2>6 DEF Next
<1>3. past \subseteq past'
    BY PastGrows
<1> QED
    BY <1>1, <1>2, <1>3 DEF Safe

\* A step that leaves the runtime and the submit alone.
LEMMA SmoothFrame ==
    ASSUME SmoothInv, Safe => Safe', past \subseteq past',
           vm' = vm, runner' = runner, proxy' <=> proxy, registered' <=> registered, params' <=> params,
           pc'["submit"] = pc["submit"],
           "hung" \notin {cache', sup'.seen}, sup'.pc # "abort",
           "cached" \in past' => Cut',
           sup'.pc = "close" =>
               /\ saved' # "none"
               /\ runner = "ended" /\ params => Safe'
               /\ runner # "ended" => Cut',
           vm = "released" /\ runner # "ended" => sup'.pc = "none"
    PROVE  SmoothInv'
BY DEF SmoothInv, Started, Cut

LEMMA SubmitSmooth ==
    ASSUME Shape, HealthyBody, SmoothInv, Safe => Safe', Submit, Innocent'
    PROVE  SmoothInv'
<1>0. /\ pc \in [Cleaners -> Places] /\ "submit" \in Cleaners /\ "crash" \in Cleaners /\ "deadline" \in Cleaners
      /\ pc["submit"] # "done"
    BY DEF Shape, Cleaners, Submit, Enter, Refuse, Allocate, New, SaveEndpoint, Launch, Prove,
       SetRunning,
           StartSupervisor, Raise
<1>1. ~ Raise
    BY DEF Innocent, Raise
<1>2. (proxy' <=> proxy) /\ (params' <=> params)
  <2>1. UNCHANGED <<proxy, params>>
    BY <1>1, Zenon DEF Submit, Enter, Refuse, Allocate, New, SaveEndpoint, Launch, Prove, SetRunning,
       StartSupervisor,
                runtime
  <2> QED
    BY <2>1, Zenon
<1>3. UNCHANGED <<cache, saved, past>>
    BY <1>1 DEF Submit, Enter, Refuse, Allocate, New, SaveEndpoint, Launch, Prove, SetRunning,
       StartSupervisor,
                NoFault, disk
<1>4. sup.pc = "none" /\ sup'.pc \in {"none", "load"} /\ sup'.seen = "none"
  <2>1. sup.pc = "none" /\ sup.seen = "none"
    BY <1>0 DEF HealthyBody, SubmitInv
  <2>2. sup' = sup \/ sup' = [Unstarted EXCEPT !.pc = "load"]
    BY <1>1 DEF Submit, Enter, Refuse, Allocate, New, SaveEndpoint, Launch, Prove, SetRunning,
       StartSupervisor,
                _start_supervisor
  <2>3. [Unstarted EXCEPT !.pc = "load"].pc = "load" /\ [Unstarted EXCEPT !.pc = "load"].seen = "none"
    BY Fields
  <2> QED
    BY <2>1, <2>2, <2>3
<1>5. /\ vm' \in {vm, "assigned"} /\ runner' \in {runner, "running"}
      /\ runner' # runner => vm' = "assigned"
    BY <1>1 DEF Submit, Enter, Refuse, Allocate, New, SaveEndpoint, Launch, Prove, SetRunning,
       StartSupervisor,
                runtime, Reachable
<1>6. pc'["submit"] \in Started \cup {"endpoint", "launch"} => vm' # "none"
  <2>1. CASE Allocate
    <3>1. vm' = vm
      BY <2>1 DEF Allocate, runtime
    <3>2. CASE resumed
      BY <2>1, <3>1, <3>2 DEF Allocate
    <3>3. CASE ~ resumed
      BY <1>0, <2>1, <3>3 DEF Allocate, Started
    <3> QED
      BY <3>2, <3>3
  <2>2. CASE ~ Allocate
    BY <1>0, <1>1, <2>2 DEF Submit, Enter, Refuse, New, SaveEndpoint, Launch, Prove, SetRunning,
       StartSupervisor,
                            runtime, Goto, Started, Reachable, SmoothInv
  <2> QED
    BY <2>1, <2>2
<1>7. pc'["submit"] \in Started => runner' # "none"
    BY <1>0, <1>1 DEF Submit, Enter, Refuse, Allocate, New, SaveEndpoint, Launch, Prove, SetRunning,
       StartSupervisor,
                      runtime, Goto, Started, SmoothInv
<1>8. ~ registered' /\ pc'["submit"] \in Started \cup {"launch"} => "pruned" \in past'
  <2>1. CASE New
    BY <1>0, <2>1 DEF New, Goto, Started
  <2>2. CASE SaveEndpoint
    BY <2>2, Zenon DEF SaveEndpoint, runtime
  <2>3. CASE ~ (New \/ SaveEndpoint)
    <3>1. registered' <=> registered
      <4>1. UNCHANGED registered
        BY <1>1, <2>3, Zenon DEF Submit, Enter, Refuse, Allocate, Launch, Prove, SetRunning,
           StartSupervisor, runtime
      <4> QED
        BY <4>1, Zenon
    <3>2. pc'["submit"] \in Started \cup {"launch"} => pc["submit"] \in Started \cup {"launch"}
      BY <1>0, <1>1, <2>3 DEF Submit, Enter, Refuse, Allocate, Launch, Prove, SetRunning,
         StartSupervisor, Goto, Started
    <3> QED
      BY <1>3, <3>1, <3>2 DEF SmoothInv
  <2> QED
    BY <2>1, <2>2, <2>3
<1> QED
    BY <1>0, <1>2, <1>3, <1>4, <1>5, <1>6, <1>7, <1>8 DEF SmoothInv, Cut

LEMMA CleanupSmooth ==
    ASSUME Shape, HealthyBody, SmoothInv, Safe => Safe', Innocent',
           submit_crash_watchdog \/ provision_watchdog \/ \E c \in Cleaners : _submit_cleanup(c)
    PROVE  SmoothInv'
<1>0. pc \in [Cleaners -> Places] /\ Cleaners = {"submit", "crash", "deadline"}
    BY DEF Shape, Cleaners
<1>1. \A c \in Cleaners : ~ _submit_cleanup(c)
    BY <1>0 DEF HealthyBody, SubmitInv, Started, _submit_cleanup, Mark, StopFailed
<1>2. (proxy' <=> proxy) /\ (registered' <=> registered) /\ (params' <=> params)
  <2>1. UNCHANGED <<registered, proxy, params>>
    BY <1>1, Zenon DEF submit_crash_watchdog, provision_watchdog, runtime
  <2> QED
    BY <2>1, Zenon
<1>3. UNCHANGED <<vm, runner, cache, saved, sup, past>> /\ pc'["submit"] = pc["submit"]
    BY <1>0, <1>1 DEF submit_crash_watchdog, provision_watchdog, NoFault, runtime, disk, Goto, Innocent
<1> QED
    BY <1>2, <1>3 DEF SmoothInv, Cut

LEMMA SupSmooth ==
    ASSUME Shape, HealthyBody, SmoothInv, Safe => Safe', supervise \/ SupKilled
    PROVE  SmoothInv'
<1>0. sup \in Supervision /\ past \subseteq past'
  <2>1. [Next]_vars
    BY DEF Next
  <2> QED
    BY <2>1, PastGrows DEF Shape
<1>1. (proxy' <=> proxy) /\ (registered' <=> registered) /\ (params' <=> params)
  <2>1. UNCHANGED <<registered, proxy, params>>
    BY Zenon DEF supervise, SupLoad, SupFetch, SupAsk, SupSync, SupSynced, SupAgain, SupFinalSync,
       SupFinal,
                 SupClose, SupUnreachable, SupAbort, SupRestart, SupKilled, runtime
  <2> QED
    BY <2>1, Zenon
<1>2. sup.pc # "none" /\ ~ (vm = "released" /\ runner # "ended") /\ pc["submit"] = "done"
  <2>1. sup.pc # "none"
    BY DEF supervise, SupLoad, SupFetch, SupAsk, SupSync, SupSynced, SupAgain, SupFinalSync, SupFinal,
           SupClose, SupUnreachable, SupAbort, SupRestart, SupKilled
  <2> QED
    BY <2>1 DEF SmoothInv, HealthyBody, SubmitInv
<1>3. UNCHANGED <<runner, pc>>
    BY DEF supervise, SupLoad, SupFetch, SupAsk, SupSync, SupSynced, SupAgain, SupFinalSync, SupFinal,
           SupClose, SupUnreachable, SupAbort, SupRestart, SupKilled, runtime
<1>4. CASE SupLoad \/ SupSync \/ SupAgain \/ SupFinalSync \/ SupSynced
  <2>1. PICK k \in {"fetch", "sync", "load", "final"} : \E m : sup' = [sup EXCEPT !.pc = k, !.mem = m]
    BY <1>4 DEF SupLoad, SupSync, SupAgain, SupFinalSync, SupSynced
  <2>2. UNCHANGED <<vm, cache, past>>
    BY <1>4 DEF SupLoad, SupSync, SupAgain, SupFinalSync, SupSynced, NoFault, runtime, disk
  <2>3. sup'.pc = k /\ sup'.seen = sup.seen
    BY <1>0, <2>1, Fields
  <2> QED
    BY <1>1, <1>2, <1>3, <2>1, <2>2, <2>3, SmoothFrame DEF SmoothInv, Cut
<1>5. CASE SupAsk
  <2>1. sup'.pc = "act" /\ sup'.seen = sup.seen /\ UNCHANGED <<vm, cache, past>>
    BY <1>0, <1>5 DEF SupAsk, NoFault, disk, Supervision
  <2> QED
    BY <1>1, <1>2, <1>3, <2>1, SmoothFrame DEF SmoothInv, Cut
<1>6. CASE SupFetch
  <2>1. PICK status \in {cache, runner}, fresh \in BOOLEAN :
          /\ fetch_remote_status(status, fresh)
          /\ cache' = status
          /\ sup' = [sup EXCEPT !.pc = "act", !.seen = status,
                                !.fails = IF fresh THEN 0 ELSE IF @ < FailLimit THEN @ + 1 ELSE @]
          /\ past' = past \cup (IF status = "ended" /\ runner # "ended" THEN {"cached"} ELSE {})
    BY <1>6 DEF SupFetch
  <2>2. sup'.pc = "act" /\ sup'.seen = status /\ status # "hung" /\ vm' = vm
    BY <1>0, <1>6, <2>1 DEF Supervision, SupFetch, runtime, SmoothInv
  <2>3. status = "ended" /\ runner # "ended" => ~ proxy \/ ~ registered
    <3>1. runner # "none" /\ vm # "none"
      BY <1>2 DEF SmoothInv, Started
    <3>2. runner # "ended" => vm = "assigned"
      BY <1>2, <3>1 DEF Shape
    <3> QED
      BY <2>1, <3>1, <3>2 DEF fetch_remote_status, Reachable
  <2>4. "cached" \in past' => Cut'
    BY <1>2, <2>1, <2>3 DEF SmoothInv, Cut, Started
  <2> QED
    BY <1>0, <1>1, <1>2, <1>3, <2>1, <2>2, <2>4, SmoothFrame
<1>7. CASE SupFinal
  <2>1. PICK ok \in BOOLEAN :
          /\ sync_final(ok)
          /\ IF sup.seen = "ended"
             THEN \E m : sup' = [sup EXCEPT !.pc = IF ok THEN "close" ELSE "load", !.mem = m]
             ELSE sup' = [sup EXCEPT !.pc = "abort", !.mem = Blank]
    BY <1>7 DEF SupFinal
  <2>2. sup.seen = "ended" /\ vm' = vm /\ cache' = cache /\ past' \in {past, past \cup {"download"}}
    BY <1>7 DEF SupFinal, HealthyBody, SeenInv, SmoothInv, runtime
  <2>3. sup'.pc = (IF ok THEN "close" ELSE "load") /\ sup'.seen = sup.seen
    <3>1. PICK m : sup' = [sup EXCEPT !.pc = IF ok THEN "close" ELSE "load", !.mem = m]
      BY <2>1, <2>2
    <3> QED
      BY <1>0, <3>1, Fields
  <2>4. ok = (saved' # "none")
    BY <2>1 DEF sync_final
  <2>5. runner # "ended" => Cut /\ Cut'
    BY <1>0, <2>2 DEF HealthyBody, SeenInv, SmoothInv, Cut
  <2>6. ASSUME runner = "ended", params, saved' # "none" PROVE Safe'
    <3>1. vm \in {"assigned", "released"}
      BY <1>2 DEF SmoothInv, Started, Shape
    <3>2. CASE vm = "released"
      BY <2>6, <3>2 DEF SmoothInv
    <3>3. CASE vm = "assigned" /\ Fault("download") /\ UNCHANGED saved
      <4>1. faults' # faults
        BY <3>3 DEF Fault, Shape
      <4>2. "download" \in past'
        BY <1>7, <4>1 DEF SupFinal
      <4>3. saved' \in {"part", "all"}
        BY <2>6, <3>3 DEF Shape
      <4> QED
        BY <4>2, <4>3 DEF Safe
    <3>4. CASE vm = "assigned" /\ saved' \in (IF Reachable /\ params /\ runner = "ended" THEN {"all"} ELSE Downloads)
      <4>1. CASE proxy /\ registered
        <5>1. saved' = "all"
          BY <2>6, <3>4, <4>1 DEF Reachable
        <5> QED
          BY <5>1 DEF Safe
      <4>2. CASE ~ (proxy /\ registered)
        <5>1. saved' = saved /\ past \cap {"proxy", "pruned"} # {}
          BY <1>2, <3>4, <4>2 DEF Reachable, Downloads, SmoothInv, Started
        <5>2. saved' \in {"part", "all"} /\ past' \cap {"proxy", "pruned"} # {}
          BY <1>0, <2>6, <5>1 DEF Shape
        <5> QED
          BY <5>2 DEF Safe
      <4> QED
        BY <4>1, <4>2
    <3> QED
      BY <2>1, <3>1, <3>2, <3>3, <3>4 DEF sync_final
  <2>7. "hung" \notin {cache', sup'.seen} /\ sup'.pc # "abort" /\ ("cached" \in past' => Cut')
    BY <2>2, <2>3 DEF SmoothInv, Cut
  <2>8. sup'.pc = "close" => saved' # "none"
    BY <2>3, <2>4
  <2> QED
    BY <1>0, <1>1, <1>2, <1>3, <2>2, <2>5, <2>6, <2>7, <2>8, SmoothFrame
<1>8. CASE SupClose
  <2>1. PICK ok \in BOOLEAN :
          /\ stop_assignment_verified(ok, sup.mem.endpoint, TRUE)
          /\ sup' = IF ok THEN Unstarted ELSE [sup EXCEPT !.pc = "load", !.mem = Blank]
    BY <1>8 DEF SupClose
  <2>2. UNCHANGED cache /\ sup.pc = "close" /\ (runner = "ended" /\ params => Safe)
    BY <1>8 DEF SupClose, disk, SmoothInv
  <2>5. vm' \in {vm, "released"} /\ past' \in {past, past \cup {"unregistered"}} /\ (~ ok => vm' = vm)
    BY <2>1, StopShape
  <2>3. /\ sup'.pc \in {"none", "load"}
        /\ sup'.pc = "load" => vm' = vm
        /\ sup'.seen \in {"none", sup.seen}
    BY <1>0, <2>1, <2>5, Fields
  <2>4. vm' = "none" => vm = "none"
    BY <2>5
  <2> QED
    BY <1>1, <1>2, <1>3, <2>2, <2>3, <2>4, <2>5 DEF SmoothInv, Cut
<1>9. CASE SupUnreachable \/ SupRestart \/ SupKilled
  <2>1. PICK k \in {"load", "down"} : sup' = [Unstarted EXCEPT !.pc = k]
    BY <1>9 DEF SupUnreachable, SupRestart, SupKilled
  <2>2. UNCHANGED <<vm, cache, past>>
    BY <1>9 DEF SupUnreachable, SupRestart, SupKilled, runtime, disk, NoFault
  <2>3. sup'.pc = k /\ sup'.seen = "none"
    BY <2>1, Fields
  <2> QED
    BY <1>1, <1>2, <1>3, <2>1, <2>2, <2>3, SmoothFrame DEF SmoothInv, Cut
<1>10. ~ SupAbort
    BY DEF SupAbort, SmoothInv
<1> QED
    BY <1>4, <1>5, <1>6, <1>7, <1>8, <1>9, <1>10 DEF supervise


LEMMA RuntimeSmooth ==
    ASSUME Shape, HealthyBody, SmoothInv, Safe => Safe', Smooth',
           RunnerEnds \/ RunnerHangs \/ emergency_upload_and_release \/ RuntimeFails \/ ProxyReturns \/ Prune
    PROVE  SmoothInv'
<1>1. ~ RunnerHangs
    BY DEF RunnerHangs, Smooth
<1>2. CASE RunnerEnds
  <2>0. (proxy' <=> proxy) /\ (registered' <=> registered)
    BY <1>2, Zenon DEF RunnerEnds
  <2>1. vm = "assigned" /\ runner # "ended" /\ runner' = "ended"
    <3>1. vm = "assigned" /\ runner \in {"running", "hung"} /\ runner' = "ended"
      BY <1>2, Zenon DEF RunnerEnds
    <3> QED
      BY <3>1
  <2>2. UNCHANGED <<vm, cache, saved, sup, pc, past>>
    BY <1>2 DEF RunnerEnds, NoFault, disk
  <2>3. sup'.pc = "close" => Safe'
    BY <2>1, <2>2 DEF SmoothInv, Cut, Safe, Shape
  <2> QED
    BY <2>0, <2>1, <2>2, <2>3 DEF SmoothInv, Cut
<1>3. CASE emergency_upload_and_release
  <2>1. (proxy' <=> proxy) /\ (registered' <=> registered) /\ (params' <=> params)
    BY <1>3, Zenon DEF emergency_upload_and_release
  <2>2. drive' \/ vm' = vm
    BY <1>3, Zenon DEF emergency_upload_and_release
  <2>3. /\ vm = "assigned" /\ runner = "ended" /\ vm' \in {vm, "released"}
        /\ UNCHANGED <<runner, cache, saved, sup, pc, past>>
    BY <1>3 DEF emergency_upload_and_release
  <2>4. vm' = "released" => Safe'
    BY <2>2, <2>3 DEF Safe
  <2> QED
    BY <2>1, <2>3, <2>4 DEF SmoothInv, Cut
<1>4. CASE RuntimeFails
  <2>1. (registered' <=> registered) /\ (params' <=> params) /\ past' = past \cup {"proxy"}
    BY <1>4 DEF RuntimeFails, Smooth, Innocent
  <2>2. UNCHANGED <<vm, runner, cache, saved, sup, pc>>
    BY <1>4 DEF RuntimeFails, Smooth, Innocent, disk
  <2> QED
    BY <2>1, <2>2 DEF SmoothInv, Cut
<1>5. CASE ProxyReturns
  <2>1. proxy' /\ (registered' <=> registered) /\ (params' <=> params)
    BY <1>5, Zenon DEF ProxyReturns
  <2>2. UNCHANGED <<vm, runner, cache, saved, sup, pc, past>>
    BY <1>5 DEF ProxyReturns, NoFault, disk
  <2> QED
    BY <2>1, <2>2 DEF SmoothInv, Cut
<1>6. CASE Prune
  <2>1. (proxy' <=> proxy) /\ (params' <=> params) /\ past' = past \cup {"pruned"}
    BY <1>6, Zenon DEF Prune
  <2>2. UNCHANGED <<vm, runner, cache, saved, sup, pc>>
    BY <1>6 DEF Prune, disk
  <2> QED
    BY <2>1, <2>2 DEF SmoothInv, Cut
<1> QED
    BY <1>1, <1>2, <1>3, <1>4, <1>5, <1>6

LEMMA OperatorSmooth ==
    ASSUME Shape, HealthyBody, SmoothInv, Safe => Safe', Innocent', Stop \/ StopForce \/ Recover \/ Finish
    PROVE  SmoothInv'
<1>0. ~ StopForce /\ ~ Forced
    BY DEF StopForce, Forced, Innocent, HealthyBody, SubmitInv
<1>1. (proxy' <=> proxy) /\ (registered' <=> registered) /\ (params' <=> params)
  <2>1. UNCHANGED <<registered, proxy, params>>
    BY <1>0, Zenon DEF Stop, Recover, Finish, Stopped, Recovered, runtime
  <2> QED
    BY <2>1, Zenon
<1>2. UNCHANGED <<vm, runner, cache, pc, past>> /\ (saved = "none" \/ saved' = saved)
    BY <1>0, DownloadsShape DEF Stop, Recover, Finish, Stopped, Recovered, runtime, disk
<1>3. \/ sup' = sup
      \/ sup.pc = "none" /\ vm = "assigned" /\ sup' = [Unstarted EXCEPT !.pc = "load"]
    BY <1>0 DEF Stop, Recover, Finish, Stopped, Recovered, _start_supervisor, validate_runner_proof,
       Reachable
<1>4. [Unstarted EXCEPT !.pc = "load"].pc = "load" /\ [Unstarted EXCEPT !.pc = "load"].seen = "none"
    BY Fields
<1>5. CASE sup' = sup
    BY <1>1, <1>2, <1>5, SmoothFrame DEF SmoothInv, Cut
<1>6. CASE sup.pc = "none" /\ vm = "assigned" /\ sup' = [Unstarted EXCEPT !.pc = "load"]
  <2>1. sup'.pc = "load" /\ sup'.seen = "none"
    BY <1>4, <1>6
  <2> QED
    BY <1>1, <1>2, <1>6, <2>1, SmoothFrame DEF SmoothInv, Cut
<1> QED
    BY <1>3, <1>5, <1>6

LEMMA InitSmooth == Init => ArtifactsInv
<1> SUFFICES ASSUME Init PROVE SmoothInv
    BY DEF ArtifactsInv
<1>1. proxy /\ past = {}
    BY Zenon DEF Init
<1>2. /\ pc["submit"] = "enter" /\ sup.pc = "none" /\ sup.seen = "none"
      /\ runner # "hung" /\ cache # "hung" /\ vm # "released"
    BY Fields DEF Init, Cleaners
<1> QED
    BY <1>1, <1>2 DEF SmoothInv, Started

LEMMA NextSmooth == TypeOK /\ HealthyInv /\ ArtifactsInv /\ [Next]_vars => ArtifactsInv'
<1> SUFFICES ASSUME Shape, HealthyInv, ArtifactsInv, [Next]_vars, Smooth' PROVE SmoothInv'
    BY TypeIsShape DEF ArtifactsInv
<1>1. HealthyBody /\ SmoothInv
  <2>1. Smooth
    BY PastGrows DEF Smooth, Innocent
  <2> QED
    BY <2>1 DEF HealthyInv, HealthyBody, ArtifactsInv, Smooth
<1>2. Safe => Safe'
    BY SafeStays
<1>3. CASE UNCHANGED vars
  <2>1. (proxy' <=> proxy) /\ (registered' <=> registered) /\ (params' <=> params)
    BY <1>3, Zenon DEF vars, runtime
  <2>2. UNCHANGED <<vm, runner, cache, saved, sup, pc, past>>
    BY <1>3 DEF vars, runtime, disk
  <2> QED
    BY <1>1, <1>2, <2>1, <2>2 DEF SmoothInv, Cut
<1>4. ~ KillSubmit /\ ~ NewByChild /\ Innocent'
    BY <1>1 DEF KillSubmit, NewByChild, Smooth, Innocent, HealthyBody, SubmitInv, Started
<1> QED
    BY <1>1, <1>2, <1>3, <1>4, SubmitSmooth, CleanupSmooth, SupSmooth, RuntimeSmooth,
       OperatorSmooth DEF Next

\* When a runtime goes whose training had ended with artifacts, they are on the login
\* host or on Drive, through lost answers, a dead proxy, killed supervisors, stops
\* and uploads that fail, and resumes; the two ways round that sync_artifacts_local
\* leaves, an older checkpoint and a failed download, are named in the property.
THEOREM ArtifactsStaySafe == Spec => []ArtifactsBeforeRelease
<1>1. ArtifactsInv => ArtifactsBeforeRelease
    BY DEF ArtifactsInv, SmoothInv, Smooth, Safe, Innocent, ArtifactsBeforeRelease
<1> QED
    BY <1>1, TypeCorrect, InitHealthy, NextHealthy, InitSmooth, NextSmooth, PTL DEF Spec
=============================================================================
