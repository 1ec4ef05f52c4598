--------------------------- MODULE VerifyQueue_proofs ---------------------------
(****************************************************************************)
(* Proofs about VerifyQueue, for any number of rows, workers and resets.    *)
(* The main thread never finds, in the slow pool, the answer of a scan that *)
(* was asked for before its row was reopened: a retry takes the row's scan  *)
(* out of _in_flight at once, running or not, and the pool then works on    *)
(* for nobody.  And every state is well typed: the pool, the scans nobody   *)
(* asks for any more included, never runs more than it has workers.         *)
(****************************************************************************)
EXTENDS VerifyQueue, FiniteSetTheorems, TLAPS

SlowSteps == {"none", "queued", "running", "done"}

QueueInv ==
    /\ epoch \in [Keys -> Nat]
    /\ slow \in [Keys -> [step : SlowSteps, asked : Nat, result : Results]]
    /\ FullScanIsCurrent

LEMMA InitQueue == Init => QueueInv
BY DEF Init, QueueInv, FullScanIsCurrent, InFlight, NoScan, SlowSteps, Results

\* A step that gives a scan a new step or result, or drops it, keeps what it was
\* asked for.
LEMMA KeepsAsked ==
    ASSUME QueueInv, UNCHANGED epoch, slow' \in [Keys -> [step : SlowSteps, asked : Nat, result : Results]],
           \A k \in Keys : slow'[k].step # "none" => slow[k].step # "none" /\ slow'[k].asked = slow[k].asked
    PROVE  QueueInv'
BY DEF QueueInv, FullScanIsCurrent, InFlight

LEMMA MainThreadQueue ==
    ASSUME QueueInv, MainThread
    PROVE  QueueInv'
<1> USE DEF QueueInv, FullScanIsCurrent, InFlight, NoScan, SlowSteps, Results
<1>1. ASSUME NEW k \in Keys, RetryStage(k) PROVE QueueInv'
    BY <1>1 DEF RetryStage, cancel_keys
<1>2. CASE CancelRun
    BY <1>2 DEF CancelRun, cancel_keys
<1>3. CASE Restart
    BY <1>3 DEF Restart, verdicts
<1>4. ASSUME NEW k \in Keys, AskFast(k) PROVE QueueInv'
    BY <1>4 DEF AskFast, verdicts, worker
<1>5. ASSUME NEW k \in Keys, TakeFast(k) PROVE QueueInv'
    BY <1>5 DEF TakeFast
<1>6. ASSUME NEW k \in Keys, Drain(k) PROVE QueueInv'
    BY <1>6 DEF Drain
<1> QED
    BY <1>1, <1>2, <1>3, <1>4, <1>5, <1>6 DEF MainThread

LEMMA PoolQueue ==
    ASSUME QueueInv, NEW k \in Keys, StartSlow(k) \/ FinishSlow(k)
    PROVE  QueueInv'
<1>1. Look(k) \in Results /\ "error" \in Results
    BY DEF Look, Results
<1>2. PICK st \in {"running", "done"}, r \in Results :
        /\ slow[k].step # "none" /\ UNCHANGED epoch
        /\ slow' = [slow EXCEPT ![k].step = st, ![k].result = r]
    BY <1>1 DEF StartSlow, FinishSlow, verdicts, QueueInv
<1> QED
    BY <1>2, KeepsAsked DEF QueueInv, SlowSteps

LEMMA NextQueue == QueueInv /\ [Next]_vars => QueueInv'
<1> SUFFICES ASSUME QueueInv, [Next]_vars PROVE QueueInv'
    OBVIOUS
<1>1. ASSUME UNCHANGED <<epoch, slow>> PROVE QueueInv'
    BY <1>1 DEF QueueInv, FullScanIsCurrent, InFlight
<1>2. ASSUME NEW k \in Keys, FinishFast(k) \/ ChangeDisk(k) PROVE QueueInv'
    BY <1>1, <1>2 DEF FinishFast, ChangeDisk, verdicts, worker
<1>3. CASE FinishZombie \/ UNCHANGED vars
    BY <1>1, <1>3 DEF FinishZombie, vars, verdicts, worker
<1> QED
    BY <1>2, <1>3, MainThreadQueue, PoolQueue DEF Next

\* Whatever a full scan tells the main thread was asked for since the row was last
\* reset, for any number of rows, workers, retries, cancels and restarts.
THEOREM FullScansStayCurrent == Spec => []FullScanIsCurrent
<1>1. QueueInv => FullScanIsCurrent
    BY DEF QueueInv
<1> QED
    BY <1>1, InitQueue, NextQueue, PTL DEF Spec

(****************************************************************************)
(* Types, and the size of the pool                                          *)
(****************************************************************************)
Running(scans) == {k \in Keys : scans[k].step = "running"}

\* What runs is finite, whatever the number of keys, for the pool starts one
\* scan at a time; and it is never more than the pool may run.
PoolInv == IsFiniteSet(Running(slow)) /\ Busy <= MaxWorkers

\* A row is reset by a command only.
ResetsInv == \A k \in Keys : epoch[k] <= commands

TypeInv == TypeOK /\ PoolInv /\ ResetsInv

FastScans == Scans({"running", "done", "raised"})
SlowScans == Scans({"queued", "running", "done"})

LEMMA ScansAskedNow ==
    ASSUME TypeOK, NEW k \in Keys
    PROVE  /\ NoScan \in FastScans /\ NoScan \in SlowScans
           /\ [step |-> "running", asked |-> epoch[k], result |-> "unknown"] \in FastScans
           /\ [step |-> "queued", asked |-> epoch[k], result |-> "unknown"] \in SlowScans
BY VerifyQueueAssumption DEF TypeOK, NoScan, FastScans, SlowScans, Scans, Results

\* A scan that goes on to another step, and perhaps to a result, keeps the rest.
LEMMA ScanMoves ==
    ASSUME NEW steps, NEW f \in [Keys -> Scans(steps)], NEW k \in Keys, NEW st \in steps, NEW r \in Results,
           NEW g, g = [f EXCEPT ![k].step = st, ![k].result = r] \/ g = [f EXCEPT ![k].step = st]
    PROVE  g \in [Keys -> Scans(steps)] /\ g[k].step = st /\ \A j \in Keys \ {k} : g[j] = f[j]
<1>1. f[k] \in [step : steps \cup {"none"}, asked : 0 .. MaxCommands, result : Results]
    BY DEF Scans
<1>2. [f[k] EXCEPT !.step = st, !.result = r] \in Scans(steps) /\ [f[k] EXCEPT !.step = st] \in Scans(steps)
    BY <1>1 DEF Scans
<1>3. [f[k] EXCEPT !.step = st, !.result = r].step = st /\ [f[k] EXCEPT !.step = st].step = st
    BY <1>1
<1>4. g = [f EXCEPT ![k] = [f[k] EXCEPT !.step = st, !.result = r]] \/ g = [f EXCEPT ![k] = [f[k] EXCEPT !.step = st]]
    OBVIOUS
<1>5. g[k] = [f[k] EXCEPT !.step = st, !.result = r] \/ g[k] = [f[k] EXCEPT !.step = st]
    BY <1>4
<1>6. DOMAIN g = Keys /\ g \in [Keys -> Scans(steps)] /\ \A j \in Keys \ {k} : g[j] = f[j]
    BY <1>2, <1>4
<1> QED
    BY <1>3, <1>5, <1>6

LEMMA LookIsResult == \A k : Look(k) \in Results \ {"error"} /\ {"full", "error"} \subseteq Results
BY DEF Look, Results

LEMMA AppliedIsVerdict ==
    ASSUME TypeOK, NEW k \in Keys, NEW scan, apply(k, scan)
    PROVE  row' \in [Keys -> {"open", "cached", "skipped", "failed", "closed"}]
BY DEF TypeOK, apply

LEMMA CancelTypes ==
    ASSUME TypeOK, IsFiniteSet(Running(slow)), NEW K \in SUBSET Keys, cancel_keys(K)
    PROVE  /\ cancelled' \subseteq Keys
           /\ slow' \in [Keys -> SlowScans]
           /\ zombies' \in Nat
           /\ IsFiniteSet(Running(slow'))
           /\ Cardinality(Running(slow')) + zombies' = Cardinality(Running(slow)) + zombies
<1> DEFINE R == Running(slow)
           D == {k \in K : slow[k].step = "running"}
<1>1. cancelled' \subseteq Keys
    BY DEF TypeOK, cancel_keys
<1>2. slow' \in [Keys -> SlowScans]
  <2>1. NoScan \in SlowScans
      BY VerifyQueueAssumption DEF NoScan, SlowScans, Scans, Results
  <2>2. slow \in [Keys -> SlowScans]
      BY DEF TypeOK, SlowScans
  <2> QED
      BY <2>1, <2>2 DEF cancel_keys
<1>3. D \subseteq R /\ Running(slow') = R \ D
    BY DEF cancel_keys, Running, NoScan
<1>4. IsFiniteSet(D) /\ IsFiniteSet(R \ D)
    BY <1>3, FS_Subset
<1>5. Cardinality(R) \in Nat /\ Cardinality(D) \in Nat /\ Cardinality(R \ D) \in Nat
    BY <1>4, FS_CardinalityType
<1>6. Cardinality(R \ D) = Cardinality(R) - Cardinality(D)
  <2>1. R \cap D = D
      BY <1>3
  <2> QED
      BY <2>1, FS_Difference
<1>7. zombies' = zombies + Cardinality(D) /\ zombies \in Nat
    BY DEF cancel_keys, TypeOK
<1> QED
    BY <1>1, <1>2, <1>3, <1>4, <1>5, <1>6, <1>7

LEMMA InitTypes == Init => TypeInv
<1> SUFFICES ASSUME Init PROVE TypeInv
    OBVIOUS
<1>1. NoScan \in FastScans /\ NoScan \in SlowScans
    BY VerifyQueueAssumption DEF NoScan, FastScans, SlowScans, Scans, Results
<1>2. TypeOK
    BY <1>1, VerifyQueueAssumption DEF Init, TypeOK, FastScans, SlowScans
<1>3. Running(slow) = {}
    BY DEF Init, Running, NoScan
<1>4. PoolInv
    BY <1>3, FS_EmptySet, VerifyQueueAssumption DEF Init, PoolInv, Busy, Running
<1>5. ResetsInv
    BY DEF Init, ResetsInv
<1> QED
    BY <1>2, <1>4, <1>5 DEF TypeInv

\* A step that leaves the pool alone, or takes a scan out of it, keeps it small.
LEMMA PoolShrinks ==
    ASSUME TypeOK, PoolInv, Running(slow') \subseteq Running(slow), zombies' \in Nat, zombies' <= zombies
    PROVE  PoolInv'
<1>1. IsFiniteSet(Running(slow')) /\ Cardinality(Running(slow')) <= Cardinality(Running(slow))
    BY FS_Subset DEF PoolInv
<1>2. Cardinality(Running(slow)) \in Nat /\ Cardinality(Running(slow')) \in Nat
    BY <1>1, FS_CardinalityType DEF PoolInv
<1>3. Busy = Cardinality(Running(slow)) + zombies /\ Busy' = Cardinality(Running(slow')) + zombies'
    BY DEF Busy, Running
<1> QED
    BY <1>1, <1>2, <1>3, VerifyQueueAssumption DEF PoolInv, TypeOK

\* A command cancels the scans of K and resets some rows.
LEMMA CommandTypes ==
    ASSUME TypeInv, NEW K \in SUBSET Keys, cancel_keys(K),
           commands < MaxCommands, commands' = commands + 1, UNCHANGED <<disk, fast, faults, changes>>,
           row' \in [Keys -> {"open", "cached", "skipped", "failed", "closed"}],
           epoch' \in [Keys -> Nat], \A k \in Keys : epoch'[k] <= epoch[k] + 1
    PROVE  TypeInv'
<1>1. /\ cancelled' \subseteq Keys /\ slow' \in [Keys -> SlowScans] /\ zombies' \in Nat
      /\ IsFiniteSet(Running(slow'))
      /\ Cardinality(Running(slow')) + zombies' = Cardinality(Running(slow)) + zombies
    BY CancelTypes DEF TypeInv, PoolInv
<1>2. commands' \in 0 .. MaxCommands /\ ResetsInv'
    BY VerifyQueueAssumption DEF TypeInv, TypeOK, ResetsInv
<1>3. epoch' \in [Keys -> 0 .. MaxCommands]
    BY <1>2, VerifyQueueAssumption DEF ResetsInv
<1>4. TypeOK'
    BY <1>1, <1>2, <1>3 DEF TypeInv, TypeOK, SlowScans
<1>5. PoolInv'
    BY <1>1 DEF TypeInv, PoolInv, Busy, Running
<1> QED
    BY <1>2, <1>4, <1>5 DEF TypeInv

LEMMA MainThreadTypes ==
    ASSUME TypeInv, MainThread
    PROVE  TypeInv'
<1> USE VerifyQueueAssumption DEF TypeInv
<1>1. ASSUME NEW k \in Keys, RetryStage(k) PROVE TypeInv'
  <2>1. /\ row' \in [Keys -> {"open", "cached", "skipped", "failed", "closed"}]
        /\ epoch' \in [Keys -> Nat] /\ \A j \in Keys : epoch'[j] <= epoch[j] + 1
      BY <1>1 DEF TypeOK, RetryStage
  <2> QED
      BY <1>1, <2>1, CommandTypes DEF RetryStage
<1>2. CASE CancelRun
  <2>1. /\ row' \in [Keys -> {"open", "cached", "skipped", "failed", "closed"}]
        /\ epoch' \in [Keys -> Nat] /\ \A j \in Keys : epoch'[j] <= epoch[j] + 1
      BY <1>2 DEF TypeOK, CancelRun
  <2> QED
      BY <1>2, <2>1, CommandTypes DEF CancelRun, InFlight
<1>3. CASE Restart
  <2>1. NoScan \in FastScans /\ NoScan \in SlowScans
      BY DEF NoScan, FastScans, SlowScans, Scans, Results
  <2>2. TypeOK'
      BY <1>3, <2>1 DEF TypeOK, Restart, Fault, verdicts, FastScans, SlowScans
  <2>3. Running(slow') = {} /\ zombies' = 0
      BY <1>3 DEF Restart, Running, NoScan
  <2>4. PoolInv'
      BY <2>3, FS_EmptySet DEF PoolInv, Busy, Running
  <2> QED
      BY <1>3, <2>2, <2>4 DEF Restart, verdicts, ResetsInv
<1>4. ASSUME NEW k \in Keys, AskFast(k) PROVE TypeInv'
  <2>1. TypeOK'
      BY <1>4, ScansAskedNow DEF TypeOK, AskFast, verdicts, worker, bounds, FastScans
  <2>2. UNCHANGED <<slow, zombies, epoch, commands>>
      BY <1>4 DEF AskFast, verdicts, worker, bounds
  <2> QED
      BY <2>1, <2>2 DEF PoolInv, Busy, Running, ResetsInv
<1>5. ASSUME NEW k \in Keys, TakeFast(k) PROVE TypeInv'
  <2>1. UNCHANGED <<epoch, disk, cancelled, zombies, faults, commands, changes>>
        /\ fast' = [fast EXCEPT ![k] = NoScan]
      BY <1>5 DEF TakeFast, bounds
  <2>2. row' \in [Keys -> {"open", "cached", "skipped", "failed", "closed"}]
      BY <1>5, AppliedIsVerdict DEF TypeOK, TakeFast
  <2>3. \/ UNCHANGED slow
        \/ /\ k \notin InFlight
           /\ slow' = [slow EXCEPT ![k] = [step |-> "queued", asked |-> epoch[k], result |-> "unknown"]]
      BY <1>5 DEF TakeFast
  <2>4. TypeOK'
      BY <2>1, <2>2, <2>3, ScansAskedNow DEF TypeOK, FastScans, SlowScans
  <2>5. Running(slow') \subseteq Running(slow)
      BY <2>3 DEF Running, TypeOK
  <2> QED
      BY <2>1, <2>4, <2>5, PoolShrinks DEF ResetsInv, TypeOK
<1>6. ASSUME NEW k \in Keys, Drain(k) PROVE TypeInv'
  <2>1. UNCHANGED <<epoch, disk, fast, zombies, faults, commands, changes>>
        /\ slow' = [slow EXCEPT ![k] = NoScan] /\ cancelled' = cancelled \ {k}
      BY <1>6 DEF Drain, bounds
  <2>2. row' \in [Keys -> {"open", "cached", "skipped", "failed", "closed"}]
      BY <1>6, AppliedIsVerdict DEF TypeOK, Drain
  <2>3. TypeOK'
      BY <2>1, <2>2, ScansAskedNow DEF TypeOK, FastScans, SlowScans
  <2>4. Running(slow') \subseteq Running(slow)
    <3>1. slow'[k].step = "none" /\ \A j \in Keys \ {k} : slow'[j] = slow[j]
        BY <2>1 DEF TypeOK, NoScan
    <3> QED
        BY <3>1 DEF Running
  <2>5. zombies' \in Nat /\ zombies' <= zombies /\ ResetsInv'
      BY <2>1 DEF TypeOK, ResetsInv
  <2> QED
      BY <2>3, <2>4, <2>5, PoolShrinks
<1> QED
    BY <1>1, <1>2, <1>3, <1>4, <1>5, <1>6 DEF MainThread

\* The pool takes a queued scan up only while it runs less than it may.
LEMMA StartTypes ==
    ASSUME TypeInv, NEW k \in Keys, StartSlow(k)
    PROVE  TypeInv'
<1>1. /\ slow[k].step = "queued" /\ Busy < MaxWorkers
      /\ slow' = [slow EXCEPT ![k].step = "running", ![k].result = Look(k)]
      /\ UNCHANGED <<row, epoch, disk, fast, cancelled, zombies, faults, commands, changes>>
    BY DEF StartSlow, verdicts, bounds
<1>2. slow' \in [Keys -> SlowScans]
    BY <1>1, LookIsResult DEF TypeInv, TypeOK, SlowScans, Scans
<1>3. TypeOK'
    BY <1>1, <1>2 DEF TypeInv, TypeOK, SlowScans
<1>4. Running(slow') = Running(slow) \cup {k} /\ k \notin Running(slow)
    BY <1>1 DEF TypeInv, TypeOK, Running
<1>5. IsFiniteSet(Running(slow')) /\ Cardinality(Running(slow')) = Cardinality(Running(slow)) + 1
    BY <1>4, FS_AddElement DEF TypeInv, PoolInv
<1>6. Cardinality(Running(slow)) \in Nat
    BY FS_CardinalityType DEF TypeInv, PoolInv
<1>7. Busy' = Cardinality(Running(slow)) + 1 + zombies /\ Busy = Cardinality(Running(slow)) + zombies
    BY <1>1, <1>5 DEF Busy, Running
<1>8. PoolInv'
    BY <1>1, <1>5, <1>6, <1>7, VerifyQueueAssumption DEF PoolInv, TypeInv, TypeOK
<1> QED
    BY <1>1, <1>3, <1>8 DEF TypeInv, ResetsInv

LEMMA PoolTypes ==
    ASSUME TypeInv, NEW k \in Keys, FinishFast(k) \/ FinishSlow(k) \/ ChangeDisk(k)
    PROVE  TypeInv'
<1> USE VerifyQueueAssumption DEF TypeInv
<1>1. CASE FinishFast(k)
  <2>1. UNCHANGED <<row, epoch, disk, slow, cancelled, zombies, commands, changes>>
      BY <1>1 DEF FinishFast, verdicts, worker
  <2>2. faults' \in 0 .. MaxFaults
      BY <1>1 DEF FinishFast, Fault, TypeOK
  <2>3. \/ \E r \in Results : fast' = [fast EXCEPT ![k].step = "done", ![k].result = r]
        \/ fast' = [fast EXCEPT ![k].step = "raised"]
      BY <1>1, LookIsResult DEF FinishFast
  <2>4. fast' \in [Keys -> FastScans]
    <3> DEFINE steps == {"running", "done", "raised"}
    <3>1. fast \in [Keys -> Scans(steps)] /\ "unknown" \in Results
        BY DEF TypeOK, Results
    <3>2. PICK st \in steps, r \in Results :
            fast' = [fast EXCEPT ![k].step = st, ![k].result = r] \/ fast' = [fast EXCEPT ![k].step = st]
        BY <2>3, <3>1
    <3>3. fast' \in [Keys -> Scans(steps)]
        BY ONLY <3>1, <3>2, k \in Keys, ScanMoves
    <3> QED
        BY <3>3 DEF FastScans
  <2> QED
      BY <2>1, <2>2, <2>4 DEF TypeOK, PoolInv, Busy, Running, ResetsInv, FastScans
<1>2. CASE FinishSlow(k)
  <2>1. UNCHANGED <<row, epoch, disk, fast, cancelled, zombies, commands, changes>>
      BY <1>2 DEF FinishSlow, verdicts
  <2>2. faults' \in 0 .. MaxFaults
      BY <1>2 DEF FinishSlow, Fault, TypeOK
  <2>3. slow[k].result \in Results
      BY DEF TypeOK, Scans
  <2>4. PICK r \in Results : slow' = [slow EXCEPT ![k].step = "done", ![k].result = r]
      BY <1>2, <2>3, LookIsResult DEF FinishSlow
  <2>5. slow' \in [Keys -> SlowScans] /\ Running(slow') \subseteq Running(slow)
    <3> DEFINE steps == {"queued", "running", "done"}
    <3>1. slow \in [Keys -> Scans(steps)]
        BY DEF TypeOK
    <3>2. PICK st \in steps \ {"running"} :
            slow' = [slow EXCEPT ![k].step = st, ![k].result = r] \/ slow' = [slow EXCEPT ![k].step = st]
        BY <2>4
    <3>3. slow' \in [Keys -> Scans(steps)] /\ slow'[k].step = st /\ \A j \in Keys \ {k} : slow'[j] = slow[j]
      <4>1. st \in steps
          BY <3>2
      <4> HIDE DEF steps
      <4>2. slow' \in [Keys -> Scans(steps)]
          BY ONLY <3>1, <3>2, <4>1, k \in Keys, r \in Results, ScanMoves
      <4>3. slow'[k].step = st
          BY ONLY <3>1, <3>2, <4>1, k \in Keys, r \in Results, ScanMoves
      <4>4. \A j \in Keys \ {k} : slow'[j] = slow[j]
          BY ONLY <3>1, <3>2, <4>1, k \in Keys, r \in Results, ScanMoves
      <4> QED
          BY <4>2, <4>3, <4>4
    <3>4. Running(slow') \subseteq Running(slow)
        BY <3>2, <3>3 DEF Running
    <3> QED
        BY <3>3, <3>4 DEF SlowScans
  <2>6. TypeOK'
      BY <2>1, <2>2, <2>5 DEF TypeOK, SlowScans
  <2> QED
      BY <2>1, <2>5, <2>6, PoolShrinks DEF ResetsInv, TypeOK
<1>3. CASE ChangeDisk(k)
  <2>1. UNCHANGED <<row, epoch, fast, slow, cancelled, zombies, faults, commands>>
      BY <1>3 DEF ChangeDisk, verdicts, worker
  <2>2. changes' \in 0 .. MaxChanges /\ disk' \in [Keys -> BOOLEAN]
      BY <1>3 DEF ChangeDisk, TypeOK
  <2> QED
      BY <2>1, <2>2 DEF TypeOK, PoolInv, Busy, Running, ResetsInv
<1> QED
    BY <1>1, <1>2, <1>3

LEMMA NextTypes == TypeInv /\ [Next]_vars => TypeInv'
<1> SUFFICES ASSUME TypeInv, [Next]_vars PROVE TypeInv'
    OBVIOUS
<1>1. CASE UNCHANGED vars
    BY <1>1 DEF vars, verdicts, worker, bounds, TypeInv, TypeOK, PoolInv, Busy, Running, ResetsInv
<1>2. CASE FinishZombie
  <2>1. /\ UNCHANGED <<row, epoch, disk, fast, slow, cancelled, faults, commands, changes>>
        /\ zombies' \in Nat /\ zombies' <= zombies
      BY <1>2 DEF FinishZombie, verdicts, bounds, TypeInv, TypeOK
  <2>2. TypeOK'
      BY <2>1 DEF TypeInv, TypeOK
  <2> QED
      BY <2>1, <2>2, PoolShrinks DEF TypeInv, ResetsInv
<1> QED
    BY <1>1, <1>2, MainThreadTypes, StartTypes, PoolTypes DEF Next

\* Every state is well typed: a row counts no more resets than there were commands, and
\* a scan is asked for in an epoch that was given out, for any keys and bounds.
THEOREM TypeCorrect == Spec => []TypeOK
<1>1. TypeInv => TypeOK
    BY DEF TypeInv
<1> QED
    BY <1>1, InitTypes, NextTypes, PTL DEF Spec

\* Full scans that run, those for a dropped key included, are never more than the pool
\* has workers, however often rows are reset, canceled and verified again.
THEOREM PoolStaysSmall == Spec => [](Busy <= MaxWorkers)
<1>1. TypeInv => Busy <= MaxWorkers
    BY DEF TypeInv, PoolInv
<1> QED
    BY <1>1, InitTypes, NextTypes, PTL DEF Spec
=============================================================================
