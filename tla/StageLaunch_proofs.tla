-------------------------- MODULE StageLaunch_proofs ---------------------------
(****************************************************************************)
(* Proofs about StageLaunch, for any number of launches, interruptions and  *)
(* commands and every kind of fault.                                        *)
(*                                                                          *)
(* Clusters are numbered as they are submitted, one for each launch at      *)
(* most; the last of them is the one a launch in progress records and       *)
(* describes.  What is true of a lapsed run is kept apart from what is true *)
(* only when nothing has lapsed.                                            *)
(****************************************************************************)
EXTENDS StageLaunch, FiniteSetTheorems, TLAPS

\* Clusters are submitted one after the other, each for a launch of its own: the
\* claimed launch has a number left.
SubmittedInOrder ==
    /\ Newest \in 0 .. launch
    /\ Submitted = 1 .. Newest
    /\ step = "claimed" => Newest < launch

\* A launch in progress is that of a running row, and its cluster the newest.
LaunchUnderWay ==
    /\ step # "idle" => status = "running"
    /\ step \in {"submitted", "recorded"} => Newest \in Clusters /\ launchOf[Newest] = launch

\* The row describes and the file names clusters that were submitted.
NamesAreSubmitted ==
    /\ native # None => native \in Submitted
    /\ ToSet(recorded) \subseteq Submitted

LaunchInv ==
    /\ TypeOK
    /\ SubmittedInOrder
    /\ LaunchUnderWay
    /\ NamesAreSubmitted

\* Unless a launch was interrupted, a running row describes the cluster of its
\* current launch.
DescribesCurrent ==
    "interrupt" \notin lapses /\ status = "running" /\ step = "idle" =>
        native # None /\ launchOf[native] = launch

EarnedInv == LaunchInv /\ DescribesCurrent /\ SuccessIsEarned

\* The file names every cluster ever submitted, not only those alive.
AllRecorded ==
    lapses \subseteq {"blind", "rm"} =>
        \A c \in Submitted : c \in ToSet(recorded) \/ (step = "submitted" /\ c = Newest)

RecordedInv == LaunchInv /\ AllRecorded

\* Without a lapse, also inside a launch: a cluster that is alive is the one just
\* submitted or the one the row names.
OneIsLive ==
    lapses = {} =>
        \A c \in LiveClusters :
            /\ status = "running"
            /\ step # "claimed"
            /\ c = IF step = "idle" THEN native ELSE Newest

NamedInv == LaunchInv /\ OneIsLive

(****************************************************************************)
(* The clusters file                                                        *)
(****************************************************************************)
\* Appending adds the one element.
LEMMA AppendedSet ==
    ASSUME NEW S, NEW s \in Seq(S), NEW e \in S
    PROVE  ToSet(Append(s, e)) = ToSet(s) \cup {e}
<1>1. DOMAIN Append(s, e) = DOMAIN s \cup {Len(s) + 1} /\ Len(s) \in Nat /\ DOMAIN s = 1 .. Len(s)
    OBVIOUS
<1>2. \A i \in DOMAIN s : Append(s, e)[i] = s[i]
    OBVIOUS
<1>3. Append(s, e)[Len(s) + 1] = e
    OBVIOUS
<1> QED
    BY <1>1, <1>2, <1>3 DEF ToSet

\* The first line of a file that has lines is one of them.
LEMMA HeadIsNamed ==
    ASSUME NEW S, NEW s \in Seq(S), s # <<>>
    PROVE  Head(s) \in ToSet(s) /\ Head(s) \in S
BY DEF ToSet

(****************************************************************************)
(* Types                                                                    *)
(****************************************************************************)
LEMMA ConstantsTyped == /\ MaxAttempts \in Nat /\ MaxEvictions \in Nat
                        /\ MissLimit \in Nat \ {0} /\ MaxLaunches \in Nat
                        /\ MaxInterrupts \in Nat /\ MaxCommands \in Nat
BY StageLaunchAssumption

\* condor_rm changes live clusters into removed ones and nothing else.
LEMMA RemovedTyped ==
    ASSUME TypeOK, NEW R, remove_clusters(R)
    PROVE  /\ cluster' \in [Clusters -> {"none", "live", "ok", "err", "removed"}]
           /\ lapses' \subseteq {"interrupt", "unparsed", "blind", "rm"}
           /\ \A c \in Clusters : cluster'[c] = cluster[c] \/ (Live(c) /\ cluster'[c] = "removed")
BY DEF TypeOK, remove_clusters, Live

LEMMA InitTyped == Init => TypeOK /\ Submitted = {} /\ Newest = 0
<1> SUFFICES ASSUME Init PROVE TypeOK /\ Submitted = {} /\ Newest = 0
    OBVIOUS
<1>1. Submitted = {}
    BY DEF Init, Submitted
<1>2. Newest = 0
    BY <1>1, FS_EmptySet DEF Newest
<1>3. fresh \in BOOLEAN /\ young \in BOOLEAN /\ queued \in BOOLEAN /\ sweeping \in BOOLEAN
    BY DEF Init
<1>4. recorded \in Seq(Clusters)
    BY DEF Init
<1> QED
    BY <1>1, <1>2, <1>3, <1>4, ConstantsTyped DEF Init, TypeOK, None

\* One lemma for the flags: provers that reason about them do no arithmetic.
LEMMA FlagsTyped ==
    TypeOK /\ [Next]_vars => /\ fresh' \in BOOLEAN /\ young' \in BOOLEAN
                            /\ queued' \in BOOLEAN /\ sweeping' \in BOOLEAN
<1> SUFFICES ASSUME TypeOK, [Next]_vars
             PROVE  /\ fresh' \in BOOLEAN /\ young' \in BOOLEAN
                    /\ queued' \in BOOLEAN /\ sweeping' \in BOOLEAN
    OBVIOUS
<1> USE DEF TypeOK, row, ops
<1>1. CASE Launching
    BY <1>1, Zenon DEF Launching, Claim, Submit, SubmitFails, Record, Describe, requeue_or_fail,
                       clear_launch_fields
<1>2. CASE Reconcile
    BY <1>2, Zenon DEF Reconcile, Reconciling, NeverSubmitted, Visible, Invisible, KeepRunning,
                       requeue_or_fail, finalize_stage, clear_launch_fields
<1>3. CASE Interrupted \/ SendCancel \/ SendKill \/ Sweep
    BY <1>3, Zenon DEF Interrupted, SendCancel, SendKill, Sweep
<1>4. CASE ApplyCancel \/ ApplyRetry
    BY <1>4, Zenon DEF ApplyCancel, ApplyRetry, clear_launch_fields
<1>5. CASE GraceElapses
    BY <1>5, Zenon DEF GraceElapses
<1>6. CASE \E c \in Clusters : ClusterExits(c)
    BY <1>6, Zenon DEF ClusterExits
<1>7. CASE UNCHANGED vars
    BY <1>7, Zenon DEF vars
<1> QED
    BY <1>1, <1>2, <1>3, <1>4, <1>5, <1>6, <1>7 DEF Next

\* The cluster a reconcile asks about was submitted.
LEMMA AskedSubmitted ==
    ASSUME LaunchInv, Asked # None
    PROVE  Asked \in Submitted /\ Asked \in Clusters
<1>1. CASE native # None
    BY <1>1 DEF Asked, LaunchInv, NamesAreSubmitted, Submitted
<1>2. CASE native = None
  <2>1. recorded # <<>> /\ Asked = Head(recorded) /\ recorded \in Seq(Clusters)
    BY <1>2 DEF Asked, read_recorded_cluster_id, LaunchInv, TypeOK
  <2>2. Head(recorded) \in ToSet(recorded)
    BY <2>1, HeadIsNamed
  <2> QED
    BY <2>1, <2>2 DEF LaunchInv, NamesAreSubmitted, Submitted
<1> QED
    BY <1>1, <1>2

\* The number of the next cluster, while a launch is claimed.
LEMMA NextNumber ==
    ASSUME LaunchInv, step = "claimed"
    PROVE  Newest + 1 \in Clusters /\ Newest + 1 \notin Submitted /\ Newest \in Nat
BY ConstantsTyped DEF LaunchInv, TypeOK, SubmittedInOrder, Clusters

LEMMA TypePreserved == LaunchInv /\ [Next]_vars => TypeOK'
<1> SUFFICES ASSUME LaunchInv, [Next]_vars PROVE TypeOK'
    OBVIOUS
<1>0. /\ fresh' \in BOOLEAN /\ young' \in BOOLEAN
      /\ queued' \in BOOLEAN /\ sweeping' \in BOOLEAN
    BY FlagsTyped DEF LaunchInv
<1>01. TypeOK
    BY DEF LaunchInv
<1> USE <1>0, ConstantsTyped DEF TypeOK, row, jobs, past, ops, None, Command
<1>1. CASE Launching
  <2>1. CASE Claim
    BY <1>01, <2>1 DEF Claim
  <2>2. CASE Submit
    BY <1>01, <2>2, NextNumber DEF Submit
  <2>3. CASE SubmitFails
    BY <1>01, <2>3, NextNumber, ZenonT(60) DEF SubmitFails, requeue_or_fail, clear_launch_fields
  <2>4. CASE Record
    BY <1>01, <2>4 DEF Record, LaunchInv, LaunchUnderWay
  <2>5. CASE Describe
    BY <1>01, <2>5 DEF Describe, LaunchInv, LaunchUnderWay
  <2> QED
    BY <1>1, <2>1, <2>2, <2>3, <2>4, <2>5 DEF Launching
<1>2. CASE Reconcile
  <2>1. CASE NeverSubmitted
    BY <1>01, <2>1 DEF NeverSubmitted, Reconciling, requeue_or_fail, clear_launch_fields
  <2>2. CASE Visible
    BY <1>01, <2>2, AskedSubmitted, RemovedTyped
    DEF Visible, Reconciling, KeepRunning, requeue_or_fail, finalize_stage, exit_statuses,
        clear_launch_fields, remove_cluster, Submitted, Live
  <2>3. CASE Invisible
    BY <1>01, <2>3, AskedSubmitted, SMTT(30)
    DEF Invisible, Reconciling, KeepRunning, finalize_stage, exit_statuses, clear_launch_fields
  <2> QED
    BY <1>2, <2>1, <2>2, <2>3 DEF Reconcile
<1>3. CASE Interrupted
    BY <1>01, <1>3 DEF Interrupted
<1>4. CASE SendCancel \/ SendKill
  <2>1. commands' \in 0 .. MaxCommands
    BY <1>01, <1>4 DEF SendCancel, SendKill
  <2>2. UNCHANGED <<row, misses, recorded, jobs, step, past>>
    BY <1>4 DEF SendCancel, SendKill
  <2> QED
    BY <1>01, <2>1, <2>2
<1>5. CASE Sweep
    BY <1>01, <1>5, RemovedTyped DEF Sweep
<1>6. CASE ApplyCancel
    BY <1>01, <1>6, RemovedTyped DEF ApplyCancel, remove_cluster
<1>7. CASE ApplyRetry
  <2>1. commands' \in 0 .. MaxCommands
    BY <1>01, <1>7 DEF ApplyRetry
  <2>2. /\ cluster' \in [Clusters -> {"none", "live", "ok", "err", "removed"}]
        /\ lapses' \subseteq {"interrupt", "unparsed", "blind", "rm"}
    BY <1>01, <1>7, RemovedTyped DEF ApplyRetry, remove_cluster
  <2>3. /\ status' = "ready" /\ attempts' = 0 /\ native' = None
        /\ UNCHANGED <<launch, misses, recorded, launchOf, step, interrupts>>
    BY <1>7 DEF ApplyRetry, clear_launch_fields
  <2> QED
    BY <1>01, <2>1, <2>2, <2>3
<1>8. CASE GraceElapses
    BY <1>01, <1>8 DEF GraceElapses
<1>9. CASE \E c \in Clusters : ClusterExits(c)
    BY <1>01, <1>9 DEF ClusterExits
<1>10. CASE UNCHANGED vars
    BY <1>01, <1>10 DEF vars
<1> QED
    BY <1>1, <1>2, <1>3, <1>4, <1>5, <1>6, <1>7, <1>8, <1>9, <1>10 DEF Next

(****************************************************************************)
(* Clusters are submitted in order                                          *)
(****************************************************************************)
\* A submit adds the next number.
LEMMA OneMoreSubmitted ==
    ASSUME LaunchInv, step = "claimed", cluster' = [cluster EXCEPT ![Newest + 1] = "live"]
    PROVE  /\ Submitted' = 1 .. (Newest + 1)
           /\ Newest' = Newest + 1
<1>1. Newest + 1 \in Clusters /\ Newest \in Nat
    BY NextNumber
<1>2. Submitted' = Submitted \cup {Newest + 1}
    BY <1>1 DEF Submitted, LaunchInv, TypeOK
<1>3. Submitted' = 1 .. (Newest + 1)
    BY <1>1, <1>2 DEF LaunchInv, SubmittedInOrder
<1>4. Cardinality(1 .. (Newest + 1)) = Newest + 1
    BY <1>1, FS_Interval
<1> QED
    BY <1>3, <1>4 DEF Newest

\* A step that only ends clusters leaves the submitted ones as they are.
LEMMA SubmittedKept ==
    ASSUME TypeOK,
           \A c \in Clusters : cluster'[c] = cluster[c] \/ (Live(c) /\ cluster'[c] # "none")
    PROVE  Submitted' = Submitted /\ Newest' = Newest
<1>1. Submitted' = Submitted
    BY DEF Submitted, Live
<1> QED
    BY <1>1 DEF Newest

\* Every step submits a cluster of the claimed launch or only ends clusters.
LEMMA SubmitOrEnd ==
    ASSUME LaunchInv, [Next]_vars
    PROVE  \/ /\ step = "claimed" /\ step' \in {"submitted", "idle"} /\ launch' = launch
              /\ cluster' = [cluster EXCEPT ![Newest + 1] = "live"]
              /\ launchOf' = [launchOf EXCEPT ![Newest + 1] = launch]
           \/ /\ \A c \in Clusters :
                    cluster'[c] = cluster[c] \/ (Live(c) /\ cluster'[c] \notin {"none", "live"})
              /\ launchOf' = launchOf
              /\ step' = "claimed" =>
                    (step = "claimed" /\ launch' = launch) \/ launch' = launch + 1
              /\ launch' \in {launch, launch + 1}
              /\ step' \in {"submitted", "recorded"} => step \in {"submitted", "recorded"} /\ launch' = launch
<1> USE DEF LaunchInv, row, jobs, past, ops
<1>1. CASE Launching
  <2>1. CASE Claim
    BY <2>1 DEF Claim
  <2>2. CASE Submit
    BY <2>2 DEF Submit
  <2>3. CASE SubmitFails
    BY <2>3 DEF SubmitFails, requeue_or_fail, clear_launch_fields
  <2>4. CASE Record \/ Describe
    BY <2>4 DEF Record, Describe
  <2> QED
    BY <1>1, <2>1, <2>2, <2>3, <2>4 DEF Launching
<1>2. CASE Reconcile
  <2>1. CASE NeverSubmitted
    BY <2>1 DEF NeverSubmitted, Reconciling, requeue_or_fail, clear_launch_fields
  <2>2. CASE Visible
    BY <2>2, RemovedTyped
    DEF Visible, Reconciling, KeepRunning, requeue_or_fail, finalize_stage, clear_launch_fields,
        remove_cluster
  <2>3. CASE Invisible
    BY <2>3 DEF Invisible, Reconciling, KeepRunning, finalize_stage, clear_launch_fields
  <2> QED
    BY <1>2, <2>1, <2>2, <2>3 DEF Reconcile
<1>3. CASE Interrupted \/ SendCancel \/ SendKill \/ GraceElapses
    BY <1>3 DEF Interrupted, SendCancel, SendKill, GraceElapses
<1>4. CASE Sweep
    BY <1>4, RemovedTyped DEF Sweep
<1>5. CASE ApplyCancel \/ ApplyRetry
    BY <1>5, RemovedTyped DEF ApplyCancel, ApplyRetry, remove_cluster, clear_launch_fields
<1>6. CASE \E c \in Clusters : ClusterExits(c)
    BY <1>6 DEF ClusterExits, TypeOK
<1>7. CASE UNCHANGED vars
    BY <1>7 DEF vars
<1> QED
    BY <1>1, <1>2, <1>3, <1>4, <1>5, <1>6, <1>7 DEF Next

LEMMA OrderPreserved == LaunchInv /\ [Next]_vars => SubmittedInOrder'
<1> SUFFICES ASSUME LaunchInv, [Next]_vars PROVE SubmittedInOrder'
    OBVIOUS
<1>1. TypeOK /\ SubmittedInOrder /\ launch \in Nat
    BY ConstantsTyped DEF LaunchInv, TypeOK
<1>2. CASE step = "claimed" /\ step' \in {"submitted", "idle"} /\ launch' = launch
           /\ cluster' = [cluster EXCEPT ![Newest + 1] = "live"]
    BY <1>1, <1>2, OneMoreSubmitted DEF SubmittedInOrder
<1>3. CASE \A c \in Clusters :
                cluster'[c] = cluster[c] \/ (Live(c) /\ cluster'[c] \notin {"none", "live"})
  <2>1. Submitted' = Submitted /\ Newest' = Newest
    BY <1>1, <1>3, SubmittedKept
  <2> QED
    BY <1>1, <1>3, <2>1, SubmitOrEnd, OneMoreSubmitted DEF SubmittedInOrder
<1> QED
    BY <1>2, <1>3, SubmitOrEnd

\* What a launch or a reconcile refers to goes on being a submitted cluster.
LEMMA SubmittedGrows ==
    ASSUME LaunchInv, [Next]_vars
    PROVE  /\ Submitted \subseteq Submitted'
           /\ step # "claimed" => Newest' = Newest /\ launchOf' = launchOf
<1>1. TypeOK /\ SubmittedInOrder
    BY DEF LaunchInv
<1>2. CASE step = "claimed" /\ cluster' = [cluster EXCEPT ![Newest + 1] = "live"]
    BY <1>1, <1>2, OneMoreSubmitted DEF SubmittedInOrder
<1>3. CASE \A c \in Clusters :
                cluster'[c] = cluster[c] \/ (Live(c) /\ cluster'[c] \notin {"none", "live"})
    BY <1>1, <1>3, SubmittedKept, SubmitOrEnd, OneMoreSubmitted DEF SubmittedInOrder
<1> QED
    BY <1>2, <1>3, SubmitOrEnd

LEMMA UnderWayPreserved == LaunchInv /\ [Next]_vars => LaunchUnderWay'
<1> SUFFICES ASSUME LaunchInv, [Next]_vars PROVE LaunchUnderWay'
    OBVIOUS
<1> USE DEF LaunchInv, LaunchUnderWay, TypeOK, row, jobs, past, ops
<1>1. CASE Launching
  <2>1. CASE Claim
    BY <2>1 DEF Claim
  <2>2. CASE Submit
    BY <2>2, NextNumber, OneMoreSubmitted DEF Submit
  <2>3. CASE SubmitFails
    BY <2>3 DEF SubmitFails
  <2>4. CASE Record \/ Describe
    BY <2>4, SubmittedGrows DEF Record, Describe
  <2> QED
    BY <1>1, <2>1, <2>2, <2>3, <2>4 DEF Launching
<1>2. CASE Reconcile
    BY <1>2 DEF Reconcile, NeverSubmitted, Visible, Invisible, Reconciling
<1>3. CASE Interrupted
    BY <1>3 DEF Interrupted
<1>4. CASE SendCancel \/ SendKill \/ GraceElapses \/ Sweep
    BY <1>4, SubmittedGrows DEF SendCancel, SendKill, GraceElapses, Sweep
<1>5. CASE ApplyCancel \/ ApplyRetry
    BY <1>5 DEF ApplyCancel, ApplyRetry
<1>6. CASE \E c \in Clusters : ClusterExits(c)
    BY <1>6, SubmittedGrows DEF ClusterExits
<1>7. CASE UNCHANGED vars
    BY <1>7, SubmittedGrows DEF vars
<1> QED
    BY <1>1, <1>2, <1>3, <1>4, <1>5, <1>6, <1>7 DEF Next

LEMMA NamesPreserved == LaunchInv /\ [Next]_vars => NamesAreSubmitted'
<1> SUFFICES ASSUME LaunchInv, [Next]_vars PROVE NamesAreSubmitted'
    OBVIOUS
<1>0. TypeOK /\ NamesAreSubmitted /\ Submitted \subseteq Submitted'
    BY SubmittedGrows DEF LaunchInv
<1>1. ASSUME UNCHANGED <<native, recorded>> PROVE NamesAreSubmitted'
    BY <1>0, <1>1 DEF NamesAreSubmitted
<1>2. ASSUME native' = None, UNCHANGED recorded PROVE NamesAreSubmitted'
    BY <1>0, <1>2 DEF NamesAreSubmitted
<1>3. CASE Launching
  <2>1. CASE Record
    <3>1. Newest \in Clusters /\ Newest \in Submitted /\ Newest' = Newest
      BY <2>1, SubmittedGrows, ConstantsTyped
      DEF Record, LaunchInv, LaunchUnderWay, SubmittedInOrder, Clusters, TypeOK
    <3>2. ToSet(recorded') = ToSet(recorded) \cup {Newest}
      BY <2>1, <3>1, AppendedSet, <1>0 DEF Record, TypeOK
    <3> QED
      BY <2>1, <3>1, <3>2, <1>0 DEF Record, row, NamesAreSubmitted
  <2>2. CASE Describe
    <3>1. Newest \in Submitted
      BY <2>2, ConstantsTyped DEF Describe, LaunchInv, LaunchUnderWay, SubmittedInOrder, Clusters,
         TypeOK
    <3> QED
      BY <2>2, <3>1, <1>0 DEF Describe, NamesAreSubmitted
  <2>3. CASE Claim \/ Submit \/ SubmitFails
    BY <2>3, <1>1, <1>2 DEF Claim, Submit, SubmitFails, requeue_or_fail, clear_launch_fields, row
  <2> QED
    BY <1>3, <2>1, <2>2, <2>3 DEF Launching
<1>4. CASE Reconcile
  <2>1. CASE NeverSubmitted
    BY <2>1, <1>1, <1>2 DEF NeverSubmitted, Reconciling, requeue_or_fail, clear_launch_fields, row
  <2>2. ASSUME Asked # None, native' = Asked, UNCHANGED recorded PROVE NamesAreSubmitted'
    BY <2>2, <1>0, AskedSubmitted DEF NamesAreSubmitted
  <2>3. CASE Visible
    BY <2>3, <1>2, <2>2 DEF Visible, Reconciling, KeepRunning, requeue_or_fail, finalize_stage,
                            clear_launch_fields
  <2>4. CASE Invisible
    BY <2>4, <1>2, <2>2 DEF Invisible, Reconciling, KeepRunning, finalize_stage, clear_launch_fields
  <2> QED
    BY <1>4, <2>1, <2>3, <2>4 DEF Reconcile
<1>5. CASE Interrupted \/ SendCancel \/ SendKill \/ GraceElapses \/ Sweep
    BY <1>5, <1>1 DEF Interrupted, SendCancel, SendKill, GraceElapses, Sweep, row
<1>6. CASE ApplyCancel \/ ApplyRetry
    BY <1>6, <1>1, <1>2 DEF ApplyCancel, ApplyRetry, clear_launch_fields
<1>7. CASE \E c \in Clusters : ClusterExits(c)
    BY <1>7, <1>1 DEF ClusterExits, row
<1>8. CASE UNCHANGED vars
    BY <1>8, <1>1 DEF vars, row
<1> QED
    BY <1>3, <1>4, <1>5, <1>6, <1>7, <1>8 DEF Next

LEMMA InitLaunch == Init => LaunchInv
<1> SUFFICES ASSUME Init PROVE LaunchInv
    OBVIOUS
<1>1. ToSet(recorded) = {}
    BY DEF Init, ToSet
<1> QED
    BY <1>1, InitTyped
    DEF Init, LaunchInv, SubmittedInOrder, LaunchUnderWay, NamesAreSubmitted, None

LEMMA LaunchPreserved == LaunchInv /\ [Next]_vars => LaunchInv'
BY TypePreserved, OrderPreserved, UnderWayPreserved, NamesPreserved DEF LaunchInv

\* Every variable of a condor launch keeps its type: no more clusters are
\* submitted than stages launched.
THEOREM TypeCorrect == Spec => []TypeOK
<1>1. LaunchInv => TypeOK
    BY DEF LaunchInv
<1> QED
    BY <1>1, InitLaunch, LaunchPreserved, PTL DEF Spec

(****************************************************************************)
(* Success                                                                  *)
(****************************************************************************)
LEMMA LapsesKept ==
    ASSUME LaunchInv, [Next]_vars
    PROVE  lapses \subseteq lapses'
<1> USE DEF row, jobs, past, ops
<1>1. CASE Launching
    BY <1>1 DEF Launching, Claim, Submit, SubmitFails, Record, Describe
<1>2. CASE Reconcile
    BY <1>2 DEF Reconcile, NeverSubmitted, Visible, Invisible, remove_cluster, remove_clusters
<1>3. CASE Interrupted \/ SendCancel \/ SendKill \/ GraceElapses
    BY <1>3 DEF Interrupted, SendCancel, SendKill, GraceElapses
<1>4. CASE Sweep \/ ApplyCancel \/ ApplyRetry
    BY <1>4 DEF Sweep, ApplyCancel, ApplyRetry, remove_cluster, remove_clusters
<1>5. CASE \E c \in Clusters : ClusterExits(c)
    BY <1>5 DEF ClusterExits
<1>6. CASE UNCHANGED vars
    BY <1>6 DEF vars
<1> QED
    BY <1>1, <1>2, <1>3, <1>4, <1>5, <1>6 DEF Next

\* What a verdict makes of a row.
LEMMA Finalized ==
    ASSUME NEW outcome \in {"ok", "err", "removed"}, finalize_stage(outcome)
    PROVE  /\ status' \in {"success", "failed", "canceled"}
           /\ status' = "success" => outcome = "ok"
           /\ launch' = launch
BY DEF finalize_stage, exit_statuses

\* A cluster that condor shows and that is not alive has exited or was removed.
LEMMA AskedHasEnded ==
    ASSUME LaunchInv, Asked # None, ~ Live(Asked)
    PROVE  cluster[Asked] \in {"ok", "err", "removed"}
BY AskedSubmitted DEF LaunchInv, TypeOK, Submitted, Live

LEMMA DescribesPreserved == EarnedInv /\ [Next]_vars => DescribesCurrent'
<1> SUFFICES ASSUME EarnedInv, [Next]_vars, "interrupt" \notin lapses' PROVE DescribesCurrent'
    BY DEF DescribesCurrent
<1>0. "interrupt" \notin lapses /\ LaunchInv
    BY LapsesKept DEF EarnedInv
<1> USE <1>0 DEF EarnedInv, DescribesCurrent, row, jobs, past, ops
<1>1. CASE Launching
  <2>1. CASE Describe
    BY <2>1, ConstantsTyped DEF Describe, LaunchInv, LaunchUnderWay, Clusters, None
  <2>2. CASE Claim \/ Submit \/ Record
    BY <2>2 DEF Claim, Submit, Record
  <2>3. CASE SubmitFails
    BY <2>3 DEF SubmitFails, requeue_or_fail
  <2> QED
    BY <1>1, <2>1, <2>2, <2>3 DEF Launching
<1>2. CASE Reconcile
  <2>1. /\ status = "running" /\ native # None /\ Asked = native
        /\ launchOf[native] = launch /\ launchOf' = launchOf
    BY <1>2 DEF Reconcile, NeverSubmitted, Visible, Invisible, Reconciling, Asked
  <2>2. CASE Visible
    BY <2>1, <2>2, Finalized, AskedHasEnded DEF Visible, KeepRunning, requeue_or_fail
  <2>3. CASE Invisible
    BY <2>1, <2>3, Finalized DEF Invisible, KeepRunning
  <2> QED
    BY <1>2, <2>1, <2>2, <2>3 DEF Reconcile, NeverSubmitted
<1>3. CASE Interrupted
    BY <1>3 DEF Interrupted
<1>4. CASE SendCancel \/ SendKill \/ GraceElapses \/ Sweep
    BY <1>4 DEF SendCancel, SendKill, GraceElapses, Sweep
<1>5. CASE ApplyCancel \/ ApplyRetry
    BY <1>5 DEF ApplyCancel, ApplyRetry
<1>6. CASE \E c \in Clusters : ClusterExits(c)
    BY <1>6 DEF ClusterExits
<1>7. CASE UNCHANGED vars
    BY <1>7 DEF vars
<1> QED
    BY <1>1, <1>2, <1>3, <1>4, <1>5, <1>6, <1>7 DEF Next

\* A cluster that has exited stays so, and it stays the cluster of its launch.
LEMMA ExitIsFinal ==
    ASSUME LaunchInv, [Next]_vars, NEW c \in Clusters, cluster[c] = "ok"
    PROVE  cluster'[c] = "ok" /\ launchOf'[c] = launchOf[c]
<1>1. CASE step = "claimed" /\ cluster' = [cluster EXCEPT ![Newest + 1] = "live"]
           /\ launchOf' = [launchOf EXCEPT ![Newest + 1] = launch]
  <2>1. c # Newest + 1
    BY <1>1, NextNumber DEF Submitted
  <2> QED
    BY <1>1, <2>1 DEF LaunchInv, TypeOK
<1>2. CASE /\ \A d \in Clusters :
                 cluster'[d] = cluster[d] \/ (Live(d) /\ cluster'[d] \notin {"none", "live"})
           /\ launchOf' = launchOf
    BY <1>2 DEF Live
<1> QED
    BY <1>1, <1>2, SubmitOrEnd

LEMMA EarnedPreserved == EarnedInv /\ [Next]_vars => SuccessIsEarned'
<1> SUFFICES ASSUME EarnedInv, [Next]_vars, "interrupt" \notin lapses', status' = "success"
             PROVE  \E c \in Clusters : launchOf'[c] = launch' /\ cluster'[c] = "ok"
    BY DEF SuccessIsEarned
<1>0. "interrupt" \notin lapses /\ LaunchInv
    BY LapsesKept DEF EarnedInv
<1>1. ASSUME status = "success", launch' = launch
      PROVE  \E c \in Clusters : launchOf'[c] = launch' /\ cluster'[c] = "ok"
    BY <1>0, <1>1, ExitIsFinal DEF EarnedInv, SuccessIsEarned
<1> USE DEF row, jobs, past, ops
<1>2. CASE Launching
  <2>1. CASE Claim \/ SubmitFails
    BY <2>1 DEF Claim, SubmitFails, requeue_or_fail
  <2>2. CASE Submit \/ Record \/ Describe
    BY <2>2, <1>1 DEF Submit, Record, Describe
  <2> QED
    BY <1>2, <2>1, <2>2 DEF Launching
<1>3. CASE Reconcile
  <2>1. /\ status = "running" /\ native # None /\ Asked = native /\ native \in Clusters
        /\ launchOf[native] = launch /\ launchOf' = launchOf
    BY <1>3, <1>0, AskedSubmitted
    DEF Reconcile, NeverSubmitted, Visible, Invisible, Reconciling, Asked, EarnedInv, DescribesCurrent
  <2>2. CASE Visible
    <3>1. ~ Live(Asked) /\ finalize_stage(cluster[Asked]) /\ cluster' = cluster
      BY <2>1, <2>2 DEF Visible, KeepRunning, requeue_or_fail
    <3> QED
      BY <2>1, <3>1, <1>0, Finalized, AskedHasEnded
  <2>3. CASE Invisible
    BY <2>1, <2>3, Finalized DEF Invisible, KeepRunning
  <2> QED
    BY <1>3, <2>1, <2>2, <2>3 DEF Reconcile, NeverSubmitted
<1>4. CASE Interrupted \/ SendCancel \/ SendKill \/ GraceElapses \/ Sweep
    BY <1>4, <1>1 DEF Interrupted, SendCancel, SendKill, GraceElapses, Sweep
<1>5. CASE ApplyCancel \/ ApplyRetry
    BY <1>5, <1>1 DEF ApplyCancel, ApplyRetry
<1>6. CASE \E c \in Clusters : ClusterExits(c)
    BY <1>6, <1>1 DEF ClusterExits
<1>7. CASE UNCHANGED vars
    BY <1>7, <1>1 DEF vars
<1> QED
    BY <1>2, <1>3, <1>4, <1>5, <1>6, <1>7 DEF Next

\* A row that succeeded did so by a cluster of its current launch, unless a
\* launch was interrupted: exits, evictions, retries and polls that see nothing
\* never let an older cluster's exit count.
THEOREM SuccessStaysEarned == Spec => []SuccessIsEarned
<1>1. Init => EarnedInv
    BY InitLaunch DEF Init, EarnedInv, DescribesCurrent, SuccessIsEarned
<1>2. EarnedInv /\ [Next]_vars => EarnedInv'
    BY LaunchPreserved, DescribesPreserved, EarnedPreserved DEF EarnedInv
<1>3. EarnedInv => SuccessIsEarned
    BY DEF EarnedInv
<1> QED
    BY <1>1, <1>2, <1>3, PTL DEF Spec

(****************************************************************************)
(* The clusters file is complete                                            *)
(****************************************************************************)
\* A step other than a submit, a record or an interruption leaves the file and
\* the submitted clusters alone.
LEMMA RecordedKept ==
    ASSUME LaunchInv, [Next]_vars, step # "claimed", step # "submitted"
    PROVE  recorded' = recorded /\ Submitted' = Submitted /\ step' # "submitted"
<1>1. recorded' = recorded /\ step' # "submitted"
    BY DEF Next, vars, row, jobs, ops, past, Launching, Claim, Submit, SubmitFails, Record, Describe,
           Interrupted, Reconcile, Reconciling, NeverSubmitted, Visible, Invisible, SendCancel,
           SendKill, Sweep, ApplyCancel, ApplyRetry, ClusterExits, GraceElapses
<1>2. \A c \in Clusters : cluster'[c] = cluster[c] \/ (Live(c) /\ cluster'[c] \notin {"none", "live"})
    BY SubmitOrEnd
<1> QED
    BY <1>1, <1>2, SubmittedKept DEF LaunchInv

LEMMA RecordedPreserved == RecordedInv /\ [Next]_vars => AllRecorded'
<1> SUFFICES ASSUME RecordedInv, [Next]_vars, lapses' \subseteq {"blind", "rm"}
             PROVE  \A c \in Submitted' : c \in ToSet(recorded') \/ (step' = "submitted" /\ c = Newest')
    BY DEF AllRecorded
<1>0. /\ LaunchInv /\ TypeOK /\ SubmittedInOrder
      /\ \A c \in Submitted : c \in ToSet(recorded) \/ (step = "submitted" /\ c = Newest)
    BY LapsesKept DEF RecordedInv, AllRecorded, LaunchInv
<1>1. CASE step \notin {"claimed", "submitted"}
    BY <1>0, <1>1, RecordedKept
<1>2. CASE step = "claimed"
  <2>1. CASE Submit
    BY <1>0, <1>2, <2>1, OneMoreSubmitted, NextNumber DEF Submit, SubmittedInOrder
  <2>2. ASSUME step' \in {"claimed", "idle"}, UNCHANGED <<recorded, Submitted>>
        PROVE  \A c \in Submitted' : c \in ToSet(recorded')
    BY <1>0, <1>2, <2>2
  <2>3. CASE SubmitFails
    BY <1>0, <2>2, <2>3 DEF SubmitFails, jobs, Submitted
  <2>4. CASE Interrupted
    BY <2>4 DEF Interrupted
  <2>5. CASE ~ Submit /\ ~ SubmitFails /\ ~ Interrupted
    <3>1. step' = step /\ recorded' = recorded
      BY <1>2, <2>5
      DEF Next, vars, row, jobs, ops, past, Launching, Claim, Record, Describe, Reconcile, Reconciling,
          NeverSubmitted, Visible, Invisible, SendCancel, SendKill, Sweep, ApplyCancel, ApplyRetry,
          ClusterExits, GraceElapses
    <3>2. Submitted' = Submitted
      BY <1>0, <1>2, <3>1, SubmitOrEnd, SubmittedKept
    <3> QED
      BY <1>2, <2>2, <3>1, <3>2
  <2> QED
    BY <2>1, <2>3, <2>4, <2>5
<1>3. CASE step = "submitted"
  <2>1. /\ Newest \in Clusters /\ Newest' = Newest
        /\ \A c \in Clusters :
              cluster'[c] = cluster[c] \/ (Live(c) /\ cluster'[c] \notin {"none", "live"})
    BY <1>0, <1>3, SubmittedGrows, SubmitOrEnd DEF LaunchInv, LaunchUnderWay
  <2>2. Submitted' = Submitted
    BY <1>0, <2>1, SubmittedKept
  <2>3. CASE Record
    BY <1>0, <2>1, <2>2, <2>3, AppendedSet DEF Record, TypeOK
  <2>4. CASE Interrupted
    BY <2>4 DEF Interrupted
  <2>5. CASE ~ Record /\ ~ Interrupted
    <3>1. step' = step /\ recorded' = recorded
      BY <1>3, <2>5
      DEF Next, vars, row, jobs, ops, past, Launching, Claim, Submit, SubmitFails, Describe, Reconcile,
          Reconciling, NeverSubmitted, Visible, Invisible, SendCancel, SendKill, Sweep, ApplyCancel,
          ApplyRetry, ClusterExits, GraceElapses
    <3> QED
      BY <1>0, <1>3, <2>1, <2>2, <3>1
  <2> QED
    BY <2>3, <2>4, <2>5
<1> QED
    BY <1>1, <1>2, <1>3

\* The clusters file names every cluster that is alive, or the supervisor is about
\* to write it, unless a launch was interrupted or an answer not understood.
THEOREM LiveStaysRecorded == Spec => []LiveIsRecorded
<1>1. Init => RecordedInv
    BY InitLaunch, InitTyped DEF RecordedInv, AllRecorded
<1>2. RecordedInv /\ [Next]_vars => RecordedInv'
    BY LaunchPreserved, RecordedPreserved DEF RecordedInv
<1>3. RecordedInv => LiveIsRecorded
    BY DEF RecordedInv, AllRecorded, LiveIsRecorded, LiveClusters, Live, Submitted
<1> QED
    BY <1>1, <1>2, <1>3, PTL DEF Spec

(****************************************************************************)
(* One cluster                                                              *)
(****************************************************************************)
\* Without a lapse, condor_rm of the described cluster leaves none alive.
LEMMA RemovalEndsAll ==
    ASSUME NamedInv, lapses' = {}, lapses = {}, step = "idle", native # None,
           remove_cluster(native)
    PROVE  \A c \in Clusters : cluster'[c] # "live"
BY DEF NamedInv, OneIsLive, LiveClusters, Live, LaunchInv, TypeOK, remove_cluster, remove_clusters

LEMMA OneIsLivePreserved == NamedInv /\ [Next]_vars => OneIsLive'
<1> SUFFICES ASSUME NamedInv, [Next]_vars, lapses' = {}, NEW c \in Clusters, cluster'[c] = "live"
             PROVE  /\ status' = "running" /\ step' # "claimed"
                    /\ c = IF step' = "idle" THEN native' ELSE Newest'
    BY DEF OneIsLive, LiveClusters, Live
<1>0. /\ lapses = {} /\ LaunchInv /\ TypeOK
      /\ \A d \in Clusters :
            Live(d) => status = "running" /\ step # "claimed" /\ d = IF step = "idle" THEN native ELSE Newest
    BY LapsesKept DEF NamedInv, LaunchInv, OneIsLive, LiveClusters
<1>1. CASE Submit
  <2>1. Newest' = Newest + 1 /\ step' = "submitted" /\ status' = status /\ status = "running"
    BY <1>0, <1>1, OneMoreSubmitted DEF Submit, row, LaunchInv, LaunchUnderWay
  <2>2. c = Newest + 1
    BY <1>0, <1>1 DEF Submit, Live, TypeOK
  <2> QED
    BY <2>1, <2>2
<1>2. CASE SubmitFails
    BY <1>0, <1>2 DEF SubmitFails, jobs, Live
<1>3. CASE ~ Submit /\ ~ SubmitFails
  <2>1. /\ Live(c) /\ status = "running" /\ step # "claimed" /\ Newest' = Newest
        /\ c = IF step = "idle" THEN native ELSE Newest
    <3>1. cluster'[c] = cluster[c]
      BY <1>0, <1>3, RemovedTyped
      DEF Next, vars, row, jobs, ops, past, Launching, Claim, Record, Describe, Interrupted, Reconcile,
          Reconciling, NeverSubmitted, Visible, Invisible, KeepRunning, SendCancel, SendKill, Sweep,
          ApplyCancel, ApplyRetry, ClusterExits, GraceElapses, remove_cluster, TypeOK
    <3> QED
      BY <1>0, <3>1, SubmittedGrows DEF Live
  <2> USE <1>0, <2>1 DEF row, jobs, ops, past
  <2>2. CASE Launching
    BY <1>3, <2>2 DEF Launching, Claim, Record, Describe
  <2>3. CASE Reconcile
    <3>1. native # None /\ Asked = native /\ step = "idle" /\ Live(Asked) /\ c = native
      BY <2>3, ConstantsTyped DEF Reconcile, NeverSubmitted, Visible, Invisible, Reconciling, Asked,
         None, Clusters
    <3>2. CASE Visible
      BY <3>1, <3>2, RemovalEndsAll DEF Visible, Reconciling, KeepRunning
    <3>3. CASE Invisible
      BY <3>1, <3>3 DEF Invisible, Reconciling, KeepRunning
    <3> QED
      BY <2>3, <3>1, <3>2, <3>3 DEF Reconcile, NeverSubmitted
  <2>4. CASE Interrupted
    BY <2>4 DEF Interrupted
  <2>5. CASE SendCancel \/ SendKill \/ GraceElapses \/ Sweep
    BY <2>5 DEF SendCancel, SendKill, GraceElapses, Sweep
  <2>6. CASE ApplyCancel \/ ApplyRetry
    BY <2>6, RemovalEndsAll, ConstantsTyped DEF ApplyCancel, ApplyRetry, None, Clusters
  <2>7. CASE \E d \in Clusters : ClusterExits(d)
    BY <2>7 DEF ClusterExits
  <2>8. CASE UNCHANGED vars
    BY <2>8 DEF vars
  <2> QED
    BY <2>2, <2>3, <2>4, <2>5, <2>6, <2>7, <2>8 DEF Next
<1> QED
    BY <1>1, <1>2, <1>3

LEMMA InitNamed == Init => NamedInv
BY InitLaunch DEF Init, NamedInv, OneIsLive, LiveClusters, Live

LEMMA NamedPreserved == NamedInv /\ [Next]_vars => NamedInv'
BY LaunchPreserved, OneIsLivePreserved DEF NamedInv

\* Without a lapse, between launches, a cluster that is alive is the one the row
\* names, and the row is running.
THEOREM LiveStaysNamed == Spec => []LiveIsNamed
<1>1. NamedInv => LiveIsNamed
    BY DEF NamedInv, OneIsLive, LiveIsNamed
<1> QED
    BY <1>1, InitNamed, NamedPreserved, PTL DEF Spec

\* Without a lapse no step ends a row whose cluster is alive before and after it,
\* the commands' steps included: each of them removes the cluster.
THEOREM LiveStaysRunning == Spec => LiveKeepsRunning
<1>1. NamedInv /\ [Next]_vars =>
        [\A c \in Clusters :
            /\ lapses' = {}
            /\ status = "running" /\ launchOf[c] = launch /\ Live(c) /\ Live(c)'
            => status' = "running"]_vars
    BY OneIsLivePreserved DEF OneIsLive, LiveClusters, Live
<1> QED
    BY <1>1, InitNamed, NamedPreserved, PTL DEF Spec, LiveKeepsRunning
=============================================================================
