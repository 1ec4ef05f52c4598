------------------------ MODULE SupervisorLease_proofs -------------------------
(****************************************************************************)
(* Proofs about SupervisorLease up to the first stall, for any number of    *)
(* processes, hosts and shells: one owner at a time, whom the lease names,  *)
(* the refinement of Ownership, and that a request that was meant for one   *)
(* supervisor does not stop a later one.                                    *)
(*                                                                          *)
(* The argument is about the lease of a live process: it is fresh, so       *)
(* nobody may reclaim it, and no other process is between its first read    *)
(* and its write once it has been confirmed.  Generations repeat among      *)
(* processes that race to acquire, but not among those that win.            *)
(****************************************************************************)
EXTENDS SupervisorLease, FiniteSetTheorems, TLAPS

\* The settle sleep outlasts every other read and write, and who renews stays fresh.
NothingStalls == MaxStalls = 0

\* What of the types the argument needs; generations have no bound here.
LeaseTyped ==
    /\ lease \in [owner : Procs \cup {None}, gen : Nat]
    /\ pc \in [Procs -> Places]
    /\ gen \in [Procs -> Nat]
    /\ late = [p \in Procs |-> "none"]
    /\ target \in [Clis -> [owner : Procs \cup {None}, gen : Nat]]
    /\ served \subseteq Procs
    /\ stalls = 0

\* A process that has written its candidate or ended keeps its generation.
Written(p) == pc[p] \in {"settling", "owner", "stopping", "gone"}

\* The lease is that of a process that has written it, and fresh as long as that lives.
LeaseIsOfWriter ==
    lease.owner # None =>
        /\ Written(lease.owner)
        /\ lease.gen = gen[lease.owner]
        /\ Alive(lease.owner) => fresh

\* An owner holds the lease to its end, and nobody is about to write another.
OwnerHoldsLease ==
    \A p \in Owners : p \in served /\ matches(p) /\ \A q \in Procs : pc[q] \notin Acquiring

\* Every generation that is larger than those of the supervisors so far.
Larger(g) == g # 0 /\ \A q \in served : gen[q] < g

\* The file keeps up with the supervisors; who has taken a number or written a candidate
\* holds one that no supervisor had; and no two supervisors had the same.
GenerationsFence ==
    /\ \A p \in served :
          /\ pc[p] \in {"owner", "stopping", "gone"}
          /\ gen[p] # 0
          /\ gen[p] <= lease.gen
    /\ \A p \in Procs : pc[p] = "numbered" => Larger(gen[p])
    /\ lease.owner # None /\ lease.owner \notin served => Larger(lease.gen)
    /\ \A p, q \in served : gen[p] = gen[q] => p = q

LeaseInv == LeaseTyped /\ LeaseIsOfWriter /\ OwnerHoldsLease /\ GenerationsFence

LEMMA InitLease == Init => LeaseInv
BY SupervisorLeaseAssumption DEF Init, LeaseInv, LeaseTyped, LeaseIsOfWriter, OwnerHoldsLease,
   GenerationsFence, Owners, Forgotten, Places

\* The lease of a live process is not reclaimable from any host.
LEMMA LiveIsNotReclaimable ==
    ASSUME LeaseInv, NEW h, lease.owner # None, Alive(lease.owner)
    PROVE  ~ lease_is_reclaimable(h)
BY DEF LeaseInv, LeaseIsOfWriter, lease_is_reclaimable, local_owner_pid_dead

LEMMA NoStallHappens == ASSUME LeaseInv, stalls' = 0 PROVE ~ Stall
BY DEF LeaseInv, LeaseTyped, Stall

\* Who takes a number takes one that is larger than every supervisor's.
LEMMA NumberIsLarger ==
    ASSUME LeaseInv, NEW p \in Procs, NextGeneration(p)
    PROVE  GenerationsFence'
<1> USE DEF LeaseInv, LeaseTyped
<1>1. /\ pc[p] = "cleared" /\ pc' = [pc EXCEPT ![p] = "numbered"]
      /\ gen' = [gen EXCEPT ![p] = lease.gen + 1] /\ UNCHANGED <<lease, served>>
  BY DEF NextGeneration, next_generation, Goto, files
<1>2. p \notin served /\ lease.owner # p
  BY <1>1, SupervisorLeaseAssumption DEF GenerationsFence, LeaseIsOfWriter, Written
<1>3. \A q \in Procs : q # p => gen'[q] = gen[q] /\ pc'[q] = pc[q]
  BY <1>1
<1>4. gen'[p] = lease.gen + 1 /\ pc'[p] = "numbered" /\ lease.gen \in Nat
  BY <1>1
<1>5. \A q \in served : q \in Procs /\ q # p /\ gen[q] \in Nat /\ gen[q] <= lease.gen
  BY <1>2 DEF GenerationsFence
<1>6. \A g : Larger(g) => Larger(g)'
  BY <1>1, <1>3, <1>5 DEF Larger
<1>7. Larger(gen[p])'
  BY <1>1, <1>3, <1>4, <1>5 DEF Larger
<1> QED
  BY <1>1, <1>2, <1>3, <1>5, <1>6, <1>7 DEF GenerationsFence

\* As long as no supervisor begins or is forgotten and no number is taken, it is enough
\* that the file keeps its generation and names nobody new.
LEMMA FenceStays ==
    ASSUME LeaseInv, UNCHANGED <<gen, served>>,
           lease'.gen = lease.gen, lease'.owner \in {None, lease.owner},
           \A p \in Procs : pc'[p] = "numbered" => pc[p] = "numbered",
           \A p \in Procs : pc[p] \in {"owner", "stopping", "gone"} =>
                                pc'[p] \in {"owner", "stopping", "gone"}
    PROVE  GenerationsFence'
BY DEF LeaseInv, LeaseTyped, GenerationsFence, Larger

\* Who writes its candidate is not a supervisor yet.
LEMMA CandidateIsFenced ==
    ASSUME LeaseInv, NEW p \in Procs, WriteCandidate(p)
    PROVE  GenerationsFence'
<1> USE DEF LeaseInv, LeaseTyped
<1>1. /\ pc[p] = "numbered" /\ pc' = [pc EXCEPT ![p] = "settling"]
      /\ lease' = [owner |-> p, gen |-> gen[p]] /\ UNCHANGED <<gen, served>>
  BY DEF WriteCandidate, write_lease, Goto
<1>2. p \notin served /\ Larger(gen[p])
  BY <1>1 DEF GenerationsFence
<1>3. lease'.owner = p /\ lease'.gen = gen[p]
  BY <1>1
<1>4. \A g : Larger(g) => Larger(g)'
  BY <1>1 DEF Larger
<1>5. \A q \in served : gen[q] \in Nat /\ gen[p] \in Nat /\ gen[q] <= lease'.gen
  BY <1>2, <1>3 DEF Larger
<1> QED
  BY <1>1, <1>2, <1>3, <1>4, <1>5 DEF GenerationsFence

\* Who is confirmed has a generation that is larger than every earlier supervisor's.
LEMMA SupervisorIsFenced ==
    ASSUME LeaseInv, stalls' = 0, NEW p \in Procs, Confirm(p)
    PROVE  GenerationsFence'
<1> USE DEF LeaseInv, LeaseTyped
<1>1. /\ pc[p] = "settling" /\ UNCHANGED <<lease, gen>>
      /\ \A q \in Procs : pc[q] \notin Acquiring
  BY NoStallHappens DEF Confirm, files
<1>2. \A q \in Procs : pc'[q] # "numbered"
  BY <1>1 DEF Confirm, Settle, Goto, Acquiring
<1>3. p \notin served
  BY <1>1 DEF GenerationsFence
<1>4. \A q \in served : q # p /\ pc'[q] = pc[q]
  BY <1>3 DEF Confirm, Settle, Goto
<1>5. CASE matches(p)
  <2>1. served' = served \cup {p} /\ pc'[p] = "owner" /\ lease.owner = p /\ lease.gen = gen[p]
    BY <1>5 DEF Confirm, Settle, Goto, matches
  <2>2. Larger(gen[p])
    BY <1>3, <2>1, SupervisorLeaseAssumption DEF GenerationsFence
  <2> QED
    BY <1>1, <1>2, <1>4, <2>1, <2>2 DEF GenerationsFence, Larger
<1>6. CASE ~ matches(p)
  <2>1. served' = served
    BY <1>6 DEF Confirm, Settle
  <2> QED
    BY <1>1, <1>2, <1>4, <2>1 DEF GenerationsFence, Larger
<1> QED
  BY <1>5, <1>6

\* A release that leaves the generation in the marker.
LEMMA FenceAfterRelease ==
    ASSUME LeaseInv, AfterRelease, UNCHANGED gen,
           lease' \in {lease, [owner |-> None, gen |-> lease.gen], Forgotten},
           \A p \in Procs : pc'[p] = "numbered" => pc[p] = "numbered",
           \A p \in Procs : pc[p] \in {"owner", "stopping", "gone"} =>
                                pc'[p] \in {"owner", "stopping", "gone"}
    PROVE  GenerationsFence'
<1>1. CASE lease' = Forgotten
  <2>1. served' = {} /\ lease'.owner = None
    BY <1>1 DEF AfterRelease, Forgotten
  <2>2. \A p \in Procs : pc'[p] = "numbered" => gen[p] # 0
    BY DEF LeaseInv, GenerationsFence, Larger
  <2> QED
    BY <2>1, <2>2 DEF GenerationsFence, Larger
<1>2. CASE lease' # Forgotten
  <2>1. served' = served /\ lease'.gen = lease.gen /\ lease'.owner \in {None, lease.owner}
    BY <1>2 DEF AfterRelease, LeaseInv, LeaseTyped
  <2> QED
    BY <2>1, FenceStays
<1> QED
  BY <1>1, <1>2

LEMMA SupervisorKeepsFence ==
    ASSUME LeaseInv, stalls' = 0, NEW p \in Procs, Supervisor(p)
    PROVE  GenerationsFence'
<1> USE DEF Goto, files
<1>0. LeaseTyped
  BY DEF LeaseInv
<1>1. CASE NextGeneration(p) \/ WriteCandidate(p) \/ Confirm(p)
  BY <1>1, NumberIsLarger, CandidateIsFenced, SupervisorIsFenced
<1>2. CASE \/ Start(p) \/ Decide(p) \/ DropStop(p) \/ RenewFails(p) \/ SeeStop(p) \/ Crash(p)
  <2>1. UNCHANGED <<lease, gen, served>>
    BY <1>2 DEF Start, Decide, DropStop, RenewFails, SeeStop, Crash
  <2>2. /\ \A q \in Procs : pc'[q] = "numbered" => pc[q] = "numbered"
        /\ \A q \in Procs : pc[q] \in {"owner", "stopping", "gone"} =>
                                pc'[q] \in {"owner", "stopping", "gone"}
    BY <1>0, <1>2 DEF Start, Decide, DropStop, RenewFails, SeeStop, Crash, LeaseTyped
  <2> QED
    BY <2>1, <2>2, FenceStays
<1>3. CASE Renew(p)
  <2>1. UNCHANGED <<gen, served>> /\ lease'.owner = lease.owner /\ lease'.gen = lease.gen
    BY <1>3 DEF Renew, write_lease, matches
  <2>2. /\ \A q \in Procs : pc'[q] = "numbered" => pc[q] = "numbered"
        /\ \A q \in Procs : pc[q] \in {"owner", "stopping", "gone"} =>
                                pc'[q] \in {"owner", "stopping", "gone"}
    BY <1>0, <1>3 DEF Renew, LeaseTyped
  <2> QED
    BY <2>1, <2>2, FenceStays
<1>4. CASE Exit(p)
  <2>1. lease' \in {lease, [owner |-> None, gen |-> lease.gen], Forgotten}
    BY <1>4 DEF Exit, release_lease
  <2>2. UNCHANGED gen /\ AfterRelease
    BY <1>4 DEF Exit
  <2>3. /\ \A q \in Procs : pc'[q] = "numbered" => pc[q] = "numbered"
        /\ \A q \in Procs : pc[q] \in {"owner", "stopping", "gone"} =>
                                pc'[q] \in {"owner", "stopping", "gone"}
    BY <1>0, <1>4 DEF Exit, LeaseTyped
  <2> QED
    BY <2>1, <2>2, <2>3, FenceAfterRelease
<1>5. CASE Delay(p) \/ WriteLate(p)
  BY <1>0, <1>5, NoStallHappens DEF Delay, WriteLate, LeaseTyped
<1> QED
  BY <1>1, <1>2, <1>3, <1>4, <1>5 DEF Supervisor, Acquire

LEMMA SupervisorKeepsLease ==
    ASSUME LeaseInv, stalls' = 0, NEW p \in Procs, Supervisor(p)
    PROVE  LeaseInv'
<1> USE SupervisorLeaseAssumption DEF LeaseTyped, LeaseIsOfWriter, OwnerHoldsLease, Owners,
        Goto, files, shells, matches, Alive, Written, Acquiring, Places
<1>0. LeaseTyped /\ LeaseIsOfWriter /\ OwnerHoldsLease
  BY DEF LeaseInv
<1> SUFFICES LeaseTyped' /\ LeaseIsOfWriter' /\ OwnerHoldsLease'
  BY SupervisorKeepsFence DEF LeaseInv
<1>1. CASE Start(p) \/ DropStop(p)
  BY <1>0, <1>1 DEF Start, DropStop
<1>2. CASE Decide(p)
  BY <1>0, <1>2, LiveIsNotReclaimable DEF Decide
<1>10. CASE NextGeneration(p)
  BY <1>0, <1>10 DEF NextGeneration, next_generation
<1>3. CASE WriteCandidate(p)
  BY <1>0, <1>3 DEF WriteCandidate, write_lease
<1>4. CASE Confirm(p)
  BY <1>0, <1>4, NoStallHappens DEF Confirm, Settle
<1>5. CASE Renew(p)
  BY <1>0, <1>5 DEF Renew, write_lease
<1>6. CASE RenewFails(p) \/ SeeStop(p)
  BY <1>0, <1>6 DEF RenewFails, SeeStop
<1>7. CASE Exit(p)
  <2>1. matches(p) /\ gen[p] # 0
    BY <1>0, <1>7 DEF Exit, LeaseInv, GenerationsFence
  <2>2. lease' = [owner |-> None, gen |-> gen[p]]
    BY <1>7, <2>1 DEF Exit, release_lease
  <2>3. UNCHANGED served
    BY <1>7, <2>1, <2>2 DEF Exit, AfterRelease, Forgotten
  <2> QED
    BY <1>0, <1>7, <2>1, <2>2, <2>3 DEF Exit
<1>8. CASE Delay(p) \/ WriteLate(p)
  BY <1>0, <1>8, NoStallHappens DEF Delay, WriteLate
<1>9. CASE Crash(p)
  BY <1>0, <1>9 DEF Crash
<1> QED
  BY <1>1, <1>2, <1>3, <1>4, <1>5, <1>6, <1>7, <1>8, <1>9, <1>10 DEF Supervisor, Acquire

\* A shell that finishes leaves the lease of a supervisor at work alone, and forgets the
\* generation only of a lease that is nobody's.
LEMMA FinishingLeavesOwner ==
    ASSUME LeaseInv, NEW c \in Clis, FinishLocalStop(c) \/ FinishRemoteStop(c)
    PROVE  /\ lease' \in {lease, [owner |-> None, gen |-> lease.gen], Forgotten}
           /\ Owners # {} => UNCHANGED <<lease, fresh, served>>
<1>1. lease' \in {lease, [owner |-> None, gen |-> lease.gen], Forgotten}
  BY DEF FinishLocalStop, FinishRemoteStop, release_lease
<1>2. ASSUME NEW p \in Owners PROVE UNCHANGED <<lease, fresh, served>>
  <2>1. lease.owner = p /\ p # None /\ Alive(p) /\ fresh
    BY <1>2, SupervisorLeaseAssumption
    DEF LeaseInv, OwnerHoldsLease, LeaseIsOfWriter, matches, Owners, Alive
  <2>2. lease' = lease
    BY <2>1, LiveIsNotReclaimable DEF FinishLocalStop, FinishRemoteStop, release_lease
  <2>3. AfterRelease /\ fresh \in BOOLEAN
    BY <2>1 DEF FinishLocalStop, FinishRemoteStop
  <2> QED
    BY <2>1, <2>2, <2>3 DEF AfterRelease, Forgotten
<1> QED
  BY <1>1, <1>2

LEMMA ShellKeepsLease ==
    ASSUME LeaseInv, stalls' = 0, NEW c \in Clis, Shell(c)
    PROVE  LeaseInv'
<1> USE SupervisorLeaseAssumption DEF LeaseTyped, LeaseIsOfWriter, OwnerHoldsLease, Owners,
        files, shells, matches, Alive, Written, Acquiring, Places
<1>0. LeaseTyped /\ LeaseIsOfWriter /\ OwnerHoldsLease
  BY DEF LeaseInv
<1>1. CASE ReadTarget(c)
  <2>1. LeaseTyped' /\ LeaseIsOfWriter' /\ OwnerHoldsLease'
    BY <1>0, <1>1 DEF ReadTarget, Forgotten
  <2>2. GenerationsFence'
    BY <1>1, FenceStays DEF ReadTarget
  <2> QED
    BY <2>1, <2>2 DEF LeaseInv
<1>2. CASE RequestStop(c) \/ SeeReleased(c) \/ GiveUp(c)
  <2>1. LeaseTyped' /\ LeaseIsOfWriter' /\ OwnerHoldsLease'
    BY <1>0, <1>2 DEF RequestStop, SeeReleased, GiveUp, Return, Forgotten
  <2>2. GenerationsFence'
    BY <1>2, FenceStays DEF RequestStop, SeeReleased, GiveUp
  <2> QED
    BY <2>1, <2>2 DEF LeaseInv
<1>3. CASE SignalOwner(c)
  <2>1. LeaseTyped' /\ LeaseIsOfWriter' /\ OwnerHoldsLease'
    BY <1>0, <1>3 DEF SignalOwner, Goto
  <2>2. UNCHANGED <<lease, gen, served>>
    BY <1>3 DEF SignalOwner
  <2>3. /\ \A q \in Procs : pc'[q] = "numbered" => pc[q] = "numbered"
        /\ \A q \in Procs : pc[q] \in {"owner", "stopping", "gone"} =>
                                pc'[q] \in {"owner", "stopping", "gone"}
    BY <1>0, <1>3 DEF SignalOwner, Goto
  <2>4. GenerationsFence'
    BY <2>2, <2>3, FenceStays
  <2> QED
    BY <2>1, <2>4 DEF LeaseInv
<1>4. CASE FinishLocalStop(c) \/ FinishRemoteStop(c)
  <2>1. /\ lease' \in {lease, [owner |-> None, gen |-> lease.gen], Forgotten}
        /\ Owners # {} => UNCHANGED <<lease, fresh, served>>
    BY ONLY <1>4, LeaseInv, c \in Clis, FinishingLeavesOwner
  <2>2. UNCHANGED <<pc, gen, late, stalls>> /\ AfterRelease
        /\ target' = [target EXCEPT ![c] = Forgotten]
    BY <1>4 DEF FinishLocalStop, FinishRemoteStop, Return
  <2>3. GenerationsFence'
    BY ONLY <2>1, <2>2, LeaseInv, FenceAfterRelease
  <2>4. LeaseTyped'
    BY <1>0, <2>1, <2>2 DEF AfterRelease, Forgotten
  <2>5. LeaseIsOfWriter'
    BY <1>0, <2>1, <2>2 DEF AfterRelease, Forgotten
  <2>6. OwnerHoldsLease'
    <3>1. Owners' = Owners
      BY <2>2
    <3>2. Owners # {} => UNCHANGED <<lease, pc, gen, served>>
      BY <2>1, <2>2
    <3> QED
      BY <1>0, <3>1, <3>2
  <2> QED
    BY <2>3, <2>4, <2>5, <2>6 DEF LeaseInv
<1> QED
  BY <1>1, <1>2, <1>3, <1>4 DEF Shell

LEMMA LeasePreserved == LeaseInv /\ stalls' = 0 /\ [Next]_vars => LeaseInv'
<1> SUFFICES ASSUME LeaseInv, stalls' = 0, [Next]_vars PROVE LeaseInv'
    OBVIOUS
<1> USE DEF LeaseTyped, LeaseIsOfWriter, OwnerHoldsLease, Owners, shells, matches, Alive, Written
<1>1. CASE Expire
  <2>1. LeaseTyped' /\ LeaseIsOfWriter' /\ OwnerHoldsLease'
    BY <1>1, NoStallHappens DEF Expire, LeaseInv
  <2>2. GenerationsFence'
    BY <1>1, FenceStays DEF Expire
  <2> QED
    BY <2>1, <2>2 DEF LeaseInv
<1>2. CASE UNCHANGED vars
  <2>1. LeaseTyped' /\ LeaseIsOfWriter' /\ OwnerHoldsLease'
    BY <1>2 DEF vars, files, LeaseInv
  <2>2. GenerationsFence'
    BY <1>2, FenceStays DEF vars, files
  <2> QED
    BY <2>1, <2>2 DEF LeaseInv
<1> QED
  BY <1>1, <1>2, SupervisorKeepsLease, ShellKeepsLease DEF Next

\* Stalls are never forgotten.
LEMMA StallsAreCounted ==
    stalls \in 0 .. MaxStalls /\ [Next]_vars =>
        stalls' \in 0 .. MaxStalls /\ (stalls' = 0 => stalls = 0)
<1> SUFFICES ASSUME stalls \in 0 .. MaxStalls, [Next]_vars
             PROVE  UNCHANGED stalls \/ Stall
    BY SupervisorLeaseAssumption DEF Stall
<1>1. ASSUME NEW p \in Procs, Supervisor(p) PROVE UNCHANGED stalls \/ Stall
  BY <1>1
  DEF Supervisor, Acquire, Start, Decide, DropStop, NextGeneration, WriteCandidate, Confirm, Renew,
      RenewFails, SeeStop, Exit, Delay, WriteLate, Crash
<1>2. ASSUME NEW c \in Clis, Shell(c) PROVE UNCHANGED stalls
  BY <1>2
  DEF Shell, ReadTarget, RequestStop, SignalOwner, FinishLocalStop, SeeReleased, FinishRemoteStop,
      GiveUp, shells
<1>3. CASE Expire \/ UNCHANGED vars
  BY <1>3 DEF Expire, vars
<1> QED
  BY <1>1, <1>2, <1>3 DEF Next

\* Up to the first stall the lease is as it should be.
TimelyInv == stalls \in 0 .. MaxStalls /\ (stalls = 0 => LeaseInv)

LEMMA InitTimely == Init => TimelyInv
BY InitLease, SupervisorLeaseAssumption DEF TimelyInv, Init

LEMMA TimelyPreserved == TimelyInv /\ [Next]_vars => TimelyInv'
BY LeasePreserved, StallsAreCounted DEF TimelyInv

LEMMA LeaseWhileTimely == NothingStalls /\ TimelyInv => LeaseInv
BY DEF NothingStalls, TimelyInv

(****************************************************************************)
(* One owner                                                                *)
(****************************************************************************)
LEMMA OwnersAreOne == LeaseInv => \A p, q \in Owners : p = q
BY DEF LeaseInv, OwnerHoldsLease, matches

\* Two supervisors never schedule the same workspace, through races to acquire,
\* crashes, takeovers and stops.
THEOREM OneOwnerAtATime ==
    ASSUME NothingStalls
    PROVE  Spec => []AtMostOneOwner
<1>0. TimelyInv => LeaseInv
  BY LeaseWhileTimely
<1>1. LeaseInv => AtMostOneOwner
  <2> SUFFICES ASSUME LeaseInv PROVE Cardinality(Owners) <= 1
      BY DEF AtMostOneOwner
  <2>1. CASE Owners = {}
    BY <2>1, FS_EmptySet
  <2>2. CASE \E p \in Procs : Owners = {p}
    <3>1. Cardinality(Owners) = 1
      BY <2>2, FS_Singleton
    <3> QED
      BY <3>1
  <2> QED
    BY <2>1, <2>2, OwnersAreOne DEF Owners
<1> QED
  BY <1>0, <1>1, InitTimely, TimelyPreserved, PTL DEF Spec

\* The lease file names the supervisor at work: no stop, release or clearing shell
\* takes it away from one.
THEOREM OwnerStaysNamed ==
    ASSUME NothingStalls
    PROVE  Spec => []OwnerIsNamed
<1>0. TimelyInv => LeaseInv
  BY LeaseWhileTimely
<1>1. LeaseInv => OwnerIsNamed
  BY DEF LeaseInv, OwnerHoldsLease, OwnerIsNamed, Owners
<1> QED
  BY <1>0, <1>1, InitTimely, TimelyPreserved, PTL DEF Spec

(****************************************************************************)
(* The refinement of Ownership                                              *)
(****************************************************************************)
\* The generations that the supervisors since the file last forgot were given.
Granted == {gen[p] : p \in served}

\* Who confirms its candidate finds no owner, and has a generation larger than all.
LEMMA ConfirmTakes ==
    ASSUME LeaseInv, NEW p \in Procs, Confirm(p)
    PROVE  Abstract!Take(p) \/ UNCHANGED <<Owners, Granted>>
<1>1. CASE matches(p)
  <2>1. Owners = {} /\ p \notin served /\ Larger(gen[p])
    BY <1>1, SupervisorLeaseAssumption
    DEF Confirm, LeaseInv, OwnerHoldsLease, GenerationsFence, Owners, matches
  <2>2. Owners' = {p}
    BY <1>1, <2>1 DEF Confirm, Settle, Goto, Owners, LeaseInv, LeaseTyped
  <2>3. Granted' = Granted \cup {gen[p]}
    BY <1>1 DEF Confirm, Settle, Granted
  <2>4. \A h \in Granted : h < gen[p]
    BY <2>1 DEF Granted, Larger
  <2> QED
    BY <2>1, <2>2, <2>3, <2>4 DEF Abstract!Take, Granted
<1>2. CASE ~ matches(p)
  BY <1>2 DEF Confirm, Settle, Goto, Owners, Granted, LeaseInv, LeaseTyped
<1> QED
  BY <1>1, <1>2

\* Every other step leaves the owners as they are, or takes one away.
LEMMA OthersOnlyLeave ==
    ASSUME LeaseInv, [Next]_vars, \A p \in Procs : ~ Confirm(p)
    PROVE  Owners' \subseteq Owners
<1> USE DEF LeaseInv, LeaseTyped, Owners, Goto
<1>1. ASSUME NEW p \in Procs, Supervisor(p) PROVE Owners' \subseteq Owners
  BY <1>1 DEF Supervisor, Acquire, Start, Decide, DropStop, NextGeneration, WriteCandidate, Renew,
     RenewFails, SeeStop, Exit, Delay, WriteLate, Crash
<1>2. ASSUME NEW c \in Clis, Shell(c) PROVE Owners' \subseteq Owners
  BY <1>2 DEF Shell, ReadTarget, RequestStop, SignalOwner, FinishLocalStop, SeeReleased,
     FinishRemoteStop, GiveUp
<1>3. CASE Expire \/ UNCHANGED vars
  BY <1>3 DEF Expire, vars
<1> QED
  BY <1>1, <1>2, <1>3 DEF Next

\* Every other step leaves the generations as they are, or forgets them while the owners
\* stay none.
LEMMA OthersOnlyForget ==
    ASSUME LeaseInv, stalls' = 0, [Next]_vars, \A p \in Procs : ~ Confirm(p)
    PROVE  Granted' = Granted \/ (Owners = {} /\ Owners' = {} /\ Granted' = {})
<1>0. ASSUME UNCHANGED <<gen, served>> PROVE Granted' = Granted
  BY <1>0 DEF Granted
<1>1. ASSUME NEW p \in Procs, NextGeneration(p) PROVE Granted' = Granted
  <2>1. p \notin served /\ UNCHANGED served /\ gen' = [gen EXCEPT ![p] = next_generation]
    BY <1>1 DEF NextGeneration, LeaseInv, GenerationsFence
  <2>2. \A q \in served : gen'[q] = gen[q]
    BY <2>1 DEF LeaseInv, LeaseTyped
  <2> QED
    BY <2>1, <2>2 DEF Granted
<1>2. ASSUME NEW p \in Procs, Exit(p) PROVE UNCHANGED <<gen, served>>
  <2>1. matches(p) /\ gen[p] # 0
    BY <1>2 DEF Exit, LeaseInv, OwnerHoldsLease, GenerationsFence, Owners
  <2>2. lease' = [owner |-> None, gen |-> gen[p]]
    BY <1>2, <2>1, SupervisorLeaseAssumption DEF Exit, release_lease, matches
  <2> QED
    BY <1>2, <2>1, <2>2 DEF Exit, AfterRelease, Forgotten
<1>3. ASSUME NEW p \in Procs, Supervisor(p), ~ NextGeneration(p), ~ Exit(p)
      PROVE  UNCHANGED <<gen, served>>
  BY <1>3, NoStallHappens
  DEF Supervisor, Acquire, Start, Decide, DropStop, WriteCandidate, Renew, RenewFails, SeeStop,
      Delay, WriteLate, Crash, LeaseInv, LeaseTyped
<1>4. ASSUME NEW c \in Clis, FinishLocalStop(c) \/ FinishRemoteStop(c)
      PROVE  Granted' = Granted \/ (Owners = {} /\ Owners' = {} /\ Granted' = {})
  <2>1. UNCHANGED <<gen, pc>> /\ AfterRelease
    BY <1>4 DEF FinishLocalStop, FinishRemoteStop
  <2>2. Owners # {} => UNCHANGED served
    BY <1>4, FinishingLeavesOwner
  <2>3. served' = served \/ served' = {}
    BY <2>1 DEF AfterRelease
  <2>4. Owners' = Owners
    BY <2>1 DEF Owners
  <2> QED
    BY <2>1, <2>2, <2>3, <2>4 DEF Granted
<1>5. ASSUME NEW c \in Clis, Shell(c), ~ FinishLocalStop(c), ~ FinishRemoteStop(c)
      PROVE  UNCHANGED <<gen, served>>
  BY <1>5 DEF Shell, ReadTarget, RequestStop, SignalOwner, SeeReleased, GiveUp
<1>6. CASE Expire \/ UNCHANGED vars
  BY <1>0, <1>6 DEF Expire, vars
<1> QED
  BY <1>0, <1>1, <1>2, <1>3, <1>4, <1>5, <1>6 DEF Next

\* Every behaviour without a stall is one of the abstract ownership: a takeover finds
\* nobody at work and goes beyond every generation there was, and the generations start
\* over only while nobody is at work.
THEOREM LeaseImplementsOwnership ==
    ASSUME NothingStalls
    PROVE  Spec => ImplementsOwnership
<1>0. TimelyInv => LeaseInv
  BY LeaseWhileTimely
<1>1. Init => Owners = {} /\ Granted = {}
  BY DEF Init, Owners, Granted
<1>2. LeaseInv /\ LeaseInv' /\ [Next]_vars => [Abstract!Next]_<<Owners, Granted>>
  <2> SUFFICES ASSUME LeaseInv, LeaseInv', [Next]_vars
               PROVE  Abstract!Next \/ UNCHANGED <<Owners, Granted>>
      OBVIOUS
  <2>0. stalls' = 0
    BY DEF LeaseInv, LeaseTyped
  <2>1. CASE \E p \in Procs : Confirm(p)
    BY <2>1, ConfirmTakes DEF Abstract!Next
  <2>2. CASE \A p \in Procs : ~ Confirm(p)
    <3>1. Owners' = Owners \/ Owners' = {}
      BY <2>2, OthersOnlyLeave, OwnersAreOne
    <3>2. Granted' = Granted \/ (Owners = {} /\ Owners' = {} /\ Granted' = {})
      BY <2>0, <2>2, OthersOnlyForget
    <3> QED
      BY <3>1, <3>2 DEF Abstract!Next, Abstract!Leave, Abstract!StartOver, Granted
  <2> QED
    BY <2>1, <2>2
<1> QED
  BY <1>0, <1>1, <1>2, InitTimely, TimelyPreserved, PTL
  DEF Spec, ImplementsOwnership, Abstract!Spec, Granted

(****************************************************************************)
(* Stop requests                                                            *)
(****************************************************************************)
\* What names a process names the generation that process has written.
Names(o, g) == IF o = None THEN g = AnyGeneration ELSE Written(o) /\ g = gen[o]

\* So does what is pending, and what a shell has read and may be about to write.
RequestInv ==
    /\ stop \in [pending : BOOLEAN, gen : Nat, for : Procs \cup {None}]
    /\ Names(stop.for, stop.gen)
    /\ \A c \in Clis : Names(target[c].owner, target[c].gen)

\* What is written is neither changed nor taken back.
LEMMA WrittenStays ==
    ASSUME LeaseInv, stalls' = 0, [Next]_vars, NEW p \in Procs, Written(p)
    PROVE  Written(p)' /\ gen'[p] = gen[p]
<1> USE DEF LeaseInv, LeaseTyped, Written, Goto
<1>1. ASSUME NEW q \in Procs, Supervisor(q) PROVE Written(p)' /\ gen'[p] = gen[p]
  BY <1>1, NoStallHappens
  DEF Supervisor, Acquire, Start, Decide, DropStop, NextGeneration, WriteCandidate, Confirm, Settle,
      Renew, RenewFails, SeeStop, Exit, Delay, WriteLate, Crash
<1>2. ASSUME NEW c \in Clis, Shell(c) PROVE Written(p)' /\ gen'[p] = gen[p]
  BY <1>2 DEF Shell, ReadTarget, RequestStop, SignalOwner, FinishLocalStop, SeeReleased,
     FinishRemoteStop, GiveUp
<1>3. CASE Expire \/ UNCHANGED vars
  BY <1>3 DEF Expire, vars
<1> QED
  BY <1>1, <1>2, <1>3 DEF Next

\* A request is written from what a shell has read, or dropped.
LEMMA RequestsAreRead ==
    ASSUME LeaseInv, stalls' = 0, [Next]_vars
    PROVE  \/ stop' \in {stop, Cleared}
           \/ \E c \in Clis :
                 stop' = [pending |-> TRUE, for |-> target[c].owner, gen |-> target[c].gen]
<1>1. ASSUME NEW p \in Procs, Supervisor(p) PROVE stop' \in {stop, Cleared}
  BY <1>1, NoStallHappens
  DEF Supervisor, Acquire, Start, Decide, DropStop, NextGeneration, WriteCandidate, Confirm, Settle,
      Renew, RenewFails, SeeStop, Exit, Delay, WriteLate, Crash, files, clear_stop_request
<1>2. ASSUME NEW c \in Clis, Shell(c), ~ RequestStop(c) PROVE stop' \in {stop, Cleared}
  BY <1>2 DEF Shell, ReadTarget, SignalOwner, FinishLocalStop, SeeReleased, FinishRemoteStop,
     GiveUp, files, shells, clear_stop_request
<1>3. ASSUME NEW c \in Clis, RequestStop(c)
      PROVE  stop' = [pending |-> TRUE, for |-> target[c].owner, gen |-> target[c].gen]
  BY <1>3 DEF RequestStop
<1>4. CASE Expire \/ UNCHANGED vars
  BY <1>4 DEF Expire, vars, files
<1> QED
  BY <1>1, <1>2, <1>3, <1>4 DEF Next

\* A shell reads the lease, which is of who has written it.
LEMMA TargetsAreRead ==
    ASSUME LeaseInv, stalls' = 0, [Next]_vars, NEW c \in Clis
    PROVE  target'[c] \in {target[c], Forgotten} \/ (target'[c] = lease /\ lease.owner # None)
<1> USE DEF LeaseInv, LeaseTyped
<1>1. ASSUME NEW p \in Procs, Supervisor(p) PROVE target' = target
  BY <1>1 DEF Supervisor, Acquire, Start, Decide, DropStop, NextGeneration, WriteCandidate, Confirm,
      Renew, RenewFails, SeeStop, Exit, Delay, WriteLate, Crash, shells
<1>2. ASSUME NEW d \in Clis, Shell(d), ~ ReadTarget(d)
      PROVE  target'[c] \in {target[c], Forgotten}
  BY <1>2 DEF Shell, RequestStop, SignalOwner, FinishLocalStop, SeeReleased, FinishRemoteStop,
     GiveUp, Return, shells
<1>3. ASSUME NEW d \in Clis, ReadTarget(d)
      PROVE  target'[c] \in {target[c], Forgotten} \/ (target'[c] = lease /\ lease.owner # None)
  BY <1>3 DEF ReadTarget
<1>4. CASE Expire \/ UNCHANGED vars
  BY <1>4 DEF Expire, vars, shells
<1> QED
  BY <1>1, <1>2, <1>3, <1>4 DEF Next

LEMMA RequestPreserved ==
    LeaseInv /\ RequestInv /\ stalls' = 0 /\ [Next]_vars => RequestInv'
<1> SUFFICES ASSUME LeaseInv, RequestInv, stalls' = 0, [Next]_vars PROVE RequestInv'
    OBVIOUS
<1>1. ASSUME NEW o \in Procs \cup {None}, NEW g, Names(o, g) PROVE Names(o, g)'
  BY <1>1, WrittenStays DEF Names
<1>2. Names(None, 0)'
  BY DEF Names, AnyGeneration
<1>3. \A c \in Clis : target[c].owner \in Procs \cup {None} /\ target[c].gen \in Nat
  BY DEF LeaseInv, LeaseTyped
<1>4. /\ stop' \in [pending : BOOLEAN, gen : Nat, for : Procs \cup {None}]
      /\ Names(stop.for, stop.gen)'
  <2>1. CASE stop' = stop
    BY <1>1, <2>1 DEF RequestInv
  <2>2. CASE stop' = Cleared
    BY <1>2, <2>2 DEF Cleared, AnyGeneration
  <2>3. ASSUME NEW c \in Clis,
               stop' = [pending |-> TRUE, for |-> target[c].owner, gen |-> target[c].gen]
        PROVE  /\ stop' \in [pending : BOOLEAN, gen : Nat, for : Procs \cup {None}]
               /\ Names(stop.for, stop.gen)'
    <3>1. \A o \in Procs \cup {None}, g \in Nat : Names(o, g) => Names(o, g)'
      BY <1>1
    <3>2. stop'.for = target[c].owner /\ stop'.gen = target[c].gen
      BY <2>3
    <3> QED
      BY <1>3, <2>3, <3>1, <3>2 DEF RequestInv
  <2> QED
    BY <2>1, <2>2, <2>3, RequestsAreRead
<1>5. ASSUME NEW c \in Clis PROVE Names(target[c].owner, target[c].gen)'
  <2>1. CASE target'[c] = target[c]
    BY <1>1, <1>3, <2>1 DEF RequestInv
  <2>2. CASE target'[c] = Forgotten
    BY <1>2, <2>2 DEF Forgotten
  <2>3. CASE target'[c] = lease /\ lease.owner # None
    <3>1. lease.owner \in Procs \cup {None} /\ Names(lease.owner, lease.gen)
      BY <2>3 DEF Names, LeaseInv, LeaseTyped, LeaseIsOfWriter
    <3> QED
      BY <1>1, <2>3, <3>1
  <2> QED
    BY <2>1, <2>2, <2>3, TargetsAreRead
<1> QED
  BY <1>4, <1>5 DEF RequestInv

\* Whatever shells there are and however late they write, a request that was meant for one
\* supervisor does not stop another, for every number of processes: until something stalls,
\* and unless the file forgot its generation in between.
THEOREM StopStaysOnTarget == Spec => StopHitsItsTarget
<1> DEFINE Inv == TimelyInv /\ (stalls = 0 => RequestInv)
<1>1. Init => Inv
  BY InitTimely, SupervisorLeaseAssumption
  DEF Init, RequestInv, Names, Forgotten, Cleared, AnyGeneration
<1>2. Inv /\ [Next]_vars => Inv'
  BY TimelyPreserved, StallsAreCounted, RequestPreserved DEF TimelyInv
<1>3. ASSUME Inv, NEW p \in Procs, stalls = 0, pc[p] = "owner", SeeStop(p)
      PROVE  stop.for \notin served \ {p}
  <2>1. LeaseInv /\ RequestInv
    BY <1>3 DEF TimelyInv
  <2>2. p \in served /\ stop.gen \in {AnyGeneration, gen[p]}
    BY <1>3, <2>1 DEF SeeStop, stop_targets_owner, LeaseInv, OwnerHoldsLease, Owners
  <2>3. SUFFICES ASSUME stop.for \in served PROVE stop.for = p
    OBVIOUS
  <2>4. stop.gen = gen[stop.for] /\ stop.gen # AnyGeneration
    BY <2>1, <2>3, SupervisorLeaseAssumption
    DEF RequestInv, Names, LeaseInv, LeaseTyped, GenerationsFence, AnyGeneration
  <2> QED
    BY <2>1, <2>2, <2>3, <2>4 DEF LeaseInv, GenerationsFence
<1>4. Inv => \A p \in Procs :
               stalls = 0 /\ pc[p] = "owner" /\ SeeStop(p) => stop.for \notin served \ {p}
  BY <1>3
<1> HIDE DEF Inv
<1> QED
  BY <1>1, <1>2, <1>4, PTL DEF Spec, StopHitsItsTarget

(****************************************************************************)
(* Types: the generations that are handed out                               *)
(****************************************************************************)
\* The processes that have taken a number, or ended.
Beyond == {p \in Procs : pc[p] \notin {"off", "starting", "willing", "cleared"}}

\* A process takes one number in its life, so the file, the processes, the shells and
\* the request hold no generation that is larger than the number of those that have.
CountedGenerations(n) ==
    /\ lease \in [owner : Procs \cup {None}, gen : 0 .. n]
    /\ gen \in [Procs -> 0 .. n]
    /\ stop \in [pending : BOOLEAN, gen : 0 .. n, for : Procs \cup {None}]
    /\ target \in [Clis -> [owner : Procs \cup {None}, gen : 0 .. n]]

OtherTypes ==
    /\ fresh \in BOOLEAN
    /\ pc \in [Procs -> Places]
    /\ served \subseteq Procs
    /\ late \in [Procs -> {"none", "renew", "release"}]
    /\ cli \in [Clis -> {"idle", "read", "killing", "waiting", "clearing"}]
    /\ stalls \in 0 .. MaxStalls
    /\ stops \in 0 .. MaxStops

TypeInv == OtherTypes /\ CountedGenerations(Cardinality(Beyond))

LEMMA BeyondIsCounted ==
    ASSUME IsFiniteSet(Procs), NEW S \in SUBSET Procs
    PROVE  IsFiniteSet(S) /\ Cardinality(S) \in Nat /\ Cardinality(S) <= Cardinality(Procs)
              /\ Cardinality(Procs) \in Nat
BY FS_Subset, FS_CardinalityType

LEMMA InitTypes == IsFiniteSet(Procs) /\ Init => TypeInv
<1> SUFFICES ASSUME IsFiniteSet(Procs), Init PROVE TypeInv
    OBVIOUS
<1>1. Beyond = {} /\ Cardinality(Beyond) = 0
    BY FS_EmptySet DEF Init, Beyond
<1>2. CountedGenerations(0)
    BY DEF Init, CountedGenerations, Forgotten, Cleared, AnyGeneration
<1>3. OtherTypes
  <2>1. fresh \in BOOLEAN
      BY DEF Init
  <2>2. stalls \in 0 .. MaxStalls /\ stops \in 0 .. MaxStops
      BY SupervisorLeaseAssumption DEF Init
  <2> QED
      BY <2>1, <2>2 DEF Init, OtherTypes, Places
<1> QED
    BY <1>1, <1>2, <1>3 DEF TypeInv

\* What only takes over generations that are known stays within their number.
LEMMA GenerationsGrow ==
    ASSUME NEW n \in Nat, NEW m \in Nat, n <= m, CountedGenerations(n)
    PROVE  CountedGenerations(m)
<1>1. 0 .. n \subseteq 0 .. m
    OBVIOUS
<1> QED
    BY <1>1 DEF CountedGenerations

LEMMA StallIsCounted == stalls \in 0 .. MaxStalls /\ (Stall \/ UNCHANGED stalls) => stalls' \in 0 .. MaxStalls
BY SupervisorLeaseAssumption DEF Stall

LEMMA BeyondGrows ==
    ASSUME IsFiniteSet(Procs), OtherTypes, [Next]_vars
    PROVE  /\ Beyond \subseteq Beyond'
           /\ OtherTypes'
<1> USE SupervisorLeaseAssumption
    DEF OtherTypes, Beyond, Goto, Alive, files, shells, Places, Acquiring, AfterRelease
<1>1. ASSUME NEW p \in Procs,
             Start(p) \/ Decide(p) \/ DropStop(p) \/ NextGeneration(p) \/ WriteCandidate(p)
      PROVE  Beyond \subseteq Beyond' /\ OtherTypes'
    BY <1>1 DEF Start, Decide, DropStop, NextGeneration, WriteCandidate, write_lease
<1>2. ASSUME NEW p \in Procs, Renew(p) \/ RenewFails(p) \/ SeeStop(p) \/ Exit(p)
      PROVE  Beyond \subseteq Beyond' /\ OtherTypes'
    BY <1>2 DEF Renew, RenewFails, SeeStop, Exit, write_lease
<1>3. ASSUME NEW p \in Procs, Confirm(p) \/ Delay(p)
      PROVE  Beyond \subseteq Beyond' /\ OtherTypes'
  <2>1. stalls' \in 0 .. MaxStalls
      BY <1>3, StallIsCounted DEF Confirm, Delay
  <2>2. UNCHANGED <<fresh, cli, stops>>
      BY <1>3 DEF Confirm, Delay
  <2>3. /\ pc' \in [Procs -> Places]
        /\ late' \in [Procs -> {"none", "renew", "release"}]
        /\ served' \subseteq Procs
        /\ Beyond \subseteq Beyond'
      BY <1>3 DEF Confirm, Settle, Delay
  <2> QED
      BY <2>1, <2>2, <2>3
<1>9. ASSUME NEW p \in Procs, WriteLate(p) \/ Crash(p)
      PROVE  Beyond \subseteq Beyond' /\ OtherTypes'
    BY <1>9 DEF WriteLate, Crash, write_lease
<1>4. ASSUME NEW c \in Clis, ReadTarget(c) \/ RequestStop(c)
      PROVE  Beyond \subseteq Beyond' /\ OtherTypes'
    BY <1>4 DEF ReadTarget, RequestStop
<1>10. ASSUME NEW c \in Clis, FinishLocalStop(c)
      PROVE  Beyond \subseteq Beyond' /\ OtherTypes'
    BY <1>10 DEF FinishLocalStop, Return
<1>5. ASSUME NEW c \in Clis, SeeReleased(c) \/ FinishRemoteStop(c) \/ GiveUp(c)
      PROVE  Beyond \subseteq Beyond' /\ OtherTypes'
    BY <1>5 DEF SeeReleased, FinishRemoteStop, GiveUp, Return
<1>6. ASSUME NEW c \in Clis, SignalOwner(c)
      PROVE  Beyond \subseteq Beyond' /\ OtherTypes'
    BY <1>6 DEF SignalOwner
<1>7. CASE Expire
  <2>1. stalls' \in 0 .. MaxStalls
      BY <1>7, StallIsCounted DEF Expire
  <2> QED
      BY <1>7, <2>1 DEF Expire
<1>8. CASE UNCHANGED vars
    BY <1>8 DEF vars
<1> QED
    BY <1>1, <1>2, <1>3, <1>4, <1>5, <1>6, <1>7, <1>8, <1>9, <1>10
    DEF Next, Supervisor, Acquire, Shell

\* A step that takes no number hands no generation out.
LEMMA GenerationsStay ==
    ASSUME NEW n \in Nat, CountedGenerations(n), OtherTypes, [Next]_vars,
           \A p \in Procs : ~ NextGeneration(p)
    PROVE  CountedGenerations(n)'
<1> USE SupervisorLeaseAssumption DEF CountedGenerations, files, shells
<1>1. Forgotten \in [owner : Procs \cup {None}, gen : 0 .. n]
    BY DEF Forgotten
<1>2. Cleared \in [pending : BOOLEAN, gen : 0 .. n, for : Procs \cup {None}]
    BY DEF Cleared, AnyGeneration
<1>3. ASSUME NEW p \in Procs,
             \/ Start(p) \/ Decide(p) \/ DropStop(p) \/ Confirm(p) \/ RenewFails(p) \/ SeeStop(p)
             \/ Delay(p) \/ Crash(p)
      PROVE  CountedGenerations(n)'
    BY <1>2, <1>3 DEF Start, Decide, DropStop, Confirm, RenewFails, SeeStop, Delay, Crash
<1>4. ASSUME NEW p \in Procs, WriteCandidate(p) \/ Renew(p) \/ WriteLate(p)
      PROVE  CountedGenerations(n)'
    BY <1>4 DEF WriteCandidate, Renew, WriteLate, write_lease
<1>5. ASSUME NEW p \in Procs, Exit(p)
      PROVE  CountedGenerations(n)'
    BY <1>1, <1>2, <1>5 DEF Exit, release_lease, clear_stop_request
<1>6. ASSUME NEW c \in Clis, ReadTarget(c)
      PROVE  CountedGenerations(n)'
    BY <1>1, <1>6 DEF ReadTarget
<1>7. ASSUME NEW c \in Clis, RequestStop(c)
      PROVE  CountedGenerations(n)'
    BY <1>7 DEF RequestStop
<1>8. ASSUME NEW c \in Clis, FinishLocalStop(c) \/ FinishRemoteStop(c)
      PROVE  CountedGenerations(n)'
    BY <1>1, <1>2, <1>8 DEF FinishLocalStop, FinishRemoteStop, Return, release_lease, clear_stop_request
<1>9. ASSUME NEW c \in Clis, SignalOwner(c) \/ SeeReleased(c) \/ GiveUp(c)
      PROVE  CountedGenerations(n)'
    BY <1>1, <1>9 DEF SignalOwner, SeeReleased, GiveUp, Return
<1>10. CASE Expire \/ UNCHANGED vars
    BY <1>10 DEF Expire, vars
<1> QED
    BY <1>3, <1>4, <1>5, <1>6, <1>7, <1>8, <1>9, <1>10 DEF Next, Supervisor, Acquire, Shell

\* The process that takes a number has taken none before.
LEMMA NumberTypes ==
    ASSUME IsFiniteSet(Procs), TypeInv, NEW p \in Procs, NextGeneration(p), OtherTypes'
    PROVE  TypeInv'
<1> PICK n : n = Cardinality(Beyond)
    OBVIOUS
<1>1. n \in Nat /\ IsFiniteSet(Beyond)
    BY BeyondIsCounted DEF Beyond
<1>2. Beyond' = Beyond \cup {p} /\ p \notin Beyond
    BY DEF NextGeneration, Goto, Beyond, TypeInv, OtherTypes
<1>3. Cardinality(Beyond') = n + 1
    BY <1>1, <1>2, FS_AddElement
<1>4. CountedGenerations(n + 1)
    BY <1>1, GenerationsGrow DEF TypeInv
<1>5. lease.gen \in 0 .. n
    BY DEF TypeInv, CountedGenerations
<1>6. CountedGenerations(n + 1)'
  <2>1. gen' = [gen EXCEPT ![p] = lease.gen + 1] /\ UNCHANGED <<lease, stop, target>>
      BY DEF NextGeneration, next_generation, files, shells
  <2>2. gen' \in [Procs -> 0 .. n + 1]
      BY <1>1, <1>4, <1>5, <2>1 DEF CountedGenerations
  <2> QED
      BY <1>4, <2>1, <2>2 DEF CountedGenerations
<1> QED
    BY <1>3, <1>6 DEF TypeInv

LEMMA NextTypes == IsFiniteSet(Procs) /\ TypeInv /\ [Next]_vars => TypeInv'
<1> SUFFICES ASSUME IsFiniteSet(Procs), TypeInv, [Next]_vars PROVE TypeInv'
    OBVIOUS
<1>1. Beyond \subseteq Beyond' /\ OtherTypes'
    BY BeyondGrows DEF TypeInv
<1>2. CASE \E p \in Procs : NextGeneration(p)
    BY <1>1, <1>2, NumberTypes
<1>3. CASE \A p \in Procs : ~ NextGeneration(p)
  <2>1. IsFiniteSet(Beyond') /\ Cardinality(Beyond) \in Nat /\ Cardinality(Beyond') \in Nat
      BY BeyondIsCounted DEF Beyond
  <2>2. Cardinality(Beyond) <= Cardinality(Beyond')
      BY <1>1, <2>1, FS_Subset
  <2>3. PICK n, m : n = Cardinality(Beyond) /\ m = Cardinality(Beyond')
      OBVIOUS
  <2>4. CountedGenerations(n)'
      BY <1>3, <2>1, <2>3, GenerationsStay DEF TypeInv
  <2>5. CountedGenerations(m)'
    <3>1. 0 .. n \subseteq 0 .. m
        BY <2>1, <2>2, <2>3
    <3> QED
        BY <2>4, <3>1 DEF CountedGenerations
  <2> QED
      BY <1>1, <2>3, <2>5 DEF TypeInv
<1> QED
    BY <1>2, <1>3

\* Every state is well typed, and no generation is larger than the number of processes:
\* for any number of shells, faults and stalls a process takes one generation at most.
THEOREM TypeCorrect == ASSUME IsFiniteSet(Procs) PROVE Spec => []TypeOK
<1>1. TypeInv => TypeOK
  <2> SUFFICES ASSUME TypeInv PROVE TypeOK
      OBVIOUS
  <2>1. Cardinality(Beyond) \in Nat /\ Cardinality(Procs) \in Nat /\ Cardinality(Beyond) <= Cardinality(Procs)
      BY BeyondIsCounted DEF Beyond
  <2>2. CountedGenerations(Cardinality(Procs))
      BY <2>1, GenerationsGrow DEF TypeInv
  <2> QED
      BY <2>2 DEF TypeInv, OtherTypes, CountedGenerations, TypeOK, Leases, Generations
<1>2. Init => TypeInv
    BY InitTypes
<1>3. TypeInv /\ [Next]_vars => TypeInv'
    BY NextTypes
<1> QED
    BY <1>1, <1>2, <1>3, PTL DEF Spec
=============================================================================
