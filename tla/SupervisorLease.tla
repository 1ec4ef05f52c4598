--------------------------- MODULE SupervisorLease ----------------------------
(****************************************************************************)
(* The supervisor's ownership lease and the stop requests of the CLI        *)
(* (lease.py, scheduler.py run_supervisor_daemon, scheduler_control.py).    *)
(*                                                                          *)
(* The lease is a file without locks: acquiring it is a read, a write, a    *)
(* settle sleep and a second read; renewing and releasing it are a read and *)
(* a write.  The protocol leans on time: the settle sleep outlasts another  *)
(* process's read and write, and a lease that is renewed stays fresh.  A    *)
(* stall is one failure of that: a process that sleeps through either.      *)
(* Every process is one incarnation, with its own pid.                      *)
(****************************************************************************)
EXTENDS Naturals, FiniteSets

CONSTANTS
    Procs,       \* supervisor processes
    Clis,        \* shells that run "syndiff daemon stop"
    HostOf,      \* the host of each process and each shell
    None,        \* the owner of a released lease
    Faults,      \* crash, unwritable
    MaxStalls,   \* bound on stalls
    MaxStops     \* bound on stop requests

ASSUME SupervisorLeaseAssumption ==
    /\ None \notin Procs
    /\ Procs \cap Clis = {}
    /\ MaxStalls \in Nat
    /\ MaxStops \in Nat

\* No generation in a stop request: it is for whoever owns the workspace.
AnyGeneration == 0

VARIABLES
    lease,    \* daemon.lease: its owner and generation, or a released marker
    fresh,    \* the lease was renewed within DEFAULT_LEASE_STALE_S
    stop,     \* daemon.stop: pending, the generation it names, whom it was for
    pc,       \* where each process is
    gen,      \* the generation each process wrote and holds
    late,     \* a write a process decided on and has not made yet
    cli,      \* how far each shell is in stop_daemon
    target,   \* the lease each shell read
    stalls,   \* stalls so far
    stops,    \* stop requests so far
    served    \* history: the supervisors there have been since the file last forgot
              \* its generation

files == <<lease, fresh, stop>>
shells == <<cli, target, stops>>
vars == <<files, pc, gen, late, shells, stalls, served>>

\* Released without its generation: the next lease starts over.
Forgotten == [owner |-> None, gen |-> 0]
Cleared == [pending |-> FALSE, gen |-> AnyGeneration, for |-> None]

Generations == 0 .. Cardinality(Procs)
Leases == [owner : Procs \cup {None}, gen : Generations]

\* Between the first read and the write of the candidate.
Acquiring == {"willing", "cleared", "numbered"}
Places == Acquiring \cup {"off", "starting", "settling", "owner", "stopping", "gone"}

TypeOK ==
    /\ lease \in Leases
    /\ fresh \in BOOLEAN
    /\ stop \in [pending : BOOLEAN, gen : Generations, for : Procs \cup {None}]
    /\ pc \in [Procs -> Places]
    /\ gen \in [Procs -> Generations]
    /\ late \in [Procs -> {"none", "renew", "release"}]
    /\ cli \in [Clis -> {"idle", "read", "killing", "waiting", "clearing"}]
    /\ target \in [Clis -> Leases]
    /\ stalls \in 0 .. MaxStalls
    /\ stops \in 0 .. MaxStops
    /\ served \subseteq Procs

Init ==
    /\ lease = Forgotten
    /\ fresh = FALSE
    /\ stop = Cleared
    /\ pc = [p \in Procs |-> "off"]
    /\ gen = [p \in Procs |-> 0]
    /\ late = [p \in Procs |-> "none"]
    /\ cli = [c \in Clis |-> "idle"]
    /\ target = [c \in Clis |-> Forgotten]
    /\ stalls = 0
    /\ stops = 0
    /\ served = {}

Goto(p, label) == pc' = [pc EXCEPT ![p] = label]

\* One more sleep that outlasts the protocol's time limits.
Stall == stalls < MaxStalls /\ stalls' = stalls + 1

Alive(p) == pc[p] \notin {"off", "gone"}

matches(p) == lease.owner = p /\ lease.gen = gen[p]

\* _local_owner_pid_dead, asked on host h
local_owner_pid_dead(h) ==
    lease.owner # None /\ HostOf[lease.owner] = h /\ ~ Alive(lease.owner)

lease_is_reclaimable(h) == lease.owner = None \/ local_owner_pid_dead(h) \/ ~ fresh

\* Mutant: a released marker is not asked for its generation.
next_generation_anew == IF lease.owner = None THEN 1 ELSE lease.gen + 1

next_generation == lease.gen + 1

write_lease(p) ==
    /\ lease' = [owner |-> p, gen |-> gen'[p]]
    /\ fresh' = TRUE

\* What release_lease leaves of the lease.
release_lease(p, g) ==
    IF lease.owner = None THEN Forgotten
    ELSE IF lease.owner = p /\ lease.gen = g THEN [owner |-> None, gen |-> g]
    ELSE lease

\* With the lease written so: a marker is not fresh, and one without a generation lets
\* a later supervisor have one that was used before.
AfterRelease ==
    /\ fresh' = IF lease'.owner = None THEN FALSE ELSE fresh
    /\ served' = IF lease' = Forgotten THEN {} ELSE served

clear_stop_request(only_generation) ==
    IF only_generation = AnyGeneration \/ stop.gen \in {AnyGeneration, only_generation}
    THEN Cleared
    ELSE stop

\* Mutant: a request with a generation is for somebody else.
stop_targets_owner_any(p) == stop.pending /\ stop.gen = AnyGeneration

stop_targets_owner(p) == stop.pending /\ stop.gen \in {AnyGeneration, gen[p]}

(****************************************************************************)
(* Acquiring                                                                *)
(****************************************************************************)
Start(p) ==
    /\ pc[p] = "off"
    /\ Goto(p, "starting")
    /\ UNCHANGED <<files, gen, late, shells, stalls, served>>

\* The first read: a fresh lease of a live owner sends the process home.
Decide(p) ==
    /\ pc[p] = "starting"
    /\ Goto(p, IF lease_is_reclaimable(HostOf[p]) THEN "willing" ELSE "gone")
    /\ UNCHANGED <<files, gen, late, shells, stalls, served>>

\* A process that goes on drops whatever stop request there is,
DropStop(p) ==
    /\ pc[p] = "willing"
    /\ stop' = Cleared
    /\ Goto(p, "cleared")
    /\ UNCHANGED <<lease, fresh, gen, late, shells, stalls, served>>

\* reads the lease again for the generation of its candidate,
NextGeneration(p) ==
    /\ pc[p] = "cleared"
    /\ gen' = [gen EXCEPT ![p] = next_generation]
    /\ Goto(p, "numbered")
    /\ UNCHANGED <<files, late, shells, stalls, served>>

\* and writes it.  Another process may have been given the same generation.
WriteCandidate(p) ==
    /\ pc[p] = "numbered"
    /\ gen' = gen
    /\ write_lease(p)
    /\ Goto(p, "settling")
    /\ UNCHANGED <<stop, late, shells, stalls, served>>

\* What becomes of a process that is named after all, or is not.
Settle(p, named) ==
    /\ Goto(p, IF named THEN "owner" ELSE "gone")
    /\ served' = IF named THEN served \cup {p} ELSE served

\* Mutant: no settle sleep, no second read.
Confirm_at_once(p) ==
    /\ pc[p] = "settling"
    /\ Settle(p, TRUE)
    /\ UNCHANGED <<files, gen, late, shells, stalls>>

\* The second read comes after the settle sleep: whoever decided on an older
\* lease has written by then, and whoever is about to clear it has cleared it.
Confirm(p) ==
    /\ pc[p] = "settling"
    /\ IF (\E q \in Procs : pc[q] \in Acquiring) \/ (\E c \in Clis : cli[c] = "clearing")
       THEN Stall ELSE UNCHANGED stalls
    /\ Settle(p, matches(p))
    /\ UNCHANGED <<files, gen, late, shells>>

(****************************************************************************)
(* The heartbeat thread                                                     *)
(****************************************************************************)
\* Mutant: a process that lost the lease writes it again.
Renew_takes_back(p) ==
    /\ pc[p] = "owner"
    /\ late[p] = "none"
    /\ gen' = gen
    /\ write_lease(p)
    /\ UNCHANGED <<stop, pc, late, shells, stalls, served>>

Renew(p) ==
    /\ pc[p] = "owner"
    /\ late[p] = "none"
    /\ gen' = gen
    /\ IF matches(p)
       THEN write_lease(p) /\ UNCHANGED pc
       ELSE Goto(p, "stopping") /\ UNCHANGED <<lease, fresh>>
    /\ UNCHANGED <<stop, late, shells, stalls, served>>

\* The write raises: tolerated until the lease has been stale for that long.
RenewFails(p) ==
    /\ "unwritable" \in Faults
    /\ pc[p] = "owner"
    /\ matches(p)
    /\ ~ fresh
    /\ Goto(p, "stopping")
    /\ UNCHANGED <<files, gen, late, shells, stalls, served>>

\* Mutant: the thread stops at any request.
SeeStop_any(p) ==
    /\ pc[p] = "owner"
    /\ stop.pending
    /\ Goto(p, "stopping")
    /\ UNCHANGED <<files, gen, late, shells, stalls, served>>

SeeStop(p) ==
    /\ pc[p] = "owner"
    /\ stop_targets_owner(p)
    /\ Goto(p, "stopping")
    /\ UNCHANGED <<files, gen, late, shells, stalls, served>>

\* The end of run_supervisor_daemon: what is left of the tick is over.
Exit(p) ==
    /\ pc[p] = "stopping"
    /\ late[p] = "none"
    /\ stop' = clear_stop_request(gen[p])
    /\ lease' = release_lease(p, gen[p])
    /\ Goto(p, "gone")
    /\ AfterRelease
    /\ UNCHANGED <<gen, late, shells, stalls>>

\* A process that sleeps between the read and the write of a renewal or release.
Delay(p) ==
    /\ late[p] = "none"
    /\ matches(p)
    /\ \/ pc[p] = "owner" /\ late' = [late EXCEPT ![p] = "renew"]
       \/ pc[p] = "stopping" /\ late' = [late EXCEPT ![p] = "release"]
    /\ Stall
    /\ UNCHANGED <<files, pc, gen, shells, served>>

WriteLate(p) ==
    /\ late[p] # "none"
    /\ late' = [late EXCEPT ![p] = "none"]
    /\ gen' = gen
    /\ \/ late[p] = "renew" /\ write_lease(p) /\ UNCHANGED <<pc, served>>
       \/ /\ late[p] = "release"
          /\ lease' = [owner |-> None, gen |-> gen[p]]
          /\ Goto(p, "gone")
          /\ AfterRelease
    /\ UNCHANGED <<stop, shells, stalls>>

(****************************************************************************)
(* syndiff daemon stop                                                      *)
(****************************************************************************)
Return(c) ==
    /\ cli' = [cli EXCEPT ![c] = "idle"]
    /\ target' = [target EXCEPT ![c] = Forgotten]

\* The shell may signal the owner it read: it lives on the same host.
LocalOwner(c) ==
    target[c].owner # None /\ HostOf[target[c].owner] = HostOf[c] /\ Alive(target[c].owner)

ReadTarget(c) ==
    /\ cli[c] = "idle"
    /\ stops < MaxStops
    /\ stops' = stops + 1
    /\ target' = [target EXCEPT ![c] = IF lease.owner = None THEN Forgotten ELSE lease]
    /\ cli' = [cli EXCEPT ![c] = "read"]
    /\ UNCHANGED <<files, pc, gen, late, stalls, served>>

\* The request names a generation only when the shell read an owner.
RequestStop(c) ==
    /\ cli[c] = "read"
    /\ stop' = [pending |-> TRUE, for |-> target[c].owner, gen |-> target[c].gen]
    /\ cli' = [cli EXCEPT ![c] = IF LocalOwner(c) THEN "killing" ELSE "waiting"]
    /\ UNCHANGED <<lease, fresh, pc, gen, late, target, stops, stalls, served>>

\* SIGTERM, and SIGKILL once the timeout is over.
SignalOwner(c) ==
    /\ cli[c] = "killing"
    /\ \/ pc[target[c].owner] = "owner" /\ Goto(target[c].owner, "stopping")
       \/ pc[target[c].owner] \in {"settling", "stopping"} /\ Goto(target[c].owner, "gone")
    /\ late' = [late EXCEPT ![target[c].owner] =
                   IF pc'[target[c].owner] = "gone" THEN "none" ELSE @]
    /\ UNCHANGED <<files, gen, shells, stalls, served>>

\* The owner on this host has died: its lease is released once more.
FinishLocalStop(c) ==
    /\ cli[c] = "killing"
    /\ ~ Alive(target[c].owner)
    /\ lease' = release_lease(target[c].owner, target[c].gen)
    /\ stop' = clear_stop_request(target[c].gen)
    /\ Return(c)
    /\ AfterRelease
    /\ UNCHANGED <<pc, gen, late, stops, stalls>>

\* wait_until_lease_released
SeeReleased(c) ==
    /\ cli[c] = "waiting"
    /\ \/ lease_is_reclaimable(HostOf[c])
       \/ target[c].gen \notin {AnyGeneration, lease.gen}
    /\ cli' = [cli EXCEPT ![c] = "clearing"]
    /\ UNCHANGED <<files, pc, gen, late, target, stops, stalls, served>>

\* Mutant: the shell clears the lease it waited for without a second look.
FinishRemoteStop_blindly(c) ==
    /\ cli[c] = "clearing"
    /\ lease' = Forgotten
    /\ stop' = clear_stop_request(target[c].gen)
    /\ Return(c)
    /\ AfterRelease
    /\ UNCHANGED <<pc, gen, late, stops, stalls>>

\* A leftover lease that may be reclaimed is overwritten, generation and all.
FinishRemoteStop(c) ==
    /\ cli[c] = "clearing"
    /\ lease' = IF lease.owner # None /\ lease_is_reclaimable(HostOf[c]) THEN Forgotten ELSE lease
    /\ stop' = clear_stop_request(target[c].gen)
    /\ Return(c)
    /\ AfterRelease
    /\ UNCHANGED <<pc, gen, late, stops, stalls>>

\* The wait times out: the request stays.
GiveUp(c) ==
    /\ cli[c] = "waiting"
    /\ ~ lease_is_reclaimable(HostOf[c])
    /\ Return(c)
    /\ UNCHANGED <<files, pc, gen, late, stops, stalls, served>>

(****************************************************************************)
(* Time and crashes                                                         *)
(****************************************************************************)
\* Nobody renews the lease of a dead process.  That of a live one runs out only
\* under a stall; a file that cannot be written amounts to one.
Expire ==
    /\ lease.owner # None
    /\ fresh
    /\ fresh' = FALSE
    /\ IF Alive(lease.owner) THEN Stall ELSE UNCHANGED stalls
    /\ UNCHANGED <<lease, stop, pc, gen, late, shells, served>>

Crash(p) ==
    /\ "crash" \in Faults
    /\ Alive(p)
    /\ Goto(p, "gone")
    /\ late' = [late EXCEPT ![p] = "none"]
    /\ UNCHANGED <<files, gen, shells, stalls, served>>

Acquire(p) == DropStop(p) \/ NextGeneration(p) \/ WriteCandidate(p) \/ Confirm(p)

Supervisor(p) ==
    \/ Start(p) \/ Decide(p) \/ Acquire(p)
    \/ Renew(p) \/ RenewFails(p) \/ SeeStop(p) \/ Exit(p)
    \/ Delay(p) \/ WriteLate(p) \/ Crash(p)

Shell(c) ==
    \/ ReadTarget(c) \/ RequestStop(c) \/ SignalOwner(c) \/ FinishLocalStop(c)
    \/ SeeReleased(c) \/ FinishRemoteStop(c) \/ GiveUp(c)

Next ==
    \/ \E p \in Procs : Supervisor(p)
    \/ \E c \in Clis : Shell(c)
    \/ Expire

Spec == Init /\ [][Next]_vars

\* A process that acquires goes on, and so do the heartbeat thread and the shutdown of
\* a live one.
FairSpec ==
    /\ Spec
    /\ \A p \in Procs :
          /\ WF_vars(Acquire(p))
          /\ WF_vars(Renew(p))
          /\ WF_vars(SeeStop(p))
          /\ WF_vars(WriteLate(p) \/ Exit(p))
    /\ \A c \in Clis : WF_vars(FinishRemoteStop(c))

(****************************************************************************)
(* Properties                                                               *)
(****************************************************************************)
\* A supervisor schedules until its last tick is over.
Owners == {p \in Procs : pc[p] \in {"owner", "stopping"}}

\* As long as nothing stalls, a workspace has one supervisor at a time, through
\* races to acquire, crashes, takeovers and stops.
AtMostOneOwner == Cardinality(Owners) <= 1

\* Takeovers are fenced: a supervisor finds nobody at work and has a larger generation
\* than every one before it, back to the last time the file forgot its generation; and
\* the file never forgets it while somebody is at work.
Abstract == INSTANCE Ownership WITH owners <- Owners, granted <- {gen[p] : p \in served}
ImplementsOwnership == Abstract!Spec

\* While nothing stalls nobody overwrites the lease of a supervisor at work,
\* not even the leftover a remote stop clears.
OwnerIsNamed == \A p \in Procs : pc[p] = "owner" => matches(p)

\* A request that was meant for one supervisor never stops a later one, also when it
\* arrives after a restart and several shells stop, as long as nothing stalls and the
\* file has not forgotten its generation in between.  Only a supervisor's request: of
\* two processes that race to acquire, which may be given the same generation, the one
\* that wins does stop for a request that was meant for the other.
StopHitsItsTarget ==
    [][\A p \in Procs :
         stalls = 0 /\ pc[p] = "owner" /\ SeeStop(p) => stop.for \notin served \ {p}]_vars

\* A stall can give a workspace two supervisors, but not for long: the lease
\* file decides, and whoever it does not name leaves.
StrayOwnersLeave == ~ AtMostOneOwner ~> AtMostOneOwner

\* A stop request that was meant for a supervisor at work is obeyed, as long as
\* one shell at a time stops it and nothing stalls.
StopIsObeyed ==
    \A p \in Procs : pc[p] = "owner" /\ stop.pending /\ stop.for = p ~> pc[p] # "owner" \/ stalls > 0
=============================================================================
