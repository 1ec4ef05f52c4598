------------------------------ MODULE Ownership -------------------------------
(****************************************************************************)
(* What the supervisor lease promises: a workspace has one supervisor at a  *)
(* time; a new one takes over only when there is none, and under a larger   *)
(* generation than any before it, unless the generations start over, which  *)
(* they do only while nobody is at work.                                    *)
(****************************************************************************)
EXTENDS Naturals

CONSTANTS Procs

VARIABLES
    owners,  \* the supervisors at work
    granted  \* the generations given out since they last started over

Take(p) ==
    /\ owners = {}
    /\ owners' = {p}
    /\ \E g \in granted' :
          /\ granted' = granted \cup {g}
          /\ \A h \in granted : h < g

Leave == owners' = {} /\ UNCHANGED granted

StartOver == owners = {} /\ granted' = {} /\ UNCHANGED owners

Next == Leave \/ StartOver \/ \E p \in Procs : Take(p)

Spec == owners = {} /\ granted = {} /\ [][Next]_<<owners, granted>>
=============================================================================
