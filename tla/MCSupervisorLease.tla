-------------------------- MODULE MCSupervisorLease ---------------------------
(****************************************************************************)
(* Small instances of SupervisorLease: three supervisor processes, two on   *)
(* the first host and one on the second, and shells on either host.         *)
(****************************************************************************)
EXTENDS SupervisorLease, TLC

CONSTANTS p1, p2, p3, near, far

TwoHosts == (p1 :> "a" @@ p2 :> "a" @@ p3 :> "b" @@ near :> "a" @@ far :> "b")
=============================================================================
