---------------------------- MODULE MCVerifyQueue -----------------------------
(****************************************************************************)
(* Small instances of VerifyQueue: two rows that share one or two workers.  *)
(****************************************************************************)
EXTENDS VerifyQueue

CONSTANTS k1, k2
=============================================================================
