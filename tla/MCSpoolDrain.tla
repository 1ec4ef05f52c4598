----------------------------- MODULE MCSpoolDrain -----------------------------
(****************************************************************************)
(* Small instances of SpoolDrain: one or two producers.                     *)
(****************************************************************************)
EXTENDS SpoolDrain

CONSTANTS w1, w2
=============================================================================
