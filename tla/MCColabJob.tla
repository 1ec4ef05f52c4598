----------------------------- MODULE MCColabJob -------------------------------
(****************************************************************************)
(* Small instances of ColabJob: a fresh or resumed submit of one job.        *)
(****************************************************************************)
EXTENDS ColabJob
=============================================================================
