---------------------------- MODULE MCLocalLaunch -----------------------------
(****************************************************************************)
(* Small instances of LocalLaunch: up to three launches of one stage.        *)
(****************************************************************************)
EXTENDS LocalLaunch
=============================================================================
