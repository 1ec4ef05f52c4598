---------------------------- MODULE MCStageLaunch -----------------------------
(****************************************************************************)
(* Small instances of StageLaunch: up to four launches of one stage.        *)
(****************************************************************************)
EXTENDS StageLaunch
=============================================================================
