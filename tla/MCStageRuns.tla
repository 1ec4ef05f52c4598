----------------------------- MODULE MCStageRuns -----------------------------
(****************************************************************************)
(* Small instances of StageRuns: a chain, a pair of stages for two targets, *)
(* and a diamond in the stream configuration of the template pipeline.      *)
(****************************************************************************)
EXTENDS StageRuns

OwnPool == [s \in Stages |-> s]
OnePool == [s \in Stages |-> "pool"]
OneEach == [p \in Pools |-> 1]

NoSelections == {}
NoNarrow == [a \in {} |-> {}]

(****************************************************************************)
(* mapping -> ps1_process -> downsample, all of it selected                 *)
(****************************************************************************)
ChainStages == {"mapping", "ps1_process", "downsample"}
ChainDeps ==
    [s \in ChainStages |->
        CASE s = "mapping" -> {}
          [] s = "ps1_process" -> {"mapping"}
          [] s = "downsample" -> {"ps1_process"}]

AllSelected == [active : {Stages}, force : {FALSE}, onDisk : {{}}]
AllSelectedSomeDone ==
    [active : {Stages}, force : {FALSE}, onDisk : {{}, Targets \X {"ps1_process"}}]

(****************************************************************************)
(* diff_prep -> diff, run with and without --force-rerun                    *)
(****************************************************************************)
PairStages == {"diff_prep", "diff"}
PairDeps == [s \in PairStages |-> IF s = "diff" THEN {"diff_prep"} ELSE {}]
PairSetups ==
    [active : {PairStages, {"diff"}}, force : BOOLEAN, onDisk : {Targets \X {"diff_prep"}}]
PairReruns == {PairStages, {"diff"}}

(****************************************************************************)
(* The stream configuration: ps1_download is skipped at creation and        *)
(* downsample does not wait for it.  A diff-only run looks at downsample    *)
(* alone; the parents of downsample are superseded once it is settled.      *)
(****************************************************************************)
StreamStages == {"mapping", "ps1_download", "remap", "downsample", "diff"}
StreamDeps ==
    [s \in StreamStages |->
        CASE s = "mapping" -> {}
          [] s \in {"ps1_download", "remap"} -> {"mapping"}
          [] s = "downsample" -> {"mapping", "ps1_download", "remap"}
          [] s = "diff" -> {"downsample"}]
StreamEffectiveDeps == [StreamDeps EXCEPT !["downsample"] = {"mapping", "remap"}]
DiffOnly == {{"diff"}}
DiffUpstream == [a \in DiffOnly |-> {"downsample"}]
StreamSetups ==
    [active : {{"diff"}, {"downsample", "diff"}}, force : {FALSE},
     onDisk : {Targets \X d : d \in SUBSET {"mapping", "remap", "downsample"}}]
=============================================================================
