----------------------------- MODULE PipelineDag -----------------------------
(****************************************************************************)
(* The stage DAG of a pipeline run and the questions the scheduler asks of  *)
(* it (common/orchestration/spec.py).  The module has no state: StageRuns   *)
(* takes its operators.                                                     *)
(*                                                                          *)
(* The code keeps two dependency maps.  `Deps` is StageSpec.deps, the fixed *)
(* map that closures, blocking and retries walk; `EffectiveDeps` is what    *)
(* StageSpec.effective_deps makes of it for one configuration (a stage that *)
(* streams its input, or has no field geometry, waits for less), and is the *)
(* only map that promotion and launch consult.                              *)
(****************************************************************************)
EXTENDS Naturals, FiniteSets

CONSTANTS
    Stages,          \* StageSpec.name of every stage
    Deps,            \* stage -> the stages it lists as deps
    EffectiveDeps,   \* stage -> its deps under this run's configuration
    NarrowActive,    \* selections whose verify closure is not the run closure
    NarrowUpstream   \* selection of NarrowActive -> what it verifies upstream

ASSUME StagesAssumption ==
    /\ IsFiniteSet(Stages)
    /\ Deps \in [Stages -> SUBSET Stages]
    /\ EffectiveDeps \in [Stages -> SUBSET Stages]
    /\ NarrowActive \subseteq SUBSET Stages
    /\ NarrowUpstream \in [NarrowActive -> SUBSET Stages]

(****************************************************************************)
(* Direct edges                                                             *)
(****************************************************************************)
direct_dependents == [s \in Stages |-> {t \in Stages : s \in Deps[t]}]

UpstreamOf(S) == UNION {Deps[s] : s \in S}

DownstreamOf(S) == {t \in Stages : Deps[t] \cap S # {}}

(****************************************************************************)
(* Transitive closures, as least sets: a stage is downstream of s when it   *)
(* lies in every set that holds the dependents of s and of its own members. *)
(****************************************************************************)
downstream_stages ==
    [s \in Stages |->
        {t \in Stages :
            \A S \in SUBSET Stages : DownstreamOf(S \cup {s}) \subseteq S => t \in S}]

\* A configuration drops dependencies, or waits for an earlier stage instead (a
\* streaming ps1_process waits for mapping and not for ps1_download).
ASSUME EffectiveDepsAssumption ==
    \A s \in Stages : \A d \in EffectiveDeps[s] : s \in downstream_stages[d]

\* Everything stage s transitively waits for.
Ancestors ==
    [s \in Stages |->
        {t \in Stages :
            \A S \in SUBSET Stages : UpstreamOf(S \cup {s}) \subseteq S => t \in S}]

upstream_stages_for(active) == UNION {Ancestors[s] : s \in active}

run_stage_closure(active) == active \cup upstream_stages_for(active)

\* Selections that only read a fixed upstream (a difference-imaging run reads
\* the FFIs and the downsampled templates, a star run reads nothing) verify
\* that upstream and not the whole chain behind it.
artifact_verify_closure(active) ==
    IF active \in NarrowActive
    THEN active \cup NarrowUpstream[active]
    ELSE run_stage_closure(active)

=============================================================================
