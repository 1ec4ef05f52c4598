SPECIFICATION Spec
CHECK_DEADLOCK FALSE
CONSTANTS
    Stages <- StreamStages
    Deps <- StreamDeps
    EffectiveDeps <- StreamEffectiveDeps
    NarrowActive <- DiffOnly
    NarrowUpstream <- DiffUpstream
    Targets = {"t1"}
    PoolOf <- OwnPool
    Capacity <- OneEach
    CondorStages = {"diff"}
    PreflightStages = {}
    PreSkipped = {"ps1_download"}
    SkipVerify = FALSE
    MaxAttempts = 2
    MaxEvictions = 3
    MaxScans = 1
    RunSetups <- StreamSetups
    Commands = {"cancel", "retry_run", "retry_stage", "restart"}
    Faults = {"lost","stale","unseen"}
    RerunSelections <- NoSelections
    MaxInterventions = 2
INVARIANTS
    RunningHasInputs
