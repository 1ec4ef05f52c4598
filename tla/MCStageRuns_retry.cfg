SPECIFICATION Spec
CHECK_DEADLOCK FALSE
CONSTANTS
    Stages <- ChainStages
    Deps <- ChainDeps
    EffectiveDeps <- ChainDeps
    NarrowActive <- NoSelections
    NarrowUpstream <- NoNarrow
    Targets = {"t1"}
    PoolOf <- OwnPool
    Capacity <- OneEach
    CondorStages = {}
    PreflightStages = {}
    PreSkipped = {}
    SkipVerify = FALSE
    MaxAttempts = 2
    MaxEvictions = 3
    MaxScans = 1
    RunSetups <- AllSelected
    Commands = {"retry_stage"}
    Faults = {}
    RerunSelections <- NoSelections
    MaxInterventions = 1
INVARIANTS
    NoDuplicateWorker
