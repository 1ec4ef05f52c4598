SPECIFICATION FairSpec
CHECK_DEADLOCK FALSE
CONSTANTS
    Stages <- PairStages
    Deps <- PairDeps
    EffectiveDeps <- PairDeps
    NarrowActive <- NoSelections
    NarrowUpstream <- NoNarrow
    Targets = {"t1", "t2"}
    PoolOf <- OnePool
    Capacity <- OneEach
    CondorStages = {"diff"}
    PreflightStages = {}
    PreSkipped = {}
    SkipVerify = TRUE
    MaxAttempts = 1
    MaxEvictions = 2
    MaxScans = 1
    RunSetups <- PairSetups
    Commands = {"cancel", "force_rerun", "retry_alone"}
    Faults = {"launch", "lost", "stale", "unseen", "evict"}
    RerunSelections <- PairReruns
    MaxInterventions = 1
INVARIANTS
    PoolWithinCapacity
PROPERTIES
    SuccessIsKept
