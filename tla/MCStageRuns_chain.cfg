SPECIFICATION FairSpec
CHECK_DEADLOCK FALSE
CONSTANTS
    Stages <- ChainStages
    Deps <- ChainDeps
    EffectiveDeps <- ChainDeps
    NarrowActive <- NoSelections
    NarrowUpstream <- NoNarrow
    Targets = {"t1"}
    PoolOf <- OwnPool
    Capacity <- OneEach
    CondorStages = {"ps1_process"}
    PreflightStages = {"ps1_process"}
    PreSkipped = {}
    SkipVerify = FALSE
    MaxAttempts = 2
    MaxEvictions = 3
    MaxScans = 1
    RunSetups <- AllSelectedSomeDone
    Commands = {"cancel", "pause", "resume", "retry_run", "force_launch", "restart"}
    Faults = {"launch", "lost", "evict"}
    RerunSelections <- NoSelections
    MaxInterventions = 3
INVARIANTS
    TypeOK
    AttemptsBounded
    NoDuplicateWorker
    OverIsQuiet
    SuccessIsOnDisk
    InputsOnDisk
PROPERTIES
    StallHasCulprit
    RunSettles
