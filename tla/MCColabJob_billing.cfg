SPECIFICATION FairSpec
CHECK_DEADLOCK FALSE
CONSTANTS
    FailLimit = 2
    Faults = {"unknown", "raise", "kill", "slow", "unstopped", "download", "supkill", "hang", "upload", "proxy", "lost", "unregistered", "pruned"}
    Commands = {"stop", "force", "recover"}
    Beginnings = {"fresh", "resume"}
    MaxFaults = 1
    MaxCommands = 1
INVARIANTS
    HealthyIsKept
    ArtifactsBeforeRelease
PROPERTIES
    RuntimeIsReleased
