SPECIFICATION FairSpec
CHECK_DEADLOCK FALSE
CONSTANTS
    MaxAttempts = 2
    Faults = {"spawn", "crash", "move", "die", "slow"}
    Commands = {"cancel", "retry"}
    MaxLaunches = 3
    MaxCrashes = 2
    MaxCommands = 2
INVARIANTS
    LiveIsNamed
    SuccessIsEarned
PROPERTIES
    RecordedIsKept
    RunningEnds
