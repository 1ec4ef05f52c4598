SPECIFICATION FairSpec
CHECK_DEADLOCK FALSE
CONSTANTS
    MaxAttempts = 2
    MaxEvictions = 3
    MissLimit = 3
    Faults = {"submit", "unparsed", "interrupt", "blind", "evict", "rm"}
    Commands = {"cancel", "kill", "retry"}
    MaxLaunches = 3
    MaxInterrupts = 1
    MaxCommands = 2
INVARIANTS
    SuccessIsEarned
    LiveIsRecorded
    LiveIsNamed
PROPERTIES
    LiveKeepsRunning
    RunningEnds
