SPECIFICATION FairSpec
CHECK_DEADLOCK FALSE
CONSTANTS
    k1 = k1
    k2 = k2
    Keys = {k1, k2}
    External = {k1}
    MaxWorkers = 1
    Faults = {"error", "raise", "restart"}
    MaxFaults = 1
    MaxCommands = 2
    MaxChanges = 1
INVARIANTS
    FullScanIsCurrent
PROPERTIES
    OpenRowIsDecided
