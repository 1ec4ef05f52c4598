SPECIFICATION FairSpec
CHECK_DEADLOCK FALSE
CONSTANTS
    w1 = w1
    w2 = w2
    Producers = {w1, w2}
    SelfDescribing = {w1}
    MaxRecords = 2
    Faults = {"crash", "store", "read", "unlink", "delay", "norecord", "clear"}
    MaxFaults = 2
INVARIANTS
    LossHasCause
PROPERTIES
    LossIsLocal
    EverythingIndexed
