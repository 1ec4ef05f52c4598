SPECIFICATION FairSpec
CHECK_DEADLOCK FALSE
CONSTANTS
    p1 = p1
    p2 = p2
    p3 = p3
    near = near
    far = far
    None = None
    Procs = {p1, p2, p3}
    Clis = {far}
    HostOf <- TwoHosts
    Faults = {"crash", "unwritable"}
    MaxStalls = 1
    MaxStops = 1
PROPERTIES
    StrayOwnersLeave
    StopIsObeyed
