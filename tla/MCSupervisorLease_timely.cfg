SPECIFICATION Spec
CHECK_DEADLOCK FALSE
CONSTANTS
    p1 = p1
    p2 = p2
    p3 = p3
    near = near
    far = far
    None = None
    Procs = {p1, p2, p3}
    Clis = {near, far}
    HostOf <- TwoHosts
    Faults = {"crash"}
    MaxStalls = 0
    MaxStops = 3
INVARIANTS
    AtMostOneOwner
    OwnerIsNamed
PROPERTIES
    ImplementsOwnership
    StopHitsItsTarget
