SPECIFICATION Spec
CONSTANTS
    r1 = r1
    r2 = r2
    r3 = r3
    Requests = {r1, r2}
    Kinds <- AllKinds
    Exclusive = FALSE
    StopIdle = TRUE
    HasPorts = TRUE
    ChanCap = 1
    MaxVersion = 6
    MaxCrashes = 1
    MaxFaults = 1
    Faults <- AllFaults
SYMMETRY Clients
CHECK_DEADLOCK FALSE
PROPERTIES DispatchOnce FinalOperationsStay
