SPECIFICATION ReplicationSpec
CONSTANTS
    Nodes = {n1}
    n1 = n1
    MaxAttempts = 2
    MaxHistory = 1
    MaxPoints = 1
    MaxRequests = 2
    MaxFaults = 1
    MaxOrphans = 2
CHECK_DEADLOCK FALSE
INVARIANTS ProtectionSound CleanedIsReleased
PROPERTIES RecoveryPointForward 
