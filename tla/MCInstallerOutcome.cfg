SPECIFICATION Spec
CONSTANTS
    Screens = {display}
    Layouts = {{d1, d2}}
    MaxEnroll = 2
    Batch = batch
    Disks = {d1, d2}
    None = None
    MaxFaults = 1
CHECK_DEADLOCK FALSE
INVARIANTS InstallationWhole AccountUsable
PROPERTIES SessionEnds
