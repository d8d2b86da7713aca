SPECIFICATION Spec
CONSTANTS
    Screens = {display, serial}
    Layouts = {{d1}, {d2}}
    MaxEnroll = 0
    Batch = batch
    Disks = {d1, d2}
    None = None
    MaxFaults = 1
SYMMETRY Symmetry
CHECK_DEADLOCK FALSE
INVARIANTS ErasesSafely
PROPERTIES OperationKept
