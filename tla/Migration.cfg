SPECIFICATION MCSpec
CONSTANTS
    Modes = {TRUE, FALSE}
    MayCancel = TRUE
    MaxRetries = 2
    MaxFaults = 3
    Disks = {"boot", "data"}
    BootDisk = "boot"
    MaxDelTries = 1
    MaxLiveFaults = 1
INVARIANTS
    OneRunning
    GuestKept
    VerdictTrue
PROPERTIES
    HandoffImplemented
    Settles
    TransferReturns
CHECK_DEADLOCK FALSE
