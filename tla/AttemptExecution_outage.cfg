SPECIFICATION Spec
CONSTANTS
    w1 = w1
    w2 = w2
    NoWorker = NoWorker
    Workers = {w1, w2}
    MaxAttempts = 2
    LedgerMayFail = TRUE
    MayResume = FALSE
    HoldersBeatLease = FALSE
    MaxFaults = 2
INVARIANTS
    OneEmailPerRecipient
CHECK_DEADLOCK FALSE
