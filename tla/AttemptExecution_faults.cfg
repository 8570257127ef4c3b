SPECIFICATION Spec
CONSTANTS
    w1 = w1
    w2 = w2
    NoWorker = NoWorker
    Workers = {w1, w2}
    MaxAttempts = 2
    LedgerMayFail = TRUE
    MayResume = TRUE
    HoldersBeatLease = FALSE
    MaxFaults = 2
SYMMETRY WorkerSymmetry
INVARIANTS
    AtMostOneSend
    NoFalseAcceptance
PROPERTIES
    CompletionIsFinal
CHECK_DEADLOCK FALSE
