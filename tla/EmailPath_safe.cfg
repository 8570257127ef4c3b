SPECIFICATION PathSpec
CONSTANTS
    w1 = w1
    w2 = w2
    NoWorker = NoWorker
    Workers = {w1, w2}
    MaxAttempts = 2
    LedgerMayFail = FALSE
    MayResume = FALSE
    HoldersBeatLease = FALSE
    MaxFaults = 2
    b1 = b1
    b2 = b2
    b3 = b3
    m1 = m1
    m2 = m2
    m3 = m3
    m4 = m4
    Message = {m1, m2, m3, m4}
    Batch = {b1, b2, b3}
    Carries <- CarriesTwice
    Unreadable = {b3}
    Invocation = {1, 2}
    BatchSize = 3
    MaxDeliveries = 2
    MaxRouterFaults = 2
    Pollers = {1, 2}
    N = 3
    PageSize = 2
    MayChange = TRUE
    FirstAnswers = {"sent", "retry", "refused"}
    MaxReceives = 2
    MaxPollerFaults = 2
    Offered <- OfferedFacts
SYMMETRY WorkerSymmetry
INVARIANTS
    OneEmailPerRecipient
    CopiesAccounted
    NobodyForgotten
    LegalChain
PROPERTIES
    TerminalIsFinal
CHECK_DEADLOCK FALSE
