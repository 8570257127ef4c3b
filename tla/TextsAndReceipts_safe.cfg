SPECIFICATION SuiteSpec
CONSTANTS
    w1 = w1
    w2 = w2
    NoWorker = NoWorker
    Workers = {w1, w2}
    MaxAttempts = 2
    Statuses = {"delivered"}
    Contexts = {TRUE, FALSE}
    HoldersBeatLease = FALSE
    MaxFaults = 1
    Devices = {"d1", "d2"}
    MaxSend = 2
    Ids = {"r1", "r2"}
    Pollers = {"p1", "p2"}
    ExpoAnswers = {"ok", "missing", "rate", "unregistered", "undeliverable"}
    MaxPollFaults = 1
SYMMETRY WorkerSymmetry
INVARIANTS
    OneTextAsReported
    
    ReceiptsSpeakForTheirOwn
PROPERTIES
    StagedIsFinal
CHECK_DEADLOCK FALSE
