SPECIFICATION RecordsSpec
CONSTANTS
    r1 = r1
    r2 = r2
    d1 = d1
    d2 = d2
    NoClaim = NoClaim
    Channels = {"push", "email"}
    Dispatchers = {d1, d2}
    Rows = {r1}
    MaxAttempts = 3
    Lease = 2
    Backoff = 1
    PollLimit = 1
    HoldersBeatLease = FALSE
    MaxTime = 7
    MaxFaults = 2
    Writer = {"command", "admin", "records"}
    Style <- Styled
    Verifier = {"verifier"}
    PageSize = 1
    MaxDamage = 1
    MaxAuditFaults = 1
INVARIANTS
    SingleHolder
    OneBatchPerChannel
    RetryBudget
    AuditedAsHappened
PROPERTIES
    SettledIsFinal
    KeepsHandoffPromise
    ValidWhenSaid
CHECK_DEADLOCK FALSE
