SPECIFICATION FairSpec
CONSTANTS
    NoClaim = NoClaim
    NoWorker = NoWorker
    None = None
PROPERTIES
    RetainedIsSettled
    EmailsConclude
    RosterCatchesUp
CHECK_DEADLOCK FALSE
