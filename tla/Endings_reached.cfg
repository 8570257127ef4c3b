SPECIFICATION FairSpec
CONSTANTS
    NoWorker = NoWorker
    None = None
PROPERTIES
    MessagesConclude
    NoLimbo
    EveryRequestAnswered
CHECK_DEADLOCK FALSE
