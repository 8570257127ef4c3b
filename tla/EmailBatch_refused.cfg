SPECIFICATION FairSpec
CONSTANTS
    p1 = p1
    p2 = p2
    Pollers = {p1, p2}
    N = 3
    PageSize = 2
    MaxReceives = 3
    Answers = {"sent", "retry", "refused"}
    MayChange = FALSE
    MaxFaults = 0
PROPERTIES
    EveryoneAttempted
CHECK_DEADLOCK FALSE
