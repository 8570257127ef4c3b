SPECIFICATION SuiteSpec
CONSTANTS
    retry = retry
    c1 = c1
    c2 = c2
    None = None
    Call = {c1, c2}
    Retrying = {retry}
    Offered = {"offline"}
    Reads = FALSE
    Stragglers = FALSE
    WindowCanClose = FALSE
    MaxKeys = 3
    Request = {"r1", "r2"}
    Session = {"s1", "s2"}
    MaxStartFaults = 3
    MaxEpochs = 2
    MaxMishaps = 2
SYMMETRY CallSymmetry
INVARIANTS
    ServedInTime
    SignOutIsTrue
    StartsAreTold
    AlwaysAWayOut
    PhotosPostOnce
PROPERTIES
    RevocationIsFinal
CHECK_DEADLOCK FALSE
