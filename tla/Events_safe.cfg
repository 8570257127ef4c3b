SPECIFICATION SuiteSpec
CONSTANTS
    e1 = e1
    e2 = e2
    c1 = c1
    c2 = c2
    c3 = c3
    c4 = c4
    c5 = c5
    c6 = c6
    c7 = c7
    c8 = c8
    r1 = r1
    r2 = r2
    r3 = r3
    None = None
    Event = {e1, e2}
    Command = {c1, c2, c3, c4, c5, c6, c7, c8}
    Request = {r1, r2, r3}
    Kind <- CommandKinds
    Staff = FALSE
    Opening = {e1}
    MaxPreviews = 3
SYMMETRY RequestSymmetry
INVARIANTS
    StartedAsShown
    SameAudience
    PreviewedInItsState
PROPERTIES
    CommandsAreAtomic
CHECK_DEADLOCK FALSE
