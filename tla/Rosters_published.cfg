SPECIFICATION Spec
CONSTANTS
    ann = ann
    ben = ben
    cid = cid
    office = office
    club = club
    c1 = c1
    c2 = c2
    None = None
    Person = {ann, ben, cid}
    Subscriber = {ann}
    Source = {office, club}
    Manual = {club}
    Lists <- ListsThatOccur
    Call = {c1, c2}
    MinimumRemovals = 2
    RemainingPercent = 80
    Edits = {"refresh", "save", "consent", "device", "configuration"}
    MaxEdits = 2
    MaxCommands = 1
    MaxFaults = 1
INVARIANTS
    SavedMeansRead
PROPERTIES
    NeverGoesBack
    PublishesOnce
SYMMETRY Alike
CHECK_DEADLOCK FALSE
