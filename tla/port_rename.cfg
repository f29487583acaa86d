\* Renames to a vacant id, among streams, cancelled writes and cancelled exits.
SPECIFICATION Spec
CONSTANTS
    t1 = t1
    t2 = t2
    t3 = t3
    s1 = s1
    s2 = s2
    idA = idA
    idB = idB
    idC = idC
    At = At
    Task <- Tasks
    Session <- Sessions
    UnitId <- UnitIds
    HomeId <- Home
    Baud = {19200}
    HomeBaud = 19200
    Cancellable = {"wait", "write", "leave"}
    Faults = FALSE
INVARIANTS
    Addressed
    CachedIdTrue
PROPERTIES
    RenameVerified
