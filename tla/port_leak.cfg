\* The exit of a stream is cancelled before it asks for the lock.
SPECIFICATION Spec
CONSTANTS
    t1 = t1
    t2 = t2
    t3 = t3
    s1 = s1
    s2 = s2
    idA = idA
    idB = idB
    idC = idC
    At = At
    Task <- Tasks
    Session <- Sessions
    UnitId <- PairIds
    HomeId <- Home
    Baud = {19200}
    HomeBaud = 19200
    Cancellable = {"leave"}
    Faults = FALSE
INVARIANT
    LatchReleased
