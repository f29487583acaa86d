\* Three tasks, two rates; cancellation at every unshielded await but one, failing writes.
SPECIFICATION Spec
SYMMETRY Alike
CONSTANTS
    t1 = t1
    t2 = t2
    t3 = t3
    s1 = s1
    s2 = s2
    idA = idA
    idB = idB
    idC = idC
    At = At
    Task <- Crowd
    Session <- Sessions
    UnitId <- PairIds
    HomeId <- Home
    Baud = {9600, 19200}
    HomeBaud = 19200
    Cancellable = {"wait", "exit", "write", "start", "stop"}
    Faults = TRUE
INVARIANTS
    TypeOK
    OneInFlight
    LatchIsOwned
    StoppedOnExit
PROPERTIES
    Arbitrates
