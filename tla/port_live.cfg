\* Two rates, no cancellation: does everybody who waits get through?
SPECIFICATION LiveSpec
CONSTANTS
    t1 = t1
    t2 = t2
    t3 = t3
    s1 = s1
    s2 = s2
    idA = idA
    idB = idB
    idC = idC
    At = At
    Task <- Tasks
    Session <- Sessions
    UnitId <- PairIds
    HomeId <- Home
    Baud = {9600, 19200}
    HomeBaud = 19200
    Cancellable = {}
    Faults = FALSE
PROPERTIES
    BaudReconciled
    WaitersServed
    ExitClearsLatch
    BaudChangeReturns
