\* One port under two paths and a caller's client; any add may fail, any call be cancelled.
SPECIFICATION LiveSpec
CONSTANTS
    n1 = n1
    n2 = n2
    usb0 = usb0
    byId = byId
    bus = bus
    l1 = l1
    l2 = l2
    None = None
    Name <- Names2
    Path <- Paths
    RealPath <- Leads
    Given <- Givens
    Link <- Links2
    Policy = "return"
    Failures = {"new", "shared", "cancel"}
INVARIANTS
    PortsSound
    RefsExact
    CompleteOrLost
PROPERTIES
    DispatchEnds
    CloseEnds
