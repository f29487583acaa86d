\* An add to a port in use fails.
SPECIFICATION Spec
CONSTANTS
    n1 = n1
    n2 = n2
    usb0 = usb0
    byId = byId
    bus = bus
    l1 = l1
    l2 = l2
    None = None
    Name <- Names2
    Path <- Paths
    RealPath <- Leads
    Given = {}
    Link <- Links2
    Policy = "raise"
    Failures = {"shared"}
INVARIANTS
    ServedWhileListed
