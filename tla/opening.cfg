\* One open_device of every kind, or a search of two ports; any reply may be lost once.
SPECIFICATION Spec
CHECK_DEADLOCK FALSE
CONSTANTS
    None = None
    Scenarios <- AllScenarios
    MaxLost = 2
INVARIANTS
    FactsTrue
    RecoveryAimed
    PortsAccounted
PROPERTIES
    SearchComplete
