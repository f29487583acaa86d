\* A run of the tuner may fail or be stopped at any of its steps; then it is over.
SPECIFICATION Spec
CHECK_DEADLOCK FALSE
CONSTANTS
    None = None
    Names <- TwoNames
    Base <- TwoGains
    GainMax = 4
    Algorithms = {"pdf", "pd2i"}
    Costs = {4, 10}
    Unstable = 100
    Noises = {0, 3}
    Margin = 5
    Step0 = 1
    StepMax = 2
    Limit = 2
    MaxTrials = 2
    Repeats = 1
    Confirms = 1
    Arguments <- SomeArguments
INVARIANTS
    
    OnlyProven
    BestConfirmed
