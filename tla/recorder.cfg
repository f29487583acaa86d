\* Both overflow policies, with and without a duration; polls, writes and the body may fail.
SPECIFICATION LiveSpec
CONSTANTS
    Devices = 2
    Period = 2
    Totals <- Durations
    Policies = {"block", "drop_newest"}
    Capacity = 1
    BatchSize = 2
    FlushInterval = 3
    MaxTime = 6
    Failures = {"poll", "write", "cancel"}
INVARIANTS
    TypeOK
    SlotsAccounted
    OnSchedule
    NothingLost
    CountHonest
    ReturnMeansWritten
PROPERTIES
    RecordingEnds
