\* Two transactions and a stream of three frames, in any order, whose pieces may be late.
SPECIFICATION Spec
CHECK_DEADLOCK FALSE
CONSTANTS
    Replies <- Tables
    MaxCommands = 2
    MaxFrames = 3
    Capacity = 1
    Policies = {"block", "drop_oldest", "drop_newest"}
INVARIANTS
    AnswersMatch
    FramesHonest
