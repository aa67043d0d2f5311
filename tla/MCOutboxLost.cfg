CONSTANTS
    Events = {e1}
    NoticeIds = {n1}
    None = None
    Workers = {w1, w2}
    BatchSize = 1
    MaxAttempts = 2
    MaxFaults = 1
SPECIFICATION FairSpec
PROPERTIES
    NoEventLost
CHECK_DEADLOCK FALSE
