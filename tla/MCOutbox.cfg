CONSTANTS
    Events = {e1, e2}
    NoticeIds = {n1, n2}
    None = None
    Workers = {w1, w2}
    BatchSize = 2
    MaxAttempts = 2
    MaxFaults = 1
SYMMETRY Symmetry
SPECIFICATION Spec
INVARIANTS
    ExclusiveHold
    SentIsStored
    DeadLetterEarned
    NoticesSound
    WaitingUnlocked
CHECK_DEADLOCK FALSE
