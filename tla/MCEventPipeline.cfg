CONSTANTS
    comment = comment
    notice = notice
    None = None
    Events <- MCEvents
    NoticeIds <- MCNoticeIds
    Envelope <- MCEnvelope
    Workers = {w1}
    Unparseable = {}
    Poison = {}
    BatchSize = 1
    MaxAttempts = 2
    MaxRetries = 1
    Capacity = 1
    MaxCopies = 3
    MaxFaults = 1
SPECIFICATION FairSpec
PROPERTIES
    DeliveryKept
    AppliedOrReported
CHECK_DEADLOCK FALSE
