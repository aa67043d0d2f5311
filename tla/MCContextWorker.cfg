CONSTANTS
    comment = comment
    poison = poison
    garbage = garbage
    Null = Null
    Events <- MCEvents
    Envelope <- MCEnvelope
    Unparseable <- MCUnparseable
    Poison <- MCPoison
    MaxRetries = 2
    Capacity = 2
    MaxCopies = 1
    MaxFaults = 2
SPECIFICATION FairSpec
INVARIANTS
    SettledIsAccounted
    GiveUpEarned
PROPERTIES
    EverySettles
CHECK_DEADLOCK FALSE
