CONSTANTS
    r1 = r1
    alice = alice
    bob = bob
    carol = carol
    None = None
    Requests <- MCRequests
    Users <- MCUsers
    Creators <- MCCreators
    Deciders <- MCUsers
    Admins <- MCAdmins
    Policy <- MCPolicy
    Handlers = {h1, h2}
    Monitors = {m1, m2}
    CountMayFail = TRUE
SPECIFICATION FairSpec
INVARIANTS
    ApprovedByQuorum
    PendingUnrejected
    ExpiredWasOverdue
    
PROPERTIES
    OverdueIsSettled
    ImplementsRow
CHECK_DEADLOCK FALSE
