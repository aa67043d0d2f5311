CONSTANTS
    r1 = r1
    alice = alice
    bob = bob
    carol = carol
    None = None
    Requests <- MCRequests
    Users <- MCUsers
    Creators <- MCCreators
    Deciders <- MCUsers
    Admins <- MCAdmins
    Policy <- MCPolicy
    Handlers = {h1, h2}
    Monitors = {m1}
    CountMayFail = FALSE
SPECIFICATION Spec
INVARIANTS
    PendingIsShort
CHECK_DEADLOCK FALSE
