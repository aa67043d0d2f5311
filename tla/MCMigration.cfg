CONSTANTS
    Commands = {c1, c2}
    None = None
    MaxChanges = 1
SPECIFICATION FairSpec
INVARIANTS
    LedgerWhole
    OneApplier
    TruthfulProfile
    UntouchedWithoutDDL
    SuccessIsGoverned
PROPERTIES
    ApplyEnds
CHECK_DEADLOCK FALSE
