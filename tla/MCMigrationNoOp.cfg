CONSTANTS
    Commands = {c1}
    None = None
    MaxChanges = 1
SPECIFICATION Spec
PROPERTIES
    NoOpOnlyWhenExact
CHECK_DEADLOCK FALSE
