SPECIFICATION Spec
CONSTANTS
    Offsets = {0, 1, 3}
    Limits = {1, 2}
    MaxItems = 3
INVARIANTS
    TypeOK
    NoneTwice
    SkippedOnlyIfMoved
PROPERTIES
    PagesEnd
CHECK_DEADLOCK FALSE
