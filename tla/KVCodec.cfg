SPECIFICATION Spec
CONSTANTS
    Codecs <- MCCodecs
    Keys <- MCKeys
    Filters <- MCFilters
    ForeignKeys <- MCForeignKeys
    Buffer = 1
    MaxWrites = 2
INVARIANTS
    TypeOK
    GetsItsKey
    KeysAllOrNone
    ReaderGetsItsKeys
PROPERTIES
    ReaderCompletes
CHECK_DEADLOCK FALSE
