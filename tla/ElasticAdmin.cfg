SPECIFICATION Spec
CONSTANTS
    Clients = {c1, c2}
    Names = {1, 2}
    Shapes <- ShapesMC
    MappingLists <- MappingListsMC
    NoConfig = NoConfig
    NoStream = NoStream
    MaxRevision = 4
INVARIANTS
    TypeOK
    StoredConfigValid
PROPERTIES
    MembershipUpdateIsAtomic
CHECK_DEADLOCK FALSE
