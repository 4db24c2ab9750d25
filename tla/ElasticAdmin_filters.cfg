SPECIFICATION Spec
CONSTANTS
    Clients = {c1}
    Names = {1, 2, 3, 4, 5}
    Shapes <- SizesMC
    MappingLists <- AllMappingsMC
    NoConfig = NoConfig
    NoStream = NoStream
    MaxRevision = 2
INVARIANTS
    EveryPartitionHasOneOwner
    BalancedWithinOne
    MappingsAcceptedIffTotal
CHECK_DEADLOCK FALSE
