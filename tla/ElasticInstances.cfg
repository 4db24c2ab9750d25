SPECIFICATION Spec
CONSTANTS
    Instances = {1, 2}
    Member <- OneEach
    Configs <- Shifting
    Messages = {0}
    Partition <- MessagePartition
    Deleted = Deleted
    Nothing = Nothing
    Gone = Gone
    Faults = {"info", "delete", "create", "consume", "disconnect", "crash"}
    MaxEvents = 3
    MaxFaults = 1
INVARIANTS
    ConsumesItsPartitions
PROPERTIES
    SelfCorrects
    DeletionStopsAll
    ImplementsConsumerGroup
CHECK_DEADLOCK FALSE
