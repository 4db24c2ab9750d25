SPECIFICATION Spec
CONSTANTS
    Instances = {1, 2}
    Member <- WithStandby
    Configs <- AllConfigs
    Messages = {0}
    Partition <- MessagePartition
    Deleted = Deleted
    Nothing = Nothing
    Gone = Gone
    Faults = {"stepdown", "ackwait", "consume", "create", "watch", "stop", "crash"}
    MaxEvents = 3
    MaxFaults = 1
INVARIANTS
    TypeOK
    ContextsCanBeStopped
CHECK_DEADLOCK FALSE
