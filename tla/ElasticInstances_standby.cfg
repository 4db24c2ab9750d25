SPECIFICATION Spec
CONSTANTS
    Instances = {1, 2}
    Member <- WithStandby
    Configs <- Growing
    Messages = {}
    Partition <- MessagePartition
    Deleted = Deleted
    Nothing = Nothing
    Gone = Gone
    Faults = {"crash"}
    MaxEvents = 3
    MaxFaults = 1
PROPERTIES
    Converges
CHECK_DEADLOCK FALSE
