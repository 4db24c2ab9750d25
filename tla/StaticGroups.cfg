SPECIFICATION Spec
CONSTANTS
    Admins = {a1}
    Instances = {1, 2}
    Group <- OneGroup
    Member <- OneEach
    Configs <- Two
    Deleted = Deleted
    Nothing = Nothing
    Faults = {"create", "consume", "delete", "list", "watch", "crash"}
    MaxChanges = 4
    MaxFaults = 1
INVARIANTS
    TypeOK
    ConsumesItsPartitions
PROPERTIES
    Settles
    DeletionCleansUp
CHECK_DEADLOCK FALSE
