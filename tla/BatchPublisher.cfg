SPECIFICATION Spec
CONSTANTS
    Publishers = {b1}
    Calls = {c1}
    Messages = {"m1", "m2"}
    Slices <- MCSlices
    AckFirst = TRUE
    AckEvery = 2
    MaxSize = 2
    Faults = {"publish", "request", "answer", "reject", "abandon"}
    MaxFaults = 2
INVARIANTS
    TypeOK
    CommitTells
    CommitIsNotRetried
PROPERTIES
    ImplementsAtomicBatch
CHECK_DEADLOCK FALSE
