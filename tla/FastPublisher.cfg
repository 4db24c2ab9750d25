SPECIFICATION Spec
CONSTANTS
    Flow = 2
    MaxOutstandingAcks = 1
    ContinueOnGap = {TRUE, FALSE}
    MaxPings = 2
    Faults = {"subscribe", "publish", "ping", "cancel", "reject"}
    MaxSequence = 4
    MaxLost = 3
    MaxFaults = 1
INVARIANTS
    TypeOK
    OutstandingBounded
PROPERTIES
    StallsRecover
    ImplementsAckedLog
    CallsReturnOnce
CHECK_DEADLOCK FALSE
