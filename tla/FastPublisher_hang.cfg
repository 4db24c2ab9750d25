SPECIFICATION Spec
CONSTANTS
    Flow = 3
    MaxOutstandingAcks = 1
    ContinueOnGap = {FALSE}
    MaxPings = 2
    Faults = {"publish", "cancel"}
    MaxSequence = 3
    MaxLost = 0
    MaxFaults = 2
PROPERTIES
    CallsReturn
CHECK_DEADLOCK FALSE
