SPECIFICATION Spec
CONSTANTS
    Calls <- MCCalls
    MaxAnswers = 3
    MaxRanges = 2
INVARIANTS
    TypeOK
    NothingAfterStop
    AtMostCount
    StartsWhereAsked
PROPERTIES
    EndsAtEnd
    LoopsEnd
CHECK_DEADLOCK FALSE
