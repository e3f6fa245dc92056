CONSTANTS
    Sends = {s1, s2}
    Parked = {s2}
    MaxAttempts = 2
    MaxEnds = 1
    MaxFaults = 1
    NoSend = NoSend
SPECIFICATION Spec
INVARIANTS
    TypeOK
    AtMostOnce
    LedgerTruth
    CompletedIsSent
    OneSentRow
    PlaceholderIsOwned
PROPERTIES
    EverySendSettles
    CopyConfirms
CHECK_DEADLOCK FALSE
