\* Overlapping pushes on two messages, with retries, a crash and a payload lost in it.
CONSTANTS
    m1 = m1
    m2 = m2
    seen = seen
    flagged = flagged
    none = none
    idle = idle
    Messages = {m1, m2}
    Flags = {seen}
    Orphans = {m1}
    Inherited = {m2}
    Filtered = {}
    Window = {m1, m2}
    CanRebuild = FALSE
    MaxTasks = 3
    MaxAttempts = 2
    MaxCrashes = 1
    MaxOthers = 1
    MaxFilters = 0
    MaxSpoilt = 1
    NoFlags = none
    NoWrite = idle
SPECIFICATION SafetySpec
INVARIANTS
    TypeOK
    MarkedIffOwed
    TargetShown
    UnmarkedIsConfirmed
