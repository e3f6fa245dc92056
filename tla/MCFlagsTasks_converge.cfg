\* Every intent is confirmed in the end, a filter rule, a rebuild, a payload that
\* cannot be opened and a message no pass reads any more included.
CONSTANTS
    m1 = m1
    m2 = m2
    seen = seen
    flagged = flagged
    none = none
    idle = idle
    Messages = {m1, m2}
    Flags = {seen}
    Orphans = {}
    Inherited = {m1}
    Filtered = {m1}
    Window = {m1}
    CanRebuild = TRUE
    MaxTasks = 2
    MaxAttempts = 2
    MaxCrashes = 1
    MaxOthers = 1
    MaxFilters = 1
    MaxSpoilt = 1
    NoFlags = none
    NoWrite = idle
SPECIFICATION Spec
PROPERTIES
    Converges
CHECK_DEADLOCK FALSE
