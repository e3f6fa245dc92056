SPECIFICATION Spec
CONSTANTS
    m1 = m1
    m2 = m2
    inbox = inbox
    archive = archive
    Messages = {m1, m2}
    Folders = {inbox, archive}
    Chosen = {m1}
    Start = inbox
    FirstUid <- Numbers
    Priority <- VisitOrder
    UidPlus = {TRUE, FALSE}
    StableIds = {TRUE, FALSE}
    CanUndo = TRUE
    MaxTasks = 2
    MaxAttempts = 2
    Mishaps <- Everything
    MaxMishaps = 2
    None = None
CHECK_DEADLOCK FALSE
INVARIANTS
    TypeOK
    NoOrphanGoal
    NumberNamesMessage
PROPERTIES
    MovesWhatWasAccepted
    EveryMoveSettles
