\* Two messages, one of which does not decrypt, snoozed three times in all.
SPECIFICATION Spec
CONSTANTS
    Messages = {m1, m2}
    Unreadable = {m2}
    MaxAttempts = 2
    MaxTime = 2
    MaxTasks = 3
    MaxMishaps = 1
INVARIANT TypeOK HiddenIsPromised AlertedOnceWhenDue
PROPERTY EverySnoozeEnds
