\* Crashes and failing restarts only, no update.
SPECIFICATION Spec
CONSTANTS
    MaxRestarts = 3
    MaxForks = 5
    MaxUpdates = 0
    MaxPauses = 2
CHECK_DEADLOCK FALSE
PROPERTY CrashLoopGivesUp
