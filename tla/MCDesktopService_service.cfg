\* Crashes, failing restarts, two install requests and quitting at any point.
SPECIFICATION Spec
CONSTANTS
    MaxRestarts = 3
    MaxForks = 5
    MaxUpdates = 2
    MaxPauses = 2
CHECK_DEADLOCK FALSE
INVARIANT TypeOK BoundedRestarts
PROPERTY OneService FailureIsAnswered LeavingEnds
