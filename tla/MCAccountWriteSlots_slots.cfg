\* A request, a task runner and an execution it starts, on two accounts.
CONSTANTS
    Callers = {u1, r1, k1}
    Runners = {r1}
    Kicked = {k1}
    Accounts = {1, 2}
    MaxDepth = 2
    MaxGates <- Gates
SPECIFICATION Spec
INVARIANTS
    TypeOK
    Exclusive
    NoLostGate
    FirstComeFirstServed
PROPERTIES
    EveryCallServed
CHECK_DEADLOCK FALSE
