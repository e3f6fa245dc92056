\* A kicked execution writes while another caller holds the slot.
CONSTANTS
    Callers = {u1, r1, k1}
    Runners = {r1}
    Kicked = {k1}
    Accounts = {1}
    MaxDepth = 2
    MaxGates <- Gates
SPECIFICATION SafetySpec
INVARIANTS
    KickedWaitsItsTurn
CHECK_DEADLOCK FALSE
