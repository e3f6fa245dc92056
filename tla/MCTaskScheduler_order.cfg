\* One account: ordering, retries, a withdrawal, a deferred task, a restart.
CONSTANTS
    t1 = t1
    t2 = t2
    t3 = t3
    a1 = a1
    Tasks = {t1, t2, t3}
    Accounts = {a1}
    AccountOf <- OneAccount
    Deferred = {t2}
    Cancellable = {t2}
    Unrunnable = {t3}
    MaxAttempts = 2
    MaxRestarts = 1
    NoTask = NoTask
SPECIFICATION SafetySpec
INVARIANTS
    TypeOK
    DrivenSerially
    InOrder
    AttemptBudget
PROPERTIES
    NoOvertake
    PromiseSpec
