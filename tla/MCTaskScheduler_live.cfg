\* Every task is settled although the process stops or crashes.
CONSTANTS
    t1 = t1
    t2 = t2
    t3 = t3
    a1 = a1
    Tasks = {t1, t2}
    Accounts = {a1}
    AccountOf <- OneAccount
    Deferred = {t2}
    Cancellable = {t2}
    Unrunnable = {}
    MaxAttempts = 2
    MaxRestarts = 2
    NoTask = NoTask
SPECIFICATION Spec
PROPERTIES
    PromiseKept
    StartsPromptly
