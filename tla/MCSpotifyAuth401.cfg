\* A poll answered 401.
SPECIFICATION Spec
CONSTANTS
    poll = poll
    control = control
    t1 = t1
    t2 = t2
    Callers <- Poll
    Pollers <- Poll
    Tabs <- NoTabs
    MaxIssued = 3
    MaxAttempts = 0
    SavesMayFail = FALSE
INVARIANTS
    RetryUsesAnotherToken
