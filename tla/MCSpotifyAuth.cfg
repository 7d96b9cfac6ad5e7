\* A poll, a control request and two tabs at once, disks that fail, restarts.
SPECIFICATION Spec
CONSTANTS
    poll = poll
    control = control
    t1 = t1
    t2 = t2
    Callers <- PollAndControl
    Pollers <- Poll
    Tabs <- TwoTabs
    MaxIssued = 3
    MaxAttempts = 1
    SavesMayFail = TRUE
INVARIANTS
    TypeOK
    OneExchangePerAttempt
    SavedBeforeTrusted
PROPERTIES
    GivesUpDeadGrant
