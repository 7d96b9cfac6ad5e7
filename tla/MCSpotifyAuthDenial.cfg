\* A revoked grant, a new sign-in, and the denial of the old grant arriving late.
SPECIFICATION Spec
CONSTANTS
    poll = poll
    control = control
    t1 = t1
    t2 = t2
    Callers <- Poll
    Pollers <- Poll
    Tabs <- OneTab
    MaxIssued = 3
    MaxAttempts = 1
    SavesMayFail = FALSE
PROPERTIES
    OnlyDeadGrantsCleared
