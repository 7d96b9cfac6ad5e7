\* One source beside one that is switched off, its delays up to an uneven cap.
SPECIFICATION RunnerSpec
CONSTANTS
    fast = fast
    off = off
    Sources <- OneAndOff
    Enabled <- One
    Conns <- NoConns
    BufferCap = 1
    MaxVersion = 1
    Interval <- IntervalOne
    MaxBackoff = 7
    MinPollTimeout = 3
    FailureCap = 3
INVARIANTS
    RunnerTypeOK
    TapNotLost
    OkIsRecent
PROPERTIES
    WaitIsCappedDoubling
    WaitReturns
