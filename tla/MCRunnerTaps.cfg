\* Two taps, the second after the first one's poll has ended.
SPECIFICATION TapsSpec
CONSTANTS
    fast = fast
    off = off
    Sources <- OneAndOff
    Enabled <- One
    Conns <- NoConns
    BufferCap = 1
    MaxVersion = 1
    Interval <- IntervalOne
    MaxBackoff = 7
    MinPollTimeout = 3
    FailureCap = 3
PROPERTIES
    BurstCannotBunchPolls
