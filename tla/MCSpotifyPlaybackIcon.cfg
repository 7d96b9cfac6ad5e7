\* A reading that overtakes the answer to the tap it reports.
SPECIFICATION Spec
CONSTANTS
    a = a
    b = b
    t1 = t1
    Idle = Idle
    Tracks <- TwoTracks
    Taps <- OneTap
    Retries = 1
    Lag = 1
    MaxFeed = 1
    MaxTaps = 1
    MaxChanges = 0
PROPERTIES
    KnownOutcomeApplied
