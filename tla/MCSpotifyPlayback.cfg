\* One tap at a time, two in all, and a change made elsewhere.
SPECIFICATION Spec
CONSTANTS
    a = a
    b = b
    t1 = t1
    Idle = Idle
    Tracks <- TwoTracks
    Taps <- OneTap
    Retries = 1
    Lag = 1
    MaxFeed = 1
    MaxTaps = 2
    MaxChanges = 1
INVARIANTS
    TypeOK
    CachedIsInFile
    SkipShows
PROPERTIES
    FaceSettles
