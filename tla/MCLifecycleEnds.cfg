\* Saves and reloads that overlap, and wait for each other.
SPECIFICATION Spec
CONSTANTS
    a1 = a1
    a2 = a2
    r1 = r1
    r2 = r2
    k1 = k1
    s1 = s1
    s2 = s2
    Tray = Tray
    Quit = Quit
    Nobody = Nobody
    Other = Other
    Addrs <- OneAddr
    Requests <- OneRequest
    Sockets <- None
    Savers <- TwoSavers
    Looks <- TwoLooks
    MaxSessions = 3
    MaxGrabs = 0
PROPERTIES
    NobodyWaitsForever
    SavedIsApplied
