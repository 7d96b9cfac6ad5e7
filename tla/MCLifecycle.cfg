\* Reloads from the tray and from a save, with edits and taken ports.
SPECIFICATION Spec
CONSTANTS
    a1 = a1
    a2 = a2
    r1 = r1
    r2 = r2
    k1 = k1
    s1 = s1
    s2 = s2
    Tray = Tray
    Quit = Quit
    Nobody = Nobody
    Other = Other
    Addrs <- TwoAddrs
    Requests <- OneRequest
    Sockets <- OneSocket
    Savers <- OneSaver
    Looks <- OneLook
    MaxSessions = 3
    MaxGrabs = 1
INVARIANTS
    CurrentIsServing
PROPERTIES
    ImplementsOneAtATime
