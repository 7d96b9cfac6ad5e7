\* An open WebSocket across a reload.
SPECIFICATION Spec
CONSTANTS
    a1 = a1
    a2 = a2
    r1 = r1
    r2 = r2
    k1 = k1
    s1 = s1
    s2 = s2
    Tray = Tray
    Quit = Quit
    Nobody = Nobody
    Other = Other
    Addrs <- OneAddr
    Requests <- None
    Sockets <- OneSocket
    Savers <- None
    Looks <- OneLook
    MaxSessions = 3
    MaxGrabs = 0
INVARIANTS
    SocketsCloseWithSession
