\* Two slots for one panel, so a handler on a dead path lingers beside the next.
SPECIFICATION Spec
CONSTANTS
    clock = clock
    calendar = calendar
    off = off
    c1 = c1
    c2 = c2
    p1 = p1
    NoConn = NoConn
    Sources <- WithDisabled
    Enabled <- OneSource
    Conns <- TwoConns
    Panels <- OnePanel
    BufferCap = 2
    WireCap = 1
    MaxVersion = 3
    MaxFaults = 1
INVARIANTS
    Gapless
    InStoredOrder
    Converges
    NoOrphanSubscriber
    OneSocket
PROPERTIES
    StepsBackBriefly
    EventuallyFresh
