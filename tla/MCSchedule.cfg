\* Twenty-four days of a short calendar, with every kind of rule and every window.
SPECIFICATION Spec
CONSTANTS
    MonthLengths <- ShortYear
    LeapMonth = 2
    LeapEvery = 3
    MaxMonth = 45
    Slots = 3
    RecurrenceCap = 6
    Series <- SmallSeries
    Setups <- SmallSetups
    AgendaSize = 3
    NotifySlots = 2
    LastDay = 24
INVARIANTS
    TypeOK
    AgendaMatchesRules
    AsleepInWindow
PROPERTIES
    NextUpIsStable
\* The days run out.
CHECK_DEADLOCK FALSE
