\* One failed probe starts the outage, the second reports it.
SPECIFICATION Spec
CONSTANTS
    DownAfter = 2
    MaxProbes = 1
    MaxFinishes = 2
INVARIANTS
    TypeOK
    NeverBlank
PROPERTIES
    PanelComesBack
    OutageIsReported
