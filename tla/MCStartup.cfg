\* Three copies started at once, killed, quit and started again.
SPECIFICATION Spec
CONSTANTS
    first = first
    second = second
    third = third
    Nobody = Nobody
    Other = Other
    Copies <- ThreeCopies
INVARIANTS
    TypeOK
PROPERTIES
    ConfigForLife
    FailsForCause
    SomebodyServes
