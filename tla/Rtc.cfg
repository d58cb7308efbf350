SPECIFICATION Spec
CONSTANTS
    Starts <- MCStarts
    Garbage <- MCGarbage
    MaxTicks = 3
    MaxFail = 1
    NONE = NONE
INVARIANTS
    WholeIfQuick
    NeverEarly
PROPERTY
    FailureKeepsDate
