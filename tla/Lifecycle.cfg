SPECIFICATION Spec
CONSTANTS
    MAX_ATTEMPTS = 3
    MaxFail = 1
    MaxRefuse = 1
    MaxNoise = 2
    LAST = {"ACK", "other"}
INVARIANTS
    CommandsAimed
    UnreadBound
    StartOfLoop
    MouseIsOn
    RateIsSet
    CleanExit
PROPERTIES
    InitEnds
CHECK_DEADLOCK FALSE
