SPECIFICATION Spec
CONSTANTS
    ATTEMPTS = 2
    MaxFault = 1
    MaxErr = 0
    MaxCount = 2
    Packets = 3
    PhysKeys = {"ESC", "UP"}
    GarbageCodes = {30, 224}
    DataSync = {TRUE, FALSE}
    StrayAck = {FALSE}
    SpuriousKbd = {TRUE, FALSE}
PROPERTIES
    FeedSpec
    MouseServed
    EscQuits
CHECK_DEADLOCK FALSE
