SPECIFICATION Spec
CONSTANTS
    ATTEMPTS = 2
    MaxFault = 1
    MaxErr = 2
    MaxCount = 11
    Packets = 3
    PhysKeys = {"LETTER"}
    GarbageCodes = {30}
    DataSync = {FALSE}
    StrayAck = {TRUE, FALSE}
    SpuriousKbd = {TRUE, FALSE}
INVARIANTS
    ResyncBound
CHECK_DEADLOCK FALSE
