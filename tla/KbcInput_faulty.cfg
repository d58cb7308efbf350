SPECIFICATION Spec
CONSTANTS
    ATTEMPTS = 2
    MaxFault = 1
    MaxErr = 1
    MaxCount = 2
    Packets = 3
    PhysKeys = {"ESC", "UP"}
    GarbageCodes = {1, 30, 72, 224}
    DataSync = {TRUE, FALSE}
    StrayAck = {TRUE, FALSE}
    SpuriousKbd = {TRUE, FALSE}
INVARIANTS
    TypeOK
    Attended
    WholePackets
    ReplayBound
    KeysTrackHeld
    GuessOnlyAfterDamage
CHECK_DEADLOCK FALSE
