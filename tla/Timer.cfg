SPECIFICATION Spec
CONSTANTS
    TIMER_FREQ = 1193182
    Frequencies <- MCFrequencies
    Modes <- MCModes
    BootDivisor = 19886
    BadCounts = {0, 7777}
    MaxFail = 3
    NONE = NONE
INVARIANTS
    FrequencyIsSet
    ModeKept
