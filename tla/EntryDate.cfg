SPECIFICATION EntrySpec
CONSTANTS
    Years = {0, 1, 3, 4, 23, 24, 99}
    MaxLoads = 32
INVARIANT
    DriftsByYearsOnly
CHECK_DEADLOCK FALSE
