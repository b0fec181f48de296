SPECIFICATION FairSpec
CONSTANTS
    Calls = {c1, c2}
    Cap = 1
    MaxRestarts = 0
CHECK_DEADLOCK FALSE
PROPERTIES
    EveryWriteReturns
