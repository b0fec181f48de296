SPECIFICATION FairSpec
CONSTANTS
    Calls = {c1, c2, c3}
    Cap = 1
    MaxRestarts = 1
CHECK_DEADLOCK FALSE
INVARIANTS
    AckedDurable
    LoggedOnce
    NeverGarbled
PROPERTIES
    ImplementsDurableLog
    WriteReturns
    CloseStopsWriter
