SPECIFICATION Spec
CONSTANTS
    Exec = {"addA"}
    Register = {"signup"}
    Query = {}
    Auth = {"auth"}
    DB <- MCDB
    Fresh = {}
    Rejected = Rejected
    Effect <- MCEffect
    Quoted = {}
    Long = {"signup"}
    MaxInFlight = 2
    MaxRestarts = 1
CHECK_DEADLOCK FALSE
INVARIANTS
    AckedLogged
    AckedVisible
    TempErrorNotLogged
    LogRebuildsStore
PROPERTY
    ServesUntilTheEnd
