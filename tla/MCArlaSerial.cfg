SPECIFICATION Spec
CONSTANTS
    Exec = {"addA", "linkA"}
    Register = {}
    Query = {"read"}
    Auth = {}
    DB <- MCDB
    Fresh = {}
    Rejected = Rejected
    Effect <- MCEffect
    Quoted = {}
    Long = {}
    MaxInFlight = 1
    MaxRestarts = 2
CHECK_DEADLOCK FALSE
INVARIANTS
    LogRebuildsStore
    UndamagedLogReplays
