SPECIFICATION Spec
CONSTANTS
    Exec = {"addA", "linkA"}
    Register = {}
    Query = {}
    Auth = {}
    DB <- MCDB
    Fresh = {}
    Rejected = Rejected
    Effect <- MCEffect
    Quoted = {}
    Long = {}
    MaxInFlight = 2
    MaxRestarts = 1
CHECK_DEADLOCK FALSE
INVARIANTS
    UndamagedLogReplays
