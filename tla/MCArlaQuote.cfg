SPECIFICATION Spec
CONSTANTS
    Exec = {"addA"}
    Register = {}
    Query = {}
    Auth = {}
    DB <- MCDB
    Fresh = {}
    Rejected = Rejected
    Effect <- MCEffect
    Quoted = {"addA"}
    Long = {}
    MaxInFlight = 1
    MaxRestarts = 1
CHECK_DEADLOCK FALSE
INVARIANTS
    UndamagedLogReplays
