SPECIFICATION FairSpec
CONSTANTS
    Auths = {"a1"}
    Registers = {"r1"}
    Execs = {"e1"}
    Tokens = {t1, t2}
    NoToken = NoToken
    MaxFailures = 1
INVARIANTS
    ExecOnce
    LeftStaysOut
PROPERTIES
    HonouredSessionLasts
    CallSettles
