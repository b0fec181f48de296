SPECIFICATION Spec
CONSTANTS
    Calls = {c1, c2}
    Cap = 1
    MaxRestarts = 1
CHECK_DEADLOCK FALSE
INVARIANTS
    AckedOnOwnLine
