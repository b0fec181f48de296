SPECIFICATION FairSpec
CONSTANTS
  Readers = {r1, r2, r3, r4, r5}
  Conns = {c1, c2, c3}
  MaxConnections = 2
  NoConn = NoConn
  MaxCrashes = 1
INVARIANTS NoLeak NoLostWakeup CrashCost
PROPERTY ReadsReturn
CHECK_DEADLOCK FALSE
