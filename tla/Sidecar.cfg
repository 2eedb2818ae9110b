SPECIFICATION SidecarSpec
CONSTANTS
    Key = {k1, k2}
    Asker = {r1, r2}
    MaxRestarts = 2
    Healthy = 1
    Ttl = 2
    CallMax = 1
    CacheMax = 1
    NoKey = NoKey
    NoEntry = NoEntry
INVARIANTS SidecarTypeOK GivesUpOnLoops NoneLeftBehind DecisionsRecent
CHECK_DEADLOCK FALSE
