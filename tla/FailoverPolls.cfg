\* One player: polls, failed hops, walks and raw TS with two children, which are reshuffled,
\* added and removed meanwhile; answers get lost.
SPECIFICATION FairSpec
CONSTANTS
    p = p  c1 = c1  c2 = c2  dlhd = dlhd  pluto = pluto
    Cand <- MCCand
    Url = {u1}
    Adapter <- MCAdapter
    TargetTtl = 1
    CursorIdle = 1
    NoEntry = NoEntry
    Parent = p
    ChildOrder <- MCChildOrder
    Provider <- MCProvider
    Req = {r1}
    MaxAttempts = 4
    Configs <- OnDefinite
    Modes = {"hls", "ts"}
    Events = {"hop", "refresh", "bucket", "regroup", "loss"}
    NoTarget = NoTarget
    NoPolicy = NoPolicy
    NoChild = NoChild
INVARIANTS TypeOK FailedWalkUnpins WalkTriesEveryone
PROPERTIES OnlyAnswersHoldUp
