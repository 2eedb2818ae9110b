\* Two requests of one stream at a time, while failover is switched on and off, answers
\* get lost and the sidecar restarts.
SPECIFICATION Spec
CONSTANTS
    p = p  c1 = c1  c2 = c2  dlhd = dlhd  pluto = pluto
    Cand <- MCOneCand
    Url = {u1}
    Adapter <- MCAdapter
    TargetTtl = 1
    CursorIdle = 1
    NoEntry = NoEntry
    Parent = p
    ChildOrder <- MCOneOrder
    Provider <- MCOneProvider
    Req = {r1, r2}
    MaxAttempts = 2
    Configs <- OnOff
    Modes = {"hls"}
    Events = {"hop", "refresh", "restart", "loss"}
    NoTarget = NoTarget
    NoPolicy = NoPolicy
    NoChild = NoChild
SYMMETRY Interchangeable
VIEW WhatMatters
INVARIANTS PinnedServed CachedTargetIsPinned PolicyOfServingProvider IdleMeansStale OffIsAuthoritative
PROPERTIES WalkExitsUnpin
