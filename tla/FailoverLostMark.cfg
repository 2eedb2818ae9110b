\* Two failed hops in a row.
SPECIFICATION ViewSpec
CONSTANTS
    p = p  c1 = c1  c2 = c2  dlhd = dlhd  pluto = pluto
    Cand <- MCOneCand
    Url = {u1, u2}
    Adapter <- MCAdapter
    TargetTtl = 1
    CursorIdle = 2
    NoEntry = NoEntry
    Parent = p
    ChildOrder <- MCOneOrder
    Provider <- MCOneProvider
    Req = {r1}
    MaxAttempts = 3
    Configs <- On
    Modes = {"hls"}
    Events = {"hop", "refresh"}
    NoTarget = NoTarget
    NoPolicy = NoPolicy
    NoChild = NoChild
PROPERTIES NoSilentSwitch
