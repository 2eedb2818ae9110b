SPECIFICATION Spec
CONSTANTS
    phone = phone 
    Family = {phone}
    Bare = {}
    NoToken = NoToken  NoDoc = NoDoc  Keep = Keep
    Tick = Tick  Flight = Flight  Device = Device  Wake = Wake
    Saved <- MCSaved
    Faulty <- MCFaulty
    MaxRequests = 2
    MaxAtOnce = 1
    MaxGrants = 2
    MaxFaults = 1
INVARIANTS BeatGoesOn SignedOutStays
CHECK_DEADLOCK FALSE
