SPECIFICATION FairSpec
CONSTANTS
    Channel = {ch1, ch2}
    Client = {c1, c2, c3}
    Tuner = {t1, t2}
    IdleTicks = 2
    NoTuner = NoTuner
    NoChannel = NoChannel
INVARIANTS
    OneUpstreamPerChannel
    ViewersCounted
PROPERTIES
    AbandonedTunerReturns
    KeepsPromise
