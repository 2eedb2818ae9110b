SPECIFICATION FairSpec
CONSTANTS
    Channel = {ch1}
    Player = {p1}
    Stream = {s1}
    QueueCap = 1
    MaxBatch = 1
    PollTtl = 0
    SocketIdle = 1
    Cooldown = 1
    MaxRetries = 1
    MaxOpens = 2
    NoRow = NoRow
    NoChannel = NoChannel
INVARIANTS NoGhostViewer SavedOnce IntervalsMatch
PROPERTY EndedViewersGo
