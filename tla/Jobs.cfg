SPECIFICATION FairSpec
CONSTANTS
    epg = epg  m3u = m3u  daily = daily  hourly = hourly
    Job = {epg, m3u}
    Cron = {daily, hourly}
    Saved <- MCSaved
    Backup <- MCBackup
    NoDoc = NoDoc
    NoCron = NoCron
    MaxRequests = 2
    MaxAtOnce = 2
    MaxRuns = 1
    MaxFaults = 1
INVARIANTS TypeOK TimersMatch
PROPERTIES OnlyRequestsWrite EnabledJobsRun
CHECK_DEADLOCK FALSE
