SPECIFICATION Spec
CONSTANTS
    Channel = {"news", "sport"}
    Version = {1, 2}
    Lineup <- MCLineup
    NoRow = NoRow
    NoVersion = NoVersion
    MaxRequests = 3
    MaxAtOnce = 2
    MaxFaults = 1
INVARIANTS TypeOK GuideWhole
PROPERTIES ChoicesStick
CHECK_DEADLOCK FALSE
