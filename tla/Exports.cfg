SPECIFICATION Spec
CONSTANTS
    User <- MCUser
    Admin0 = "root"
    Builtin <- MCBuiltin
    Clone <- MCClone
    Path <- MCPath
    Unknown = "unknown"
    OwnPath <- MCOwnPath
    Token = {1, 2}
    Name = {1, 2}
    NoUser = NoUser
    Deleted = Deleted
    NoList = NoList
    NoFile = NoFile
    Task = {t1, t2}
    MaxRequests = 3
    MaxFaults = 1
INVARIANTS FilesFollow RecomposeHeals
CHECK_DEADLOCK FALSE
SYMMETRY TaskSymmetry
