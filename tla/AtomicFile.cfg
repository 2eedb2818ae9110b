SPECIFICATION FilesSpec
CONSTANTS
    Op = {o1, o2, o3}
    FileName = {f1, f2}
    Contents = {b1}
    Absent = Absent
    Half = Half
    NoCall = NoCall
    None = None
    Place = {1, 2, 3}
INVARIANTS FilesTypeOK
PROPERTIES IsRegister CallsEnd
CHECK_DEADLOCK FALSE
