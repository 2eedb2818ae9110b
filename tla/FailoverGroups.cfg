SPECIFICATION Spec
CONSTANTS
    Chan = {a, b, c}
    GroupId = {g1, g2}
    Req = {r1, r2}
    Guide = guide
    MaxRequests = 3
    Null = Null
    Missing = Missing
    NoDoc = NoDoc
CHECK_DEADLOCK FALSE
INVARIANTS
    GroupsWellFormed
    NeverTwoHeads
    ChildrenMirror
    DeletedStaysGone
SYMMETRY Symmetry
