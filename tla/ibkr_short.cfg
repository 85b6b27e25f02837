SPECIFICATION MCSpec
CONSTANTS
    live = live
    other = other
    o1 = o1
    o2 = o2
    o3 = o3
    Accounts = {live}
    Ids = {o1, o2, o3}
    MaxQty = 2
    SnapshotRaces = TRUE
    OtherWords = FALSE
    MaxErred = 0
    MaxRows = 1
INVARIANT NeverShort
SYMMETRY Symmetry
CONSTRAINT Undisturbed
