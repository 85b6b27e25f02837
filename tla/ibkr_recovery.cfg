SPECIFICATION MCFairSpec
CONSTANTS
    live = live
    other = other
    o1 = o1
    o2 = o2
    o3 = o3
    Accounts = {live}
    Ids = {o1, o2}
    MaxQty = 1
    SnapshotRaces = FALSE
    OtherWords = TRUE
    MaxErred = 1
    MaxRows = 2
PROPERTY UncertainResolved
CONSTRAINT Opening
